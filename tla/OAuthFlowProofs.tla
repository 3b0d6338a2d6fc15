--------------------------- MODULE OAuthFlowProofs ---------------------------
(***************************************************************************)
(* Theorems about the Google OAuth flow, for every set of flows, callbacks, *)
(* users and containers.                                                   *)
(***************************************************************************)
EXTENDS OAuthFlow, TLAPS

-----------------------------------------------------------------------------
(* The inductive invariant.                                                *)

\* A repository holds states that were started in its own container.
PendingStarted ==
    \A k \in Containers : \A f \in pending[k] : flow[f] # None /\ flow[f].container = k

\* A call that carries a state carries one that was started.
CarriesStarted ==
    \A c \in Callbacks :
        /\ Running(c) => arg[c] # None
        /\ arg[c] # None => flow[arg[c].flow] # None

\* The state of an accepted callback is its user's, and in no repository.
AcceptedTook ==
    \A c \in accepted :
        /\ pc[c] \notin {"new", "verified"}
        /\ arg[c] # None
        /\ flow[arg[c].flow].user = arg[c].user
        /\ \A k \in Containers : arg[c].flow \notin pending[k]

\* What a callback has behind it, by the step it is about to take.
Progress ==
    \A c \in Callbacks :
        pc[c] \in {"exchanging", "connecting", "reporting"} => c \in accepted

\* A callback whose code Google took.  No other callback had that code taken.
Exchanged(c) == pc[c] \in {"connecting", "reporting"} \/ c \in connected
CodesTaken ==
    \A c \in Callbacks : Exchanged(c) =>
        /\ arg[c] # None
        /\ code[arg[c].code] = "spent"
        /\ \A d \in Callbacks \ {c} : Exchanged(d) => arg[c].code # arg[d].code

FlowInv ==
    /\ TypeOK
    /\ PendingStarted
    /\ CarriesStarted
    /\ AcceptedTook
    /\ Progress
    /\ CodesTaken
    /\ SingleUse
    /\ ConnectsStarter

USE DEF Payload, Call

LEMMA FlowInvInit == Init => FlowInv
  BY FlowAssumption DEF Init, FlowInv, TypeOK, Steps, PendingStarted, CarriesStarted,
     AcceptedTook, Progress, CodesTaken, Exchanged, SingleUse, ConnectsStarter, Running

\* Answering a callback or moving it on keeps the program counters typed.
LEMMA AnswerType ==
    ASSUME TypeOK, NEW c \in Callbacks, NEW outcome \in Answers, Answer(c, outcome)
    PROVE  /\ pc' \in [Callbacks -> Steps]
           /\ reply' \in [Callbacks -> Answers \cup {None}]
           /\ pc'[c] = "done"
           /\ \A d \in Callbacks \ {c} : pc'[d] = pc[d]
  BY DEF TypeOK, Answer, Steps

LEMMA GotoType ==
    ASSUME TypeOK, NEW c \in Callbacks, NEW step \in Steps, Goto(c, step)
    PROVE  /\ pc' \in [Callbacks -> Steps]
           /\ reply' \in [Callbacks -> Answers \cup {None}]
           /\ pc'[c] = step
           /\ \A d \in Callbacks \ {c} : pc'[d] = pc[d]
  BY DEF TypeOK, Goto

LEMMA EmitType ==
    ASSUME TypeOK, NEW of \in Flows \cup Callbacks,
           NEW status \in {"started", "connected"} \cup Denials, Emit(of, status)
    PROVE  audit' \subseteq Events
  BY DEF TypeOK, Emit, Events

LEMMA DenyType ==
    ASSUME TypeOK, NEW c \in Callbacks, NEW status \in Denials, Deny(c, status)
    PROVE  /\ pc' \in [Callbacks -> Steps]
           /\ reply' \in [Callbacks -> Answers \cup {None}]
           /\ pc'[c] = "done"
           /\ \A d \in Callbacks \ {c} : pc'[d] = pc[d]
           /\ audit' \subseteq Events
  <1>1. status \in Answers
    BY DEF Answers
  <1> QED
    BY <1>1, AnswerType, EmitType DEF Deny

\* A callback that ends with its variables otherwise alone keeps the invariant.
LEMMA EndKeepsInv ==
    ASSUME FlowInv, NEW c \in Callbacks,
           pc' \in [Callbacks -> Steps], reply' \in [Callbacks -> Answers \cup {None}],
           pc'[c] = "done", \A d \in Callbacks \ {c} : pc'[d] = pc[d],
           audit' \subseteq Events,
           code' \in [Flows -> {"none", "issued", "spent"}],
           \A f \in Flows : code[f] = "spent" => code'[f] = "spent",
           \/ UNCHANGED connected
           \/ pc[c] = "connecting" /\ connected' = connected \cup {c},
           UNCHANGED <<clock, active, flow, pending, arg, accepted, restarted>>
    PROVE  FlowInv'
  <1>1. TypeOK'
    BY DEF FlowInv, TypeOK
  <1>2. PendingStarted' /\ SingleUse'
    BY DEF FlowInv, PendingStarted, SingleUse
  <1>3. CarriesStarted'
    BY DEF FlowInv, CarriesStarted, Running
  <1>4. AcceptedTook'
    BY DEF FlowInv, AcceptedTook, TypeOK
  <1>5. Progress'
    BY DEF FlowInv, Progress
  <1>6. CodesTaken'
    <2>1. \A d \in Callbacks : Exchanged(d)' => Exchanged(d)
      BY DEF Exchanged
    <2>2. \A d \in Callbacks : arg[d] # None => arg[d].code \in Flows
      BY DEF FlowInv, TypeOK
    <2> QED
      BY <2>1, <2>2 DEF FlowInv, CodesTaken
  <1>7. ConnectsStarter'
    <2>1. \A d \in connected' : d \in Callbacks /\ Exchanged(d)' /\ d \in accepted
      BY DEF FlowInv, ConnectsStarter, Progress, TypeOK, Exchanged
    <2> QED
      BY <1>6, <2>1 DEF FlowInv, ConnectsStarter, AcceptedTook, CodesTaken
  <1> QED
    BY <1>1, <1>2, <1>3, <1>4, <1>5, <1>6, <1>7 DEF FlowInv

LEMMA StartKeepsInv ==
    ASSUME FlowInv, NEW f \in Flows, NEW u \in Users, NEW target \in Targets,
           NEW k \in Containers, StartGoogleOAuth(f, u, target, k)
    PROVE  FlowInv'
  <1> DEFINE payload == [user |-> u, target |-> target, container |-> k, expiresAt |-> clock + Ttl]
  <1>1. payload \in Payload /\ payload # None
    BY FlowAssumption, NoneAssumption DEF FlowInv, TypeOK, StartGoogleOAuth
  <1>2. flow[f] = None /\ flow' = [flow EXCEPT ![f] = payload]
    BY DEF StartGoogleOAuth
  <1>3. TypeOK'
    BY <1>1, <1>2, EmitType DEF FlowInv, TypeOK, StartGoogleOAuth, callbacks
  <1>4. \A c \in Callbacks : arg[c] # None => arg[c].flow # f
    BY <1>2 DEF FlowInv, CarriesStarted
  <1>5. PendingStarted'
    BY <1>1, <1>2 DEF FlowInv, PendingStarted, StartGoogleOAuth, TypeOK
  <1>6. CarriesStarted'
    BY <1>1, <1>2 DEF FlowInv, CarriesStarted, StartGoogleOAuth, TypeOK, callbacks, Running
  <1>7. AcceptedTook'
    BY <1>2, <1>4 DEF FlowInv, AcceptedTook, StartGoogleOAuth, TypeOK, callbacks
  <1>8. Progress' /\ SingleUse' /\ CodesTaken'
    BY DEF FlowInv, Progress, SingleUse, CodesTaken, Exchanged, StartGoogleOAuth, callbacks
  <1>9. ConnectsStarter'
    BY <1>2, <1>4 DEF FlowInv, ConnectsStarter, AcceptedTook, StartGoogleOAuth, TypeOK, callbacks
  <1> QED
    BY <1>3, <1>5, <1>6, <1>7, <1>8, <1>9 DEF FlowInv

LEMMA VerifyKeepsInv ==
    ASSUME FlowInv, NEW c \in Callbacks, NEW f \in Flows, NEW g \in Flows, NEW u \in Users,
           NEW k \in Containers, VerifyState(c, f, g, u, k)
    PROVE  FlowInv'
  <1> DEFINE call == [flow |-> f, code |-> g, user |-> u, container |-> k]
  <1>1. call \in Call /\ call # None
    BY NoneAssumption
  <1>2. arg' = [arg EXCEPT ![c] = call] /\ flow[f] # None /\ pc[c] = "new"
    BY DEF VerifyState
  <1>3. /\ pc' \in [Callbacks -> Steps] /\ reply' \in [Callbacks -> Answers \cup {None}]
        /\ pc'[c] = "verified" /\ \A d \in Callbacks \ {c} : pc'[d] = pc[d]
    BY GotoType DEF VerifyState, FlowInv, Steps
  <1> HIDE DEF call
  <1>4. TypeOK'
    <2>1. arg' \in [Callbacks -> Call \cup {None}]
      BY <1>1, <1>2 DEF FlowInv, TypeOK
    <2>2. UNCHANGED <<clock, active, flow, pending, code, audit, connected, accepted, restarted>>
      BY DEF VerifyState
    <2> QED
      BY <1>3, <2>1, <2>2 DEF FlowInv, TypeOK
  <1>5. c \notin accepted /\ c \notin connected
    BY <1>2 DEF FlowInv, AcceptedTook, ConnectsStarter
  <1>6. \A d \in Callbacks \ {c} : arg'[d] = arg[d]
    BY <1>2 DEF FlowInv, TypeOK
  <1>7. PendingStarted'
    BY DEF FlowInv, PendingStarted, VerifyState
  <1>8. CarriesStarted'
    BY <1>1, <1>2, <1>3, <1>6 DEF FlowInv, CarriesStarted, VerifyState, Running, TypeOK, call
  <1>9. AcceptedTook'
    BY <1>3, <1>5, <1>6 DEF FlowInv, AcceptedTook, VerifyState, TypeOK
  <1>10. Progress'
    BY <1>3, <1>6 DEF FlowInv, Progress, VerifyState
  <1>11. SingleUse' /\ ConnectsStarter'
    BY <1>5, <1>6 DEF FlowInv, SingleUse, ConnectsStarter, VerifyState, TypeOK
  <1>12. CodesTaken'
    <2>1. ~Exchanged(c)' /\ \A d \in Callbacks \ {c} : Exchanged(d)' <=> Exchanged(d)
      BY <1>3, <1>5 DEF Exchanged, VerifyState
    <2> QED
      BY <1>6, <2>1 DEF FlowInv, CodesTaken, VerifyState
  <1> QED
    BY <1>4, <1>7, <1>8, <1>9, <1>10, <1>11, <1>12 DEF FlowInv

LEMMA ConsumeKeepsInv ==
    ASSUME FlowInv, NEW c \in Callbacks, ConsumeState(c)
    PROVE  FlowInv'
  <1> DEFINE f == arg[c].flow
             k == arg[c].container
  <1>1. pc[c] = "verified" /\ arg[c] # None /\ arg[c] \in Call /\ flow[f] # None
    BY DEF FlowInv, ConsumeState, CarriesStarted, Running, TypeOK
  <1>2. pending' = [pending EXCEPT ![k] = @ \ {f}]
    BY DEF ConsumeState
  <1>3. \A j \in Containers : pending'[j] \subseteq pending[j] /\ pending'[j] \in SUBSET Flows
    BY <1>1, <1>2 DEF FlowInv, TypeOK
  <1>4. UNCHANGED <<clock, active, flow, code, arg, connected, restarted>>
    BY DEF ConsumeState
  <1>5. pending' \in [Containers -> SUBSET Flows]
    BY <1>1, <1>2 DEF FlowInv, TypeOK
  <1>6. PendingStarted'
    BY <1>3, <1>4 DEF FlowInv, PendingStarted
  <1>7. CASE \E status \in Denials : Deny(c, status) /\ UNCHANGED accepted
    <2>1. /\ pc' \in [Callbacks -> Steps] /\ reply' \in [Callbacks -> Answers \cup {None}]
          /\ pc'[c] = "done" /\ \A d \in Callbacks \ {c} : pc'[d] = pc[d]
          /\ audit' \subseteq Events
      BY <1>7, DenyType DEF FlowInv
    <2>2. TypeOK'
      BY <1>4, <1>5, <1>7, <2>1 DEF FlowInv, TypeOK
    <2>3. CarriesStarted' /\ Progress'
      BY <1>4, <1>7, <2>1 DEF FlowInv, CarriesStarted, Progress, Running
    <2>6. CodesTaken'
      BY <1>4, <2>1 DEF FlowInv, CodesTaken, Exchanged
    <2>4. AcceptedTook'
      BY <1>3, <1>4, <1>7, <2>1 DEF FlowInv, AcceptedTook, TypeOK
    <2>5. SingleUse' /\ ConnectsStarter'
      BY <1>4, <1>7 DEF FlowInv, SingleUse, ConnectsStarter
    <2> QED
      BY <1>6, <2>2, <2>3, <2>4, <2>5, <2>6 DEF FlowInv
  <1>8. CASE /\ InRepository(c) /\ Matches(c)
             /\ Goto(c, "exchanging")
             /\ accepted' = accepted \cup {c}
             /\ UNCHANGED audit
    <2>1. /\ pc' \in [Callbacks -> Steps] /\ reply' \in [Callbacks -> Answers \cup {None}]
          /\ pc'[c] = "exchanging" /\ \A d \in Callbacks \ {c} : pc'[d] = pc[d]
      BY <1>8, GotoType DEF FlowInv, Steps
    <2>2. TypeOK'
      BY <1>4, <1>5, <1>8, <2>1 DEF FlowInv, TypeOK
    <2>3. f \in pending[k] /\ flow[f].user = arg[c].user
      BY <1>8 DEF InRepository, Matches
    <2>4. \A j \in Containers : f \notin pending'[j]
      <3>1. TAKE j \in Containers
      <3>2. CASE j = k
        BY <1>1, <1>2, <3>2 DEF FlowInv, TypeOK
      <3>3. CASE j # k
        BY <1>1, <1>2, <2>3, <3>3 DEF FlowInv, TypeOK, PendingStarted
      <3> QED
        BY <3>2, <3>3
    <2>5. \A d \in accepted : arg[d].flow # f
      BY <1>1, <2>3 DEF FlowInv, AcceptedTook
    <2>6. CarriesStarted' /\ Progress'
      BY <1>1, <1>4, <1>8, <2>1 DEF FlowInv, CarriesStarted, Progress, Running
    <2>7. AcceptedTook'
      BY <1>1, <1>3, <1>4, <1>8, <2>1, <2>3, <2>4 DEF FlowInv, AcceptedTook, TypeOK
    <2>8. SingleUse'
      BY <1>4, <1>8, <2>5 DEF FlowInv, SingleUse
    <2>9. ConnectsStarter'
      BY <1>4, <1>8 DEF FlowInv, ConnectsStarter
    <2>10. CodesTaken'
      BY <1>4, <2>1 DEF FlowInv, CodesTaken, Exchanged
    <2> QED
      BY <1>6, <2>2, <2>6, <2>7, <2>8, <2>9, <2>10 DEF FlowInv
  <1> QED
    BY <1>7, <1>8 DEF ConsumeState, Denials

LEMMA ConnectKeepsInv ==
    ASSUME FlowInv, NEW c \in Callbacks, ConnectGoogle(c)
    PROVE  FlowInv'
  <1>1. pc[c] = "connecting" /\ UNCHANGED <<clock, active, flow, pending, code, arg, accepted, restarted>>
    BY DEF ConnectGoogle
  <1>2. CASE Answer(c, "forbidden") /\ UNCHANGED <<audit, connected>>
    <2>1. "forbidden" \in Answers
      BY DEF Answers
    <2> QED
      BY <1>1, <1>2, <2>1, AnswerType, EndKeepsInv DEF FlowInv, TypeOK
  <1>3. CASE Deny(c, "exchange_failed") /\ UNCHANGED connected
    <2>1. "exchange_failed" \in Denials
      BY DEF Denials
    <2> QED
      BY <1>1, <1>3, <2>1, DenyType, EndKeepsInv DEF FlowInv, TypeOK
  <1>4. CASE connected' = connected \cup {c} /\ Goto(c, "reporting") /\ UNCHANGED audit
    <2>1. /\ pc' \in [Callbacks -> Steps] /\ reply' \in [Callbacks -> Answers \cup {None}]
          /\ pc'[c] = "reporting" /\ \A d \in Callbacks \ {c} : pc'[d] = pc[d]
      BY <1>4, GotoType DEF FlowInv, Steps
    <2>2. TypeOK'
      BY <1>1, <1>4, <2>1 DEF FlowInv, TypeOK
    <2>3. c \in accepted
      BY <1>1 DEF FlowInv, Progress
    <2>9. CodesTaken'
      <3>1. \A d \in Callbacks : Exchanged(d)' <=> Exchanged(d)
        BY <1>1, <1>4, <2>1 DEF Exchanged
      <3> QED
        BY <1>1, <3>1 DEF FlowInv, CodesTaken
    <2>4. PendingStarted' /\ SingleUse'
      BY <1>1 DEF FlowInv, PendingStarted, SingleUse
    <2>5. CarriesStarted'
      BY <1>1, <2>1 DEF FlowInv, CarriesStarted, Running
    <2>6. AcceptedTook'
      BY <1>1, <2>1 DEF FlowInv, AcceptedTook, TypeOK
    <2>7. Progress'
      BY <1>1, <2>1, <2>3 DEF FlowInv, Progress
    <2>8. ConnectsStarter'
      <3>1. \A d \in connected' : d \in Callbacks /\ Exchanged(d)' /\ d \in accepted'
        BY <1>1, <1>4, <2>2, <2>3 DEF FlowInv, ConnectsStarter, TypeOK, Exchanged
      <3> QED
        BY <1>1, <2>6, <2>9, <3>1 DEF ConnectsStarter, AcceptedTook, CodesTaken
    <2> QED
      BY <2>2, <2>4, <2>5, <2>6, <2>7, <2>8, <2>9 DEF FlowInv
  <1> QED
    BY <1>2, <1>3, <1>4 DEF ConnectGoogle

LEMMA RestartKeepsInv ==
    ASSUME FlowInv, NEW k \in Containers, Restart(k)
    PROVE  FlowInv'
  <1>1. /\ pending' = [pending EXCEPT ![k] = {}]
        /\ restarted' = restarted \cup {k}
        /\ UNCHANGED <<clock, active, flow, code, arg, audit, connected, accepted>>
    BY DEF Restart
  <1>2. "failed" \in Answers /\ "done" \in Steps
    BY DEF Answers, Steps
  <1>3. /\ pc' \in [Callbacks -> Steps] /\ reply' \in [Callbacks -> Answers \cup {None}]
        /\ \A c \in Callbacks : pc'[c] \in {pc[c], "done"}
    BY <1>2 DEF FlowInv, TypeOK, Restart
  <1>4. pending' \in [Containers -> SUBSET Flows] /\ \A j \in Containers : pending'[j] \subseteq pending[j]
    BY <1>1 DEF FlowInv, TypeOK
  <1>5. TypeOK'
    BY <1>1, <1>3, <1>4 DEF FlowInv, TypeOK
  <1>6. PendingStarted' /\ SingleUse' /\ ConnectsStarter'
    BY <1>1, <1>4 DEF FlowInv, PendingStarted, SingleUse, ConnectsStarter
  <1>7. CarriesStarted' /\ Progress'
    BY <1>1, <1>3 DEF FlowInv, CarriesStarted, Progress, Running
  <1>8. AcceptedTook'
    BY <1>1, <1>3, <1>4 DEF FlowInv, AcceptedTook, TypeOK
  <1>9. CodesTaken'
    <2>1. \A c \in Callbacks : Exchanged(c)' => Exchanged(c)
      BY <1>1, <1>3 DEF Exchanged
    <2> QED
      BY <1>1, <2>1 DEF FlowInv, CodesTaken
  <1> QED
    BY <1>5, <1>6, <1>7, <1>8, <1>9 DEF FlowInv

LEMMA FlowInvNext == FlowInv /\ [Next]_vars => FlowInv'
  <1> SUFFICES ASSUME FlowInv, [Next]_vars PROVE FlowInv'
    OBVIOUS
  <1>1. ASSUME NEW f \in Flows, Start(f) PROVE FlowInv'
    BY <1>1, StartKeepsInv DEF Start
  <1>2. ASSUME NEW f \in Flows, UserConsents(f) PROVE FlowInv'
    <2>1. /\ code' = [code EXCEPT ![f] = "issued"] /\ code[f] = "none"
          /\ UNCHANGED <<clock, active, flow, pending, callbacks, audit, connected, accepted, restarted>>
      BY <1>2 DEF UserConsents
    <2>2. \A g \in Flows : code[g] = "spent" => code'[g] = "spent"
      BY <2>1 DEF FlowInv, TypeOK
    <2>3. TypeOK'
      BY <2>1 DEF FlowInv, TypeOK, callbacks
    <2>4. PendingStarted' /\ CarriesStarted' /\ AcceptedTook' /\ SingleUse'
      BY <2>1 DEF FlowInv, PendingStarted, CarriesStarted, AcceptedTook, SingleUse, Running, callbacks
    <2>5. \A c \in Callbacks : arg[c] # None => arg[c].code \in Flows
      BY DEF FlowInv, TypeOK
    <2>6. Progress' /\ CodesTaken'
      BY <2>1, <2>2, <2>5 DEF FlowInv, Progress, CodesTaken, Exchanged, callbacks
    <2>7. ConnectsStarter'
      BY <2>1, <2>2, <2>5 DEF FlowInv, ConnectsStarter, AcceptedTook, TypeOK, callbacks
    <2> QED
      BY <2>3, <2>4, <2>6, <2>7 DEF FlowInv
  <1>3. ASSUME NEW c \in Callbacks, CallbackWithError(c) \/ RejectSignature(c) PROVE FlowInv'
    <2>1. "provider_error" \in Answers /\ "state_invalid" \in Answers
      BY DEF Answers
    <2> QED
      BY <1>3, <2>1, AnswerType, EndKeepsInv
      DEF FlowInv, TypeOK, CallbackWithError, RejectSignature
  <1>4. ASSUME NEW c \in Callbacks, NEW f \in Flows, NEW g \in Flows, NEW u \in Users,
               NEW k \in Containers, VerifyState(c, f, g, u, k)
        PROVE  FlowInv'
    BY <1>4, VerifyKeepsInv
  <1>5. ASSUME NEW c \in Callbacks, ConsumeState(c) PROVE FlowInv'
    BY <1>5, ConsumeKeepsInv
  <1>6. ASSUME NEW c \in Callbacks, ExchangeCode(c) PROVE FlowInv'
    <2> DEFINE g == arg[c].code
    <2>1. /\ pc[c] = "exchanging" /\ code[g] = "issued" /\ code' = [code EXCEPT ![g] = "spent"]
          /\ UNCHANGED <<clock, active, flow, pending, arg, audit, connected, accepted, restarted>>
      BY <1>6 DEF ExchangeCode
    <2>2. g \in Flows /\ c \in accepted /\ arg[c] # None
      BY <2>1 DEF FlowInv, TypeOK, CarriesStarted, Running, Progress
    <2>3. /\ pc' \in [Callbacks -> Steps] /\ reply' \in [Callbacks -> Answers \cup {None}]
          /\ pc'[c] = "connecting" /\ \A d \in Callbacks \ {c} : pc'[d] = pc[d]
      BY <1>6, GotoType DEF ExchangeCode, FlowInv, Steps
    <2>4. code' \in [Flows -> {"none", "issued", "spent"}] /\ code'[g] = "spent"
      BY <2>1, <2>2 DEF FlowInv, TypeOK
    <2>5. \A h \in Flows : code[h] = "spent" => code'[h] = "spent"
      BY <2>1 DEF FlowInv, TypeOK
    <2>6. TypeOK'
      BY <2>1, <2>3, <2>4 DEF FlowInv, TypeOK
    <2>7. PendingStarted' /\ SingleUse'
      BY <2>1 DEF FlowInv, PendingStarted, SingleUse
    <2>8. CarriesStarted'
      BY <2>1, <2>3 DEF FlowInv, CarriesStarted, Running
    <2>9. AcceptedTook'
      BY <2>1, <2>3 DEF FlowInv, AcceptedTook, TypeOK
    <2>10. Progress'
      BY <2>1, <2>2, <2>3 DEF FlowInv, Progress
    <2>11. CodesTaken'
      <3>1. \A d \in Callbacks \ {c} : Exchanged(d)' <=> Exchanged(d)
        BY <2>1, <2>3 DEF Exchanged
      <3>2. \A d \in Callbacks : arg[d] # None => arg[d].code \in Flows
        BY DEF FlowInv, TypeOK
      <3>3. \A d \in Callbacks : Exchanged(d) => arg[d].code # g
        BY <2>1 DEF FlowInv, CodesTaken
      <3> QED
        BY <2>1, <2>2, <2>4, <2>5, <3>1, <3>2, <3>3 DEF FlowInv, CodesTaken
    <2>12. ConnectsStarter'
      <3>1. \A d \in connected' : d \in Callbacks /\ Exchanged(d)'
        BY <2>1 DEF FlowInv, TypeOK, Exchanged
      <3> QED
        BY <2>1, <2>11, <3>1 DEF FlowInv, ConnectsStarter, CodesTaken
    <2> QED
      BY <2>6, <2>7, <2>8, <2>9, <2>10, <2>11, <2>12 DEF FlowInv
  <1>7. ASSUME NEW c \in Callbacks, ExchangeFails(c) PROVE FlowInv'
    <2>1. "exchange_failed" \in Denials
      BY DEF Denials
    <2>2. /\ code' \in [Flows -> {"none", "issued", "spent"}]
          /\ \A g \in Flows : code[g] = "spent" => code'[g] = "spent"
      BY <1>7 DEF ExchangeFails, FlowInv, TypeOK
    <2> QED
      BY <1>7, <2>1, <2>2, DenyType, EndKeepsInv DEF ExchangeFails, FlowInv
  <1>8. ASSUME NEW c \in Callbacks, ConnectGoogle(c) PROVE FlowInv'
    BY <1>8, ConnectKeepsInv
  <1>9. ASSUME NEW c \in Callbacks, ReportConnected(c) PROVE FlowInv'
    <2>1. "connected" \in Answers
      BY DEF Answers
    <2> QED
      BY <1>9, <2>1, AnswerType, EmitType, EndKeepsInv DEF ReportConnected, FlowInv, TypeOK
  <1>10. ASSUME NEW k \in Containers, Restart(k) PROVE FlowInv'
    BY <1>10, RestartKeepsInv
  <1>11. ASSUME NEW u \in Users, Deactivate(u) PROVE FlowInv'
    BY <1>11 DEF Deactivate, FlowInv, TypeOK, PendingStarted, CarriesStarted, AcceptedTook,
       Progress, CodesTaken, Exchanged, SingleUse, ConnectsStarter, Running, callbacks
  <1>12. ASSUME Tick PROVE FlowInv'
    BY <1>12 DEF Tick, FlowInv, TypeOK, PendingStarted, CarriesStarted, AcceptedTook,
       Progress, CodesTaken, Exchanged, SingleUse, ConnectsStarter, Running, callbacks
  <1>13. CASE UNCHANGED vars
    BY <1>13 DEF vars, FlowInv, TypeOK, PendingStarted, CarriesStarted, AcceptedTook,
       Progress, CodesTaken, Exchanged, SingleUse, ConnectsStarter, Running
  <1>14. ASSUME NEW c \in Callbacks, ConnectRaises(c) PROVE FlowInv'
    <2>1. "failed" \in Answers
      BY DEF Answers
    <2> QED
      BY <1>14, <2>1, AnswerType, EndKeepsInv DEF ConnectRaises, FlowInv, TypeOK
  <1> QED
    BY <1>1, <1>2, <1>3, <1>4, <1>5, <1>6, <1>7, <1>8, <1>9, <1>10, <1>11, <1>12, <1>13,
       <1>14
    DEF Next, Arrive, Continue

THEOREM FlowInvariant == Spec => []FlowInv
  BY FlowInvInit, FlowInvNext, PTL DEF Spec

\* Every variable of the flow keeps its type: the redirect target of a state
\* that was handed out is one of the allowed origins.
THEOREM FlowTypeCorrect == Spec => []TypeOK
  BY FlowInvariant, PTL DEF FlowInv

\* consume and the checks after it let no two callbacks through with one state,
\* however many containers, restarts and concurrent callbacks there are.
THEOREM StatesAreSingleUse == Spec => []SingleUse
  BY FlowInvariant, PTL DEF FlowInv

\* Whatever code a callback brings with its state, complete_google_oauth
\* connects only for the user who started the flow of the state, after the
\* checks of the state, and never twice by one code.
THEOREM OnlyTheStarterConnects == Spec => []ConnectsStarter
  BY FlowInvariant, PTL DEF FlowInv

-----------------------------------------------------------------------------
(* The audit trail.                                                        *)

Outcomes == {"connected"} \cup Denials

\* A callback is audited once, at its end; it connects just before.
AuditedAtEnd(c) ==
    /\ \A status \in Outcomes : Audited(c, status) => pc[c] = "done"
    /\ c \in connected => pc[c] \in {"reporting", "done"}
    /\ pc[c] = "reporting" => c \in connected

TruthfulOf(c) ==
    /\ Audited(c, "connected") => c \in connected
    /\ \A status \in Denials : Audited(c, status) => c \notin connected
    /\ reply[c] = "connected" => Audited(c, "connected")

AuditInv == \A c \in Callbacks : AuditedAtEnd(c) /\ TruthfulOf(c)

USE DEF Outcomes, Denials

LEMMA AuditInvInit == Init => AuditInv
  BY NoneAssumption DEF Init, AuditInv, AuditedAtEnd, TruthfulOf, Audited, Answers

\* A step that leaves a callback and its events alone keeps what they say.
LEMMA BystanderKeepsAudit ==
    ASSUME NEW c, AuditedAtEnd(c), TruthfulOf(c),
           UNCHANGED <<pc[c], reply[c]>>,
           c \in connected <=> c \in connected',
           \A status \in Outcomes : Audited(c, status) <=> Audited(c, status)'
    PROVE  AuditedAtEnd(c)' /\ TruthfulOf(c)'
  BY DEF AuditedAtEnd, TruthfulOf

LEMMA DenyKeepsAudit ==
    ASSUME TypeOK, AuditInv, NEW c \in Callbacks, pc[c] \notin {"reporting", "done"},
           NEW status \in Denials, Deny(c, status), UNCHANGED connected
    PROVE  AuditInv'
  <1>1. /\ pc' = [pc EXCEPT ![c] = "done"] /\ reply' = [reply EXCEPT ![c] = status]
        /\ audit' = audit \cup {[of |-> c, status |-> status]}
    BY DEF Deny, Answer, Emit
  <1>2. c \notin connected /\ ~Audited(c, "connected") /\ pc'[c] = "done" /\ reply'[c] = status
    BY <1>1 DEF AuditInv, AuditedAtEnd, TypeOK
  <1>3. AuditedAtEnd(c)' /\ TruthfulOf(c)'
    BY <1>1, <1>2 DEF AuditedAtEnd, TruthfulOf, Audited
  <1>4. ASSUME NEW d \in Callbacks \ {c} PROVE AuditedAtEnd(d)' /\ TruthfulOf(d)'
    <2>1. \A other \in Outcomes : Audited(d, other) <=> Audited(d, other)'
      BY <1>1 DEF Audited
    <2>2. UNCHANGED <<pc[d], reply[d]>>
      BY <1>1 DEF TypeOK
    <2> QED
      BY <2>1, <2>2, BystanderKeepsAudit DEF AuditInv
  <1> QED
    BY <1>3, <1>4 DEF AuditInv

\* A step that emits nothing about callbacks and connects none: callbacks move
\* on, or end with an answer that is not "connected".
LEMMA SilentKeepsAudit ==
    ASSUME AuditInv, UNCHANGED connected,
           \A c \in Callbacks, status \in Outcomes : Audited(c, status) <=> Audited(c, status)',
           \A c \in Callbacks :
              \/ UNCHANGED <<pc[c], reply[c]>>
              \/ pc[c] # "done" /\ pc'[c] # "reporting" /\ pc[c] # "reporting" /\ UNCHANGED reply[c]
              \/ pc'[c] = "done" /\ reply'[c] # "connected"
    PROVE  AuditInv'
  BY DEF AuditInv, AuditedAtEnd, TruthfulOf

LEMMA AuditInvNext == TypeOK /\ AuditInv /\ [Next]_vars => AuditInv'
  <1> SUFFICES ASSUME TypeOK, AuditInv, [Next]_vars PROVE AuditInv'
    OBVIOUS
  <1>1. ASSUME NEW f \in Flows, Start(f) PROVE AuditInv'
    <2>1. audit' = audit \cup {[of |-> f, status |-> "started"]} /\ UNCHANGED <<pc, reply, connected>>
      BY <1>1 DEF Start, StartGoogleOAuth, Emit, callbacks
    <2>2. \A c \in Callbacks, status \in Outcomes : Audited(c, status) <=> Audited(c, status)'
      BY <2>1 DEF Audited
    <2> QED
      BY <2>1, <2>2, SilentKeepsAudit
  <1>2. ASSUME UNCHANGED <<pc, reply, audit, connected>> PROVE AuditInv'
    BY <1>2, SilentKeepsAudit DEF Audited
  <1>3. ASSUME NEW c \in Callbacks, CallbackWithError(c) \/ RejectSignature(c) PROVE AuditInv'
    <2>1. pc' = [pc EXCEPT ![c] = "done"] /\ reply'[c] \in {"provider_error", "state_invalid"}
          /\ \A d \in Callbacks \ {c} : reply'[d] = reply[d]
      BY <1>3 DEF CallbackWithError, RejectSignature, Answer, TypeOK
    <2>2. UNCHANGED <<audit, connected>>
      BY <1>3 DEF CallbackWithError, RejectSignature
    <2> QED
      BY <2>1, <2>2, SilentKeepsAudit DEF Audited, TypeOK
  <1>4. ASSUME NEW c \in Callbacks, NEW step \in {"verified", "exchanging", "connecting"},
               pc[c] \notin {"done", "reporting"}, Goto(c, step), UNCHANGED <<audit, connected>>
        PROVE  AuditInv'
    <2>1. pc'[c] = step /\ \A d \in Callbacks \ {c} : pc'[d] = pc[d]
      BY <1>4 DEF Goto, TypeOK
    <2>2. UNCHANGED <<reply, audit, connected>>
      BY <1>4 DEF Goto
    <2> QED
      BY <1>4, <2>1, <2>2, SilentKeepsAudit DEF Audited
  <1>5. ASSUME NEW c \in Callbacks, NEW f \in Flows, NEW g \in Flows, NEW u \in Users,
               NEW k \in Containers, VerifyState(c, f, g, u, k)
        PROVE  AuditInv'
    BY <1>4, <1>5 DEF VerifyState
  <1>6. ASSUME NEW c \in Callbacks, ConsumeState(c) PROVE AuditInv'
    <2>1. pc[c] = "verified" /\ UNCHANGED connected
      BY <1>6 DEF ConsumeState
    <2>2. \/ \E status \in Denials : Deny(c, status)
          \/ Goto(c, "exchanging") /\ UNCHANGED audit
      BY <1>6 DEF ConsumeState
    <2> QED
      BY <1>4, <2>1, <2>2, DenyKeepsAudit
  <1>7. ASSUME NEW c \in Callbacks, ExchangeCode(c) PROVE AuditInv'
    BY <1>4, <1>7 DEF ExchangeCode
  <1>8. ASSUME NEW c \in Callbacks, ExchangeFails(c) PROVE AuditInv'
    BY <1>8, DenyKeepsAudit DEF ExchangeFails
  <1>9. ASSUME NEW c \in Callbacks, ConnectGoogle(c) PROVE AuditInv'
    <2>1. pc[c] = "connecting"
      BY <1>9 DEF ConnectGoogle
    <2>2. CASE Answer(c, "forbidden") /\ UNCHANGED <<audit, connected>>
      <3>1. pc'[c] = "done" /\ reply'[c] = "forbidden"
            /\ \A d \in Callbacks \ {c} : UNCHANGED <<pc[d], reply[d]>>
        BY <2>2 DEF Answer, TypeOK
      <3> QED
        BY <2>2, <3>1, SilentKeepsAudit DEF Audited
    <2>3. CASE Deny(c, "exchange_failed") /\ UNCHANGED connected
      BY <2>1, <2>3, DenyKeepsAudit
    <2>4. CASE connected' = connected \cup {c} /\ Goto(c, "reporting") /\ UNCHANGED audit
      <3>1. pc'[c] = "reporting" /\ reply' = reply /\ \A d \in Callbacks \ {c} : pc'[d] = pc[d]
        BY <2>4 DEF Goto, TypeOK
      <3>2. \A status \in Outcomes : ~Audited(c, status)
        BY <2>1 DEF AuditInv, AuditedAtEnd
      <3>3. AuditedAtEnd(c)' /\ TruthfulOf(c)'
        BY <2>4, <3>1, <3>2 DEF AuditInv, AuditedAtEnd, TruthfulOf, Audited
      <3>4. ASSUME NEW d \in Callbacks \ {c} PROVE AuditedAtEnd(d)' /\ TruthfulOf(d)'
        BY <2>4, <3>1, BystanderKeepsAudit DEF AuditInv, Audited
      <3> QED
        BY <3>3, <3>4 DEF AuditInv
    <2> QED
      BY <1>9, <2>2, <2>3, <2>4 DEF ConnectGoogle
  <1>10. ASSUME NEW c \in Callbacks, ReportConnected(c) PROVE AuditInv'
    <2>1. pc[c] = "reporting" /\ audit' = audit \cup {[of |-> c, status |-> "connected"]}
          /\ UNCHANGED connected
      BY <1>10 DEF ReportConnected, Emit
    <2>2. pc'[c] = "done" /\ \A d \in Callbacks \ {c} : UNCHANGED <<pc[d], reply[d]>>
      BY <1>10 DEF ReportConnected, Answer, TypeOK
    <2>3. c \in connected /\ \A status \in Denials : ~Audited(c, status)
      BY <2>1 DEF AuditInv, AuditedAtEnd
    <2>4. AuditedAtEnd(c)' /\ TruthfulOf(c)'
      BY <2>1, <2>2, <2>3 DEF AuditedAtEnd, TruthfulOf, Audited
    <2>5. ASSUME NEW d \in Callbacks \ {c} PROVE AuditedAtEnd(d)' /\ TruthfulOf(d)'
      <3>1. \A status \in Outcomes : Audited(d, status) <=> Audited(d, status)'
        BY <2>1 DEF Audited
      <3> QED
        BY <2>1, <2>2, <3>1, BystanderKeepsAudit DEF AuditInv
    <2> QED
      BY <2>4, <2>5 DEF AuditInv
  <1>11. ASSUME NEW k \in Containers, Restart(k) PROVE AuditInv'
    <2>1. \A c \in Callbacks :
             \/ UNCHANGED <<pc[c], reply[c]>>
             \/ pc'[c] = "done" /\ reply'[c] = "failed"
      BY <1>11 DEF Restart
    <2> QED
      BY <1>11, <2>1, SilentKeepsAudit DEF Restart, Audited
  <1>12. ASSUME NEW f \in Flows, UserConsents(f) PROVE AuditInv'
    BY <1>2, <1>12 DEF UserConsents, callbacks
  <1>13. ASSUME NEW u \in Users, Deactivate(u) PROVE AuditInv'
    BY <1>2, <1>13 DEF Deactivate, callbacks
  <1>14. CASE Tick \/ UNCHANGED vars
    BY <1>2, <1>14 DEF Tick, vars, callbacks
  <1>15. ASSUME NEW c \in Callbacks, ConnectRaises(c) PROVE AuditInv'
    <2>1. /\ pc[c] = "connecting" /\ UNCHANGED audit
          /\ connected' \in {connected, connected \cup {c}}
      BY <1>15 DEF ConnectRaises
    <2>2. /\ pc'[c] = "done" /\ reply'[c] = "failed"
          /\ \A d \in Callbacks \ {c} : UNCHANGED <<pc[d], reply[d]>>
      BY <1>15 DEF ConnectRaises, Answer, TypeOK
    <2>3. \A status \in Outcomes : ~Audited(c, status)
      BY <2>1 DEF AuditInv, AuditedAtEnd
    <2>4. AuditedAtEnd(c)' /\ TruthfulOf(c)'
      BY <2>1, <2>2, <2>3 DEF AuditedAtEnd, TruthfulOf, Audited
    <2>5. ASSUME NEW d \in Callbacks \ {c} PROVE AuditedAtEnd(d)' /\ TruthfulOf(d)'
      BY <2>1, <2>2, BystanderKeepsAudit DEF AuditInv, Audited
    <2> QED
      BY <2>4, <2>5 DEF AuditInv
  <1> QED
    BY <1>1, <1>3, <1>5, <1>6, <1>7, <1>8, <1>9, <1>10, <1>11, <1>12, <1>13, <1>14,
       <1>15
    DEF Next, Arrive, Continue

\* The audit events of complete_google_oauth never contradict the token table,
\* a crash between the connection and its event included.
THEOREM AuditTellsTheTruth == Spec => []AuditTruthful
  <1>1. Init => AuditInv
    BY AuditInvInit
  <1>2. TypeOK /\ AuditInv /\ [Next]_vars => AuditInv'
    BY AuditInvNext
  <1>3. FlowInv => TypeOK
    BY DEF FlowInv
  <1>4. AuditInv => AuditTruthful
    BY DEF AuditInv, TruthfulOf, AuditTruthful
  <1> QED
    BY <1>1, <1>2, <1>3, <1>4, FlowInvariant, PTL DEF Spec

-----------------------------------------------------------------------------
(* The flow implements one-time states.                                    *)

LEMMA InitImplements == Init => OneTime!Init
  BY DEF Init, OneTime!Init

\* The states that can be redeemed, and the redemptions.
Open == UNION {pending[k] : k \in Containers}
Redemptions == {[attempt |-> c, state |-> arg[c].flow, by |-> arg[c].user] : c \in accepted}
Owner == [f \in Flows |-> IF flow[f] = None THEN None ELSE flow[f].user]
Expiry == [f \in Flows |-> IF flow[f] = None THEN 0 ELSE flow[f].expiresAt]

\* A step that starts no flow and accepts no callback can only lose states.
LEMMA LoseStep ==
    ASSUME \A k \in Containers : pending'[k] \subseteq pending[k],
           UNCHANGED <<clock, flow, accepted>>,
           \A c \in accepted : arg'[c] = arg[c]
    PROVE  OneTime!Lose
  <1>1. Open' \subseteq Open
    BY DEF Open
  <1>2. Redemptions' = Redemptions
    BY DEF Redemptions
  <1>3. Owner' = Owner /\ Expiry' = Expiry
    BY DEF Owner, Expiry
  <1> QED
    BY <1>1, <1>2, <1>3 DEF OneTime!Lose, Open, Redemptions, Owner, Expiry

LEMMA StartHandsOut ==
    ASSUME FlowInv, NEW f \in Flows, NEW u \in Users, NEW target \in Targets,
           NEW k \in Containers, StartGoogleOAuth(f, u, target, k)
    PROVE  OneTime!HandOut(f, u)
  <1> DEFINE payload == [user |-> u, target |-> target, container |-> k, expiresAt |-> clock + Ttl]
  <1>1. payload \in Payload /\ payload # None
    BY FlowAssumption, NoneAssumption DEF FlowInv, TypeOK, StartGoogleOAuth
  <1>2. /\ flow[f] = None /\ flow' = [flow EXCEPT ![f] = payload]
        /\ pending' = [pending EXCEPT ![k] = @ \cup {f}]
        /\ UNCHANGED <<clock, arg, accepted>>
    BY DEF StartGoogleOAuth, callbacks
  <1>3. payload.user = u /\ payload.expiresAt = clock + Ttl
    OBVIOUS
  <1> HIDE DEF payload
  <1>4. flow \in [Flows -> Payload \cup {None}] /\ pending \in [Containers -> SUBSET Flows]
    BY DEF FlowInv, TypeOK
  <1>5. Owner[f] = None /\ Owner' = [Owner EXCEPT ![f] = u]
    BY <1>1, <1>2, <1>3, <1>4 DEF Owner
  <1>6. Expiry' = [Expiry EXCEPT ![f] = clock + Ttl]
    BY <1>1, <1>2, <1>3, <1>4 DEF Expiry
  <1>7. Open' = Open \cup {f}
    BY <1>2, <1>4 DEF Open
  <1>8. Redemptions' = Redemptions
    BY <1>2 DEF Redemptions
  <1> QED
    BY <1>2, <1>5, <1>6, <1>7, <1>8 DEF OneTime!HandOut, Open, Redemptions, Owner, Expiry

LEMMA RedeemIsNext ==
    ASSUME NEW c \in Callbacks, NEW f \in Flows, OneTime!Redeem(c, f)
    PROVE  OneTime!Next
  BY DEF OneTime!Next

LEMMA ConsumeImplements ==
    ASSUME FlowInv, NEW c \in Callbacks, ConsumeState(c)
    PROVE  OneTime!Next
  <1>0. arg[c] \in Call /\ flow[arg[c].flow] # None
    BY DEF FlowInv, ConsumeState, CarriesStarted, Running, TypeOK
  <1> PICK f \in Flows, k \in Containers : f = arg[c].flow /\ k = arg[c].container
    BY <1>0
  <1>1. pc[c] = "verified" /\ arg[c] \in Call /\ flow[f] # None /\ flow[f] \in Payload
    BY <1>0 DEF FlowInv, ConsumeState, TypeOK
  <1>2. /\ pending' = [pending EXCEPT ![k] = @ \ {f}]
        /\ UNCHANGED <<clock, flow, arg>>
    BY DEF ConsumeState
  <1>3. f \in Flows /\ k \in Containers /\ pending \in [Containers -> SUBSET Flows]
    BY <1>1 DEF FlowInv, TypeOK
  <1>4. CASE UNCHANGED accepted
    BY <1>2, <1>3, <1>4, LoseStep DEF OneTime!Next
  <1>5. CASE InRepository(c) /\ ~Expired(c) /\ Matches(c) /\ accepted' = accepted \cup {c}
    <2>1. f \in pending[k] /\ flow[f].user = arg[c].user /\ clock < flow[f].expiresAt
      BY <1>1, <1>5 DEF InRepository, Expired, Matches, FlowInv, TypeOK
    <2>2. Open' = Open \ {f}
      BY <1>2, <1>3, <2>1 DEF Open, FlowInv, PendingStarted
    <2>3. f \in Open
      BY <1>3, <2>1 DEF Open
    <2>4. Owner' = Owner /\ Owner[f] = arg[c].user
      BY <1>1, <1>2, <1>3, <2>1 DEF Owner
    <2>5. Expiry' = Expiry /\ clock < Expiry[f]
      BY <1>1, <1>2, <1>3, <2>1 DEF Expiry
    <2>6. Redemptions' = Redemptions \cup {[attempt |-> c, state |-> f, by |-> Owner[f]]}
      BY <1>2, <1>5, <2>4 DEF Redemptions
    <2>7. OneTime!Redeem(c, f)
      BY <1>2, <2>2, <2>3, <2>4, <2>5, <2>6 DEF OneTime!Redeem, Open, Redemptions, Owner, Expiry
    <2> QED
      BY <1>3, <2>7, RedeemIsNext
  <1> QED
    BY <1>4, <1>5 DEF ConsumeState

LEMMA NextImplements == FlowInv /\ [Next]_vars => [OneTime!Next]_(OneTime!statuses)
  <1> SUFFICES ASSUME FlowInv, [Next]_vars
               PROVE  OneTime!Next \/ UNCHANGED OneTime!statuses
    OBVIOUS
  <1>1. ASSUME NEW f \in Flows, Start(f) PROVE OneTime!Next
    BY <1>1, StartHandsOut DEF Start, OneTime!Next
  <1>2. ASSUME NEW c \in Callbacks, ConsumeState(c) PROVE OneTime!Next
    BY <1>2, ConsumeImplements
  <1>3. ASSUME NEW c \in Callbacks, NEW f \in Flows, NEW g \in Flows, NEW u \in Users,
               NEW k \in Containers, VerifyState(c, f, g, u, k)
        PROVE  OneTime!Next
    <2>1. c \notin accepted
      BY <1>3 DEF FlowInv, AcceptedTook, VerifyState
    <2>2. \A d \in accepted : arg'[d] = arg[d]
      BY <1>3, <2>1 DEF FlowInv, TypeOK, VerifyState
    <2> QED
      BY <1>3, <2>2, LoseStep DEF VerifyState, OneTime!Next
  <1>4. ASSUME NEW k \in Containers, Restart(k) PROVE OneTime!Next
    <2>1. \A j \in Containers : pending'[j] \subseteq pending[j]
      BY <1>4 DEF FlowInv, TypeOK, Restart
    <2> QED
      BY <1>4, <2>1, LoseStep DEF Restart, OneTime!Next
  <1>5. ASSUME Tick PROVE OneTime!Next
    BY <1>5 DEF Tick, callbacks, OneTime!Next, OneTime!Pass
  <1>6. ASSUME UNCHANGED <<clock, flow, pending, arg, accepted>> PROVE OneTime!Next
    BY <1>6, LoseStep DEF OneTime!Next
  <1>7. ASSUME NEW c \in Callbacks,
               \/ CallbackWithError(c) \/ RejectSignature(c) \/ ExchangeCode(c)
               \/ ExchangeFails(c) \/ ConnectGoogle(c) \/ ConnectRaises(c) \/ ReportConnected(c)
        PROVE  OneTime!Next
    BY <1>6, <1>7
    DEF CallbackWithError, RejectSignature, ExchangeCode, ExchangeFails, ConnectGoogle,
        ConnectRaises, ReportConnected
  <1>8. ASSUME NEW f \in Flows, UserConsents(f) PROVE OneTime!Next
    BY <1>6, <1>8 DEF UserConsents, callbacks
  <1>9. ASSUME NEW u \in Users, Deactivate(u) PROVE OneTime!Next
    BY <1>6, <1>9 DEF Deactivate, callbacks
  <1>10. CASE UNCHANGED vars
    BY <1>6, <1>10 DEF vars
  <1> QED
    BY <1>1, <1>2, <1>3, <1>4, <1>5, <1>7, <1>8, <1>9, <1>10 DEF Next, Arrive, Continue

\* The flow, process-local repositories and restarts included, hands out and
\* redeems states as the abstract one-time state does.
THEOREM FlowImplementsOneTimeState == Spec => ImplementsOneTimeState
  <1>1. Init => OneTime!Init
    BY InitImplements
  <1>2. FlowInv /\ [Next]_vars => [OneTime!Next]_(OneTime!statuses)
    BY NextImplements
  <1> QED
    BY <1>1, <1>2, FlowInvariant, PTL DEF Spec, ImplementsOneTimeState, OneTime!Spec

-----------------------------------------------------------------------------
(* Why a callback is told of a replay.                                     *)

\* Callback d has brought the state of flow f to container k.
Took(d, f, k) ==
    /\ pc[d] \notin {"new", "verified"}
    /\ arg[d] # None /\ arg[d].flow = f /\ arg[d].container = k

\* A state that was started is in the repository of its container, unless the
\* container has restarted or a callback took the state there.
Accounted(f) ==
    LET k == flow[f].container
    IN f \in pending[k] \/ k \in restarted \/ \E d \in Callbacks : Took(d, f, k)

Explained(c) ==
    LET f == arg[c].flow
        k == arg[c].container
    IN flow[f].container # k \/ k \in restarted \/ \E d \in Callbacks \ {c} : Took(d, f, k)

CallbackExplained(c) ==
    /\ reply[c] # None => pc[c] = "done"
    /\ reply[c] = "state_replay" => arg[c] # None /\ Explained(c)

ReplayInv ==
    /\ \A f \in Flows : flow[f] # None => Accounted(f)
    /\ \A c \in Callbacks : CallbackExplained(c)

LEMMA ReplayInvInit == Init => ReplayInv
  BY NoneAssumption DEF Init, ReplayInv, CallbackExplained, Answers

\* What a step never takes back.
Onward ==
    /\ \A d \in Callbacks : pc[d] = "done" => pc'[d] = "done"
    /\ \A d \in Callbacks : pc[d] \notin {"new", "verified"} =>
          pc'[d] \notin {"new", "verified"} /\ arg'[d] = arg[d]
    /\ \A f \in Flows : flow[f] # None => flow'[f] = flow[f]
    /\ restarted \subseteq restarted'

LEMMA AccountedStays ==
    ASSUME Onward, NEW f \in Flows, flow[f] # None, Accounted(f),
           f \in pending[flow[f].container] => f \in pending'[flow[f].container]
    PROVE  Accounted(f)'
  BY DEF Onward, Accounted, Took

\* A callback that a step leaves alone, or ends without a word of a replay.
LEMMA ExplainedStays ==
    ASSUME FlowInv, ReplayInv, Onward, NEW c \in Callbacks,
           \/ reply'[c] = reply[c]
           \/ pc'[c] = "done" /\ reply'[c] # "state_replay"
    PROVE  CallbackExplained(c)'
  <1>1. CallbackExplained(c)
    BY DEF ReplayInv
  <1>2. CASE pc'[c] = "done" /\ reply'[c] # "state_replay"
    BY <1>2 DEF CallbackExplained
  <1>3. CASE reply'[c] = reply[c] /\ reply[c] # None
    <2>1. pc[c] = "done" /\ pc'[c] = "done" /\ arg'[c] = arg[c]
      BY <1>1, <1>3 DEF CallbackExplained, Onward, FlowInv, TypeOK, Steps
    <2>2. CASE reply[c] = "state_replay"
      <3>1. arg[c] # None /\ Explained(c) /\ arg[c].flow \in Flows /\ flow[arg[c].flow] # None
        BY <1>1, <2>2 DEF CallbackExplained, FlowInv, TypeOK, CarriesStarted
      <3>2. Explained(c)'
        BY <2>1, <3>1 DEF Explained, Took, Onward
      <3> QED
        BY <1>3, <2>1, <3>1, <3>2 DEF CallbackExplained
    <2> QED
      BY <1>3, <2>1, <2>2 DEF CallbackExplained
  <1>4. CASE reply'[c] = None
    BY <1>4, NoneAssumption DEF CallbackExplained, Answers
  <1> QED
    BY <1>2, <1>3, <1>4

LEMMA ReplayConsume ==
    ASSUME FlowInv, ReplayInv, Onward, NEW c \in Callbacks, ConsumeState(c)
    PROVE  ReplayInv'
  <1> DEFINE f == arg[c].flow
             k == arg[c].container
  <1>1. /\ pc[c] = "verified" /\ arg[c] \in Call /\ arg[c] # None /\ flow[f] # None
        /\ f \in Flows /\ k \in Containers
    BY DEF FlowInv, ConsumeState, CarriesStarted, Running, TypeOK
  <1>2. /\ pending' = [pending EXCEPT ![k] = @ \ {f}] /\ UNCHANGED <<flow, arg, restarted>>
        /\ pending \in [Containers -> SUBSET Flows] /\ flow \in [Flows -> Payload \cup {None}]
    BY DEF ConsumeState, FlowInv, TypeOK
  <1>3. /\ pc'[c] \in {"done", "exchanging"}
        /\ \A d \in Callbacks \ {c} : reply'[d] = reply[d]
        /\ reply'[c] = "state_replay" => reply[c] = "state_replay" \/ f \notin pending[k]
    BY DEF ConsumeState, Deny, Answer, Goto, InRepository, FlowInv, TypeOK
  <1>4. ASSUME NEW g \in Flows, flow'[g] # None PROVE Accounted(g)'
    <2>1. flow[g] # None /\ Accounted(g) /\ flow[g].container \in Containers
      BY <1>2, <1>4 DEF ReplayInv
    <2>2. CASE g = f /\ flow[g].container = k
      <3>1. Took(c, g, k)'
        BY <1>1, <1>2, <1>3, <2>2 DEF Took
      <3> QED
        BY <1>2, <2>2, <3>1 DEF Accounted
    <2>3. CASE ~(g = f /\ flow[g].container = k)
      <3>1. g \in pending[flow[g].container] => g \in pending'[flow[g].container]
        BY <1>1, <1>2, <2>1, <2>3
      <3> QED
        BY <2>1, <3>1, AccountedStays
    <2> QED
      BY <2>2, <2>3
  <1>5. CallbackExplained(c)'
    <2>1. CASE \/ reply'[c] = reply[c]
               \/ pc'[c] = "done" /\ reply'[c] # "state_replay"
      BY <2>1, ExplainedStays
    <2>2. CASE f \notin pending[k] /\ pc'[c] = "done"
      <3>1. Accounted(f)
        BY <1>1 DEF ReplayInv
      <3>2. \A d \in Callbacks : Took(d, f, k) => d # c /\ Took(d, f, k)'
        BY <1>1, <1>2 DEF Took, Onward
      <3>3. Explained(c)'
        BY <1>2, <2>2, <3>1, <3>2 DEF Accounted, Explained
      <3> QED
        BY <1>1, <1>2, <2>2, <3>3 DEF CallbackExplained
    <2>3. \/ reply'[c] = reply[c]
          \/ /\ pc'[c] = "done"
             /\ reply'[c] # "state_replay" \/ f \notin pending[k]
      BY DEF ConsumeState, Deny, Answer, Goto, InRepository, FlowInv, TypeOK
    <2> QED
      BY <2>1, <2>2, <2>3
  <1>6. \A d \in Callbacks : CallbackExplained(d)'
    BY <1>3, <1>5, ExplainedStays
  <1> QED
    BY <1>4, <1>6 DEF ReplayInv

\* Every step is one onward.
LEMMA StepsGoOnward == FlowInv /\ [Next]_vars => Onward
  <1> SUFFICES ASSUME FlowInv, [Next]_vars PROVE Onward
    OBVIOUS
  <1> USE DEF FlowInv, TypeOK
  <1>1. UNCHANGED restarted \/ \E k \in Containers : restarted' = restarted \cup {k}
    BY DEF Next, Arrive, Continue, Start, StartGoogleOAuth, CallbackWithError, RejectSignature,
       VerifyState, ConsumeState, ExchangeCode, ExchangeFails, ConnectGoogle, ConnectRaises,
       ReportConnected, UserConsents, Restart, Deactivate, Tick, vars
  <1>2. UNCHANGED flow \/ \E f \in Flows : \E e : flow[f] = None /\ flow' = [flow EXCEPT ![f] = e]
    BY DEF Next, Arrive, Continue, Start, StartGoogleOAuth, CallbackWithError, RejectSignature,
       VerifyState, ConsumeState, ExchangeCode, ExchangeFails, ConnectGoogle, ConnectRaises,
       ReportConnected, UserConsents, Restart, Deactivate, Tick, vars
  <1>3. UNCHANGED arg \/ \E c \in Callbacks : \E e : pc[c] = "new" /\ arg' = [arg EXCEPT ![c] = e]
    BY DEF Next, Arrive, Continue, Start, StartGoogleOAuth, CallbackWithError, RejectSignature,
       VerifyState, ConsumeState, ExchangeCode, ExchangeFails, ConnectGoogle, ConnectRaises,
       ReportConnected, UserConsents, Restart, Deactivate, Tick, vars, callbacks
  <1>4. \A d \in Callbacks :
           /\ pc[d] = "done" => pc'[d] = "done"
           /\ pc[d] \notin {"new", "verified"} => pc'[d] \notin {"new", "verified"}
    <2>1. ASSUME NEW c \in Callbacks, NEW step, pc' = [pc EXCEPT ![c] = step], pc[c] # "done",
                 step \in {"exchanging", "connecting", "reporting", "done"} \/ pc[c] = "new"
          PROVE  \A d \in Callbacks :
                    /\ pc[d] = "done" => pc'[d] = "done"
                    /\ pc[d] \notin {"new", "verified"} => pc'[d] \notin {"new", "verified"}
      BY <2>1
    <2>2. CASE \E c \in Callbacks : Arrive(c) \/ Continue(c) \/ ExchangeCode(c) \/ ConnectRaises(c)
      BY <2>1, <2>2 DEF Arrive, Continue, CallbackWithError, RejectSignature, VerifyState,
         ConsumeState, ExchangeCode, ExchangeFails, ConnectGoogle, ConnectRaises,
         ReportConnected, Deny, Answer, Goto
    <2>3. CASE \E k \in Containers : Restart(k)
      BY <2>3 DEF Restart
    <2>4. CASE UNCHANGED pc
      BY <2>4
    <2> QED
      BY <2>2, <2>3, <2>4 DEF Next, Start, StartGoogleOAuth, UserConsents, Deactivate, Tick,
         vars, callbacks
  <1> QED
    BY <1>1, <1>2, <1>3, <1>4 DEF Onward

LEMMA ReplayInvNext == FlowInv /\ ReplayInv /\ [Next]_vars => ReplayInv'
  <1> SUFFICES ASSUME FlowInv, ReplayInv, [Next]_vars PROVE ReplayInv'
    OBVIOUS
  <1>1. Onward
    BY StepsGoOnward
  <1>2. ASSUME NEW c \in Callbacks, ConsumeState(c) PROVE ReplayInv'
    BY <1>1, <1>2, ReplayConsume
  <1>3. ASSUME UNCHANGED <<flow, pending>>,
               \A c \in Callbacks : \/ reply'[c] = reply[c]
                                    \/ pc'[c] = "done" /\ reply'[c] # "state_replay"
        PROVE  ReplayInv'
    BY <1>1, <1>3, AccountedStays, ExplainedStays DEF ReplayInv
  <1>4. ASSUME NEW f \in Flows, Start(f) PROVE ReplayInv'
    <2>1. PICK u \in Users, target \in Targets, k \in Containers : StartGoogleOAuth(f, u, target, k)
      BY <1>4 DEF Start
    <2>2. /\ flow[f] = None /\ flow'[f].container = k /\ f \in pending'[k]
          /\ \A j \in Containers : pending[j] \subseteq pending'[j]
          /\ \A g \in Flows \ {f} : flow'[g] = flow[g]
          /\ UNCHANGED reply
      BY <2>1 DEF StartGoogleOAuth, callbacks, FlowInv, TypeOK
    <2>3. ASSUME NEW g \in Flows, flow'[g] # None PROVE Accounted(g)'
      <3>1. CASE g = f
        BY <2>2, <3>1 DEF Accounted
      <3>2. CASE g # f
        <4>1. flow[g] # None /\ flow[g].container \in Containers
          BY <2>2, <2>3, <3>2 DEF FlowInv, TypeOK
        <4> QED
          BY <1>1, <2>2, <4>1, AccountedStays DEF ReplayInv
      <3> QED
        BY <3>1, <3>2
    <2> QED
      BY <1>1, <2>2, <2>3, ExplainedStays DEF ReplayInv
  <1>5. ASSUME NEW k \in Containers, Restart(k) PROVE ReplayInv'
    <2>1. /\ UNCHANGED flow /\ restarted' = restarted \cup {k}
          /\ \A j \in Containers \ {k} : pending'[j] = pending[j]
      BY <1>5 DEF Restart, FlowInv, TypeOK
    <2>2. \A c \in Callbacks : \/ reply'[c] = reply[c]
                               \/ pc'[c] = "done" /\ reply'[c] # "state_replay"
      BY <1>5 DEF Restart
    <2>3. ASSUME NEW g \in Flows, flow'[g] # None PROVE Accounted(g)'
      <3>1. flow[g] # None /\ flow[g].container \in Containers
        BY <2>1, <2>3 DEF FlowInv, TypeOK
      <3>2. CASE flow[g].container = k
        BY <2>1, <3>2 DEF Accounted
      <3>3. CASE flow[g].container # k
        BY <1>1, <2>1, <3>1, <3>3, AccountedStays DEF ReplayInv
      <3> QED
        BY <3>2, <3>3
    <2> QED
      BY <1>1, <2>2, <2>3, ExplainedStays DEF ReplayInv
  <1>6. ASSUME NEW c \in Callbacks,
               NEW outcome \in {"connected", "state_invalid", "provider_error", "forbidden",
                                "failed", "exchange_failed"},
               Answer(c, outcome), UNCHANGED <<flow, pending>>
        PROVE  ReplayInv'
    <2>1. /\ pc'[c] = "done" /\ reply'[c] # "state_replay"
          /\ \A d \in Callbacks \ {c} : reply'[d] = reply[d]
      BY <1>6 DEF Answer, FlowInv, TypeOK
    <2> QED
      BY <1>3, <1>6, <2>1
  <1>7. ASSUME NEW c \in Callbacks,
               \/ CallbackWithError(c) \/ RejectSignature(c) \/ ExchangeFails(c)
               \/ ConnectRaises(c) \/ ReportConnected(c)
        PROVE  ReplayInv'
    BY <1>6, <1>7 DEF CallbackWithError, RejectSignature, ExchangeFails, ConnectRaises,
       ReportConnected, Deny
  <1>8. ASSUME NEW c \in Callbacks, ConnectGoogle(c) PROVE ReplayInv'
    BY <1>3, <1>6, <1>8 DEF ConnectGoogle, Deny, Goto
  <1>9. CASE UNCHANGED <<flow, pending, reply>>
    BY <1>3, <1>9
  <1> QED
    BY <1>2, <1>4, <1>5, <1>7, <1>8, <1>9 DEF Next, Arrive, Continue, VerifyState, ExchangeCode,
       UserConsents, Deactivate, Tick, Goto, vars, callbacks

\* A callback with a genuine state is told of a replay only for the reasons the
\* process-local repository gives: another callback took the state there, the
\* container restarted, or the flow was started in another one.
THEOREM ReplaysHaveReasons == Spec => []ReplayExplained
  <1>1. Init => ReplayInv
    BY ReplayInvInit
  <1>2. FlowInv /\ ReplayInv /\ [Next]_vars => ReplayInv'
    BY ReplayInvNext
  <1>3. ReplayInv => ReplayExplained
    BY DEF ReplayInv, CallbackExplained, Explained, Took, ReplayExplained
  <1> QED
    BY <1>1, <1>2, <1>3, FlowInvariant, PTL DEF Spec

=============================================================================
