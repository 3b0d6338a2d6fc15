----------------------------- MODULE HandoffProofs -----------------------------
(***************************************************************************)
(* What a call that was not raced makes of the record it judged: an access *)
(* judges one read and serves the next one; a refresh has its token        *)
(* replaced at Google before the table has the new one.                    *)
(***************************************************************************)
EXTENDS DisconnectProofs, RecordProofs

\* The record about to be read again has been judged: its token will be
\* refreshed, or covers what was asked for.
Judged(r) ==
    LET rec == store[arg[r].key] IN
    /\ rec # None /\ rec.access # None
    /\ \/ IsExpired(rec, clock) /\ rec.refresh # None
       \/ MissingScopes(rec.scopes, arg[r].scopes) = {}

\* The record about to be decrypted has a token, a new one or one that covers
\* what was asked for.
Servable(r) ==
    /\ snap[r].access # None
    /\ \/ snap[r].access.by = r
       \/ MissingScopes(arg[snap[r].access.grant].scopes, arg[r].scopes) = {}

AnswerRight(r) ==
    reply[r] # None =>
        /\ reply[r].kind # "crashed"
        /\ reply[r].kind = "token" =>
              reply[r].token # None /\ (reply[r].token.by # r => Covers(r))

CallJudged(r) ==
    /\ pc[r] = "rereading" => Judged(r)
    /\ pc[r] = "decrypting" => Servable(r)
    /\ AnswerRight(r)

HandoffInv == \A r \in Requests : r \in Raced \/ CallJudged(r)

LEMMA HandoffInvInit == Init => HandoffInv
  BY DEF Init, HandoffInv, CallJudged, AnswerRight

LEMMA MissingShrinks ==
    ASSUME NEW required, NEW granted, NEW wider, granted \subseteq wider,
           MissingScopes(granted, required) = {}
    PROVE  MissingScopes(wider, required) = {}
  BY DEF MissingScopes

\* An answer once given stays right: its call and the connect call behind its
\* token are over.
LEMMA AnswerStaysRight ==
    ASSUME TypeInv, OwnerInv, DoneStays, NEW q \in Requests, AnswerRight(q), reply'[q] = reply[q]
    PROVE  AnswerRight(q)'
  <1>1. reply[q] \in Replies \cup {None} /\ CallSettled(q)
    BY DEF TypeInv, TypeOK, OwnerInv
  <1>2. ASSUME reply[q] # None, reply[q].token # None
        PROVE  arg'[q] = arg[q] /\ arg'[reply[q].token.grant] = arg[reply[q].token.grant]
    <2>1. reply[q].token.grant \in Requests
      BY <1>1, <1>2 DEF Replies, Ciphertext
    <2> QED
      BY <1>1, <1>2, <2>1 DEF CallSettled, DoneStays
  <1> QED
    BY <1>2 DEF AnswerRight, Covers

\* The calls that do not take the step: a write of their record races them.
LEMMA OtherStaysJudged ==
    ASSUME TypeInv, OwnerInv, DoneStays, HandoffInv, NEW r \in Requests,
           NEW q \in Requests \ {r}, OthersStay(r), UNCHANGED clock, Raced \subseteq Raced',
           UNCHANGED store \/ (Running(r) /\ \E rec : Put(r, rec)),
           q \notin Raced'
    PROVE  CallJudged(q)'
  <1>1. /\ CallJudged(q)
        /\ pc'[q] = pc[q] /\ arg'[q] = arg[q] /\ snap'[q] = snap[q] /\ reply'[q] = reply[q]
    BY DEF HandoffInv, OthersStay
  <1>2. AnswerRight(q)'
    BY <1>1, AnswerStaysRight DEF CallJudged
  <1>3. ASSUME pc[q] = "rereading" PROVE Judged(q)'
    <2>1. Judged(q) /\ Running(q) /\ arg[q].key \in Key
      BY <1>1, <1>3 DEF CallJudged, Running, TypeInv, CallsWellFormed, CallWellFormed, Arg
    <2>2. store'[arg[q].key] = store[arg[q].key]
      <3>1. ASSUME NEW rec, Running(r), Put(r, rec) PROVE arg[q].key # arg[r].key
        BY <2>1, <3>1, PutEffect DEF Raced
      <3> QED
        BY <2>1, <3>1, PutEffect
    <2> QED
      BY <1>1, <2>1, <2>2 DEF Judged, IsExpired, MissingScopes
  <1>4. ASSUME pc[q] = "decrypting" PROVE Servable(q)'
    <2>1. Servable(q) /\ CallSettled(q) /\ snap[q] \in Record
      BY <1>1, <1>4 DEF CallJudged, OwnerInv, TypeInv, CallsWellFormed, CallWellFormed, Running
    <2>2. snap[q].access.grant \in Requests /\ pc[snap[q].access.grant] = "done"
      BY <1>4, <2>1, NoneAssumption
         DEF Servable, CallSettled, Settled, Running, Record, Ciphertext
    <2>3. arg'[snap[q].access.grant] = arg[snap[q].access.grant]
      BY <2>2 DEF DoneStays
    <2> QED
      BY <1>1, <2>1, <2>3 DEF Servable, MissingScopes
  <1> QED
    BY <1>1, <1>2, <1>3, <1>4 DEF CallJudged

\* A call goes on to serve, or is over with a right answer.
LEMMA ServingJudged ==
    ASSUME NEW r, pc'[r] = "decrypting", reply'[r] = None, Servable(r)'
    PROVE  CallJudged(r)'
  BY DEF CallJudged, AnswerRight

LEMMA OverJudged ==
    ASSUME NEW r, pc'[r] = "done", AnswerRight(r)'
    PROVE  CallJudged(r)'
  BY DEF CallJudged

LEMMA JudgedBegin ==
    ASSUME Before, RecordInv, HandoffInv, DoneStays, NEW r \in Requests, Begin(r)
    PROVE  HandoffInv'
  <1>1. /\ pc[r] = "new" /\ reply[r] = None /\ UNCHANGED <<clock, store>> /\ OthersStay(r)
        /\ Raced \subseteq Raced'
    BY BeginsAlone, RacedGrows DEF Before, FreshInv, CallFresh
  <1>2. ASSUME r \notin Raced' PROVE CallJudged(r)'
    <2> USE DEF Before, TypeInv, TypeOK
    <2>1. ASSUME NEW k \in Key, NEW required \in RequiredScopes, BeginAccess(r, k, required)
          PROVE  CallJudged(r)'
      <3>1. PICK rec \in Read(k) :
                /\ NoteRead(r, k, rec)
                /\ \/ /\ HandoffVerdict(rec, required, clock) \in {"refresh", "usable"}
                      /\ Goto(r, "rereading")
                   \/ Answer(r, HandoffVerdict(rec, required, clock), None)
        BY <2>1 DEF BeginAccess
      <3>2. CASE HandoffVerdict(rec, required, clock) \in {"refresh", "usable"}
                 /\ Goto(r, "rereading")
        <4>1. rec = store[k]
          BY <1>2, <3>1 DEF NoteRead, Raced
        <4>2. /\ rec # None /\ ~IsRevoked(rec)
              /\ \/ IsExpired(rec, clock) /\ rec.refresh # None
                 \/ MissingScopes(rec.scopes, required) = {}
          BY <3>2 DEF HandoffVerdict
        <4>3. rec \in Record /\ WellFormed(rec)
          BY <4>2, ReadType DEF RecordInv, TableSound, Sound
        <4>4. rec.access # None
          BY <4>2, <4>3 DEF WellFormed, IsRevoked
        <4>5. arg'[r].key = k /\ arg'[r].scopes = required
          BY <2>1 DEF BeginAccess, Accept
        <4>6. Judged(r)'
          BY <1>1, <4>1, <4>2, <4>4, <4>5 DEF Judged, IsExpired
        <4>7. pc'[r] = "rereading" /\ reply'[r] = None
          BY <1>1, <3>2 DEF Goto
        <4> QED
          BY <4>6, <4>7 DEF CallJudged, AnswerRight
      <3>3. CASE Answer(r, HandoffVerdict(rec, required, clock), None)
        <4>1. HandoffVerdict(rec, required, clock) \notin {"crashed", "token"}
          BY DEF HandoffVerdict
        <4>2. /\ pc'[r] = "done"
              /\ reply'[r] = [kind |-> HandoffVerdict(rec, required, clock), token |-> None]
          BY <3>3 DEF Answer
        <4> QED
          BY <4>1, <4>2 DEF CallJudged, AnswerRight
      <3> QED
        BY <3>1, <3>2, <3>3
    <2>2. ASSUME NEW kind \in {"denied", "invalid"}, Answer(r, kind, None) PROVE CallJudged(r)'
      BY <2>2 DEF Answer, CallJudged, AnswerRight
    <2>3. ASSUME NEW step \in {"connecting", "refreshing", "revoking"}, Goto(r, step)
          PROVE  CallJudged(r)'
      BY <1>1, <2>3 DEF Goto, CallJudged, AnswerRight
    <2> QED
      BY <2>1, <2>2, <2>3 DEF Begin, RefuseNonMember, RefuseInput, BeginConnect, BeginRefresh,
                              BeginRevoke
  <1>3. ASSUME NEW q \in Requests \ {r}, q \notin Raced' PROVE CallJudged(q)'
    BY <1>1, <1>3, OtherStaysJudged DEF Before
  <1> QED
    BY <1>2, <1>3 DEF HandoffInv, Raced

LEMMA JudgedContinue ==
    ASSUME Before, RecordInv, HandoffInv, DoneStays, NEW r \in Requests,
           Continue(r) \/ GoogleAnswers(r) \/ Abort(r)
    PROVE  HandoffInv'
  <1> DEFINE k == arg[r].key
  <1>1. /\ Running(r) /\ arg' = arg /\ k \in Key /\ CallWellFormed(r) /\ reply[r] = None
        /\ OthersStay(r) /\ Raced \subseteq Raced'
        /\ UNCHANGED store \/ \E rec : Put(r, rec)
    BY ContinuesKept, RacedGrows
       DEF Before, OneCall, TypeInv, CallsWellFormed, CallWellFormed, Arg, FreshInv, CallFresh,
           Running
  <1>2. UNCHANGED clock
    BY DEF Continue, WriteConnect, WriteRevoke, RereadForAccess, ReadForRefresh, RefreshFails,
       WriteRenewed, WriteReconnectRequired, DecryptForAccess, GoogleAnswers, Abort
  <1>3. ASSUME NEW q \in Requests \ {r}, q \notin Raced' PROVE CallJudged(q)'
    BY <1>1, <1>2, <1>3, OtherStaysJudged DEF Before
  <1>4. ASSUME r \notin Raced' PROVE CallJudged(r)'
    <2> USE DEF Before, TypeInv, TypeOK
    <2>1. CallJudged(r)
      BY <1>1, <1>4 DEF HandoffInv
    <2>2. ASSUME NEW kind \in {"connected", "disconnected", "denied", "failed", "revoked", "refreshed"},
                 Answer(r, kind, None)
          PROVE  CallJudged(r)'
      BY <2>2 DEF Answer, CallJudged, AnswerRight
    <2>3. ASSUME NEW step \in {"refreshing", "calling", "renewing", "rotating", "marking"},
                 Goto(r, step)
          PROVE  CallJudged(r)'
      BY <1>1, <2>3 DEF Goto, CallJudged, AnswerRight
    <2>4. ASSUME RereadForAccess(r) PROVE CallJudged(r)'
      <3>1. PICK rec \in Read(k) :
                /\ NoteRead(r, k, rec)
                /\ \/ rec = None
                   \/ Goto(r, "refreshing")
                   \/ /\ ~(IsExpired(rec, clock) /\ rec.refresh # None)
                      /\ Hold(r, rec, clock) /\ Goto(r, "decrypting")
        BY <2>4 DEF RereadForAccess
      <3>2. rec = store[k]
        BY <1>4, <3>1 DEF NoteRead, Raced
      <3>3. Judged(r)
        BY <2>1, <2>4 DEF RereadForAccess, CallJudged
      <3>4. CASE /\ ~(IsExpired(rec, clock) /\ rec.refresh # None)
                 /\ Hold(r, rec, clock) /\ Goto(r, "decrypting")
        <4>1. /\ MissingScopes(rec.scopes, arg[r].scopes) = {}
              /\ rec # None /\ rec.access # None
          BY <3>2, <3>3, <3>4 DEF Judged
        <4>2. rec.scopes \subseteq arg[rec.access.grant].scopes
          BY <1>1, <4>1 DEF RecordInv, TableSound, Sound, ScopesWithin
        <4>3. MissingScopes(arg[rec.access.grant].scopes, arg[r].scopes) = {}
          BY <4>1, <4>2, MissingShrinks
        <4>4. snap'[r] = rec /\ pc'[r] = "decrypting" /\ reply'[r] = None
          BY <1>1, <3>4 DEF Hold, Goto
        <4>5. Servable(r)'
          BY <1>1, <4>1, <4>3, <4>4 DEF Servable, MissingScopes
        <4> QED
          BY <4>4, <4>5, ServingJudged
      <3>5. rec # None
        BY <3>2, <3>3 DEF Judged
      <3> QED
        BY <2>3, <3>1, <3>4, <3>5
    <2>5. ASSUME DecryptForAccess(r) PROVE CallJudged(r)'
      <3>1. Servable(r) /\ CallSettled(r) /\ snap[r] \in Record
        BY <1>1, <2>1, <2>5 DEF DecryptForAccess, CallJudged, OwnerInv, CallWellFormed, Running
      <3>2. Opens(snap[r].access, k)
        BY <1>1, <3>1, NoneAssumption DEF Servable, CallSettled, Settled, Owned, Opens
      <3>3. pc'[r] = "done" /\ reply'[r] = [kind |-> "token", token |-> snap[r].access]
        BY <2>5, <3>2 DEF DecryptForAccess, Answer
      <3>4. reply'[r].token.by # r => Covers(r)'
        BY <1>1, <3>1, <3>3 DEF Servable, Covers, MissingScopes
      <3>5. AnswerRight(r)'
        BY <3>1, <3>3, <3>4 DEF AnswerRight, Servable
      <3> QED
        BY <3>3, <3>5, OverJudged
    <2>6. ASSUME WriteRenewed(r) PROVE CallJudged(r)'
      <3> DEFINE rec == RenewedRecord(r, pc[r] = "rotating")
      <3>1. /\ snap[r] \in Record /\ snap[r].refresh # None /\ arg[r] \in Arg
        BY <1>1, <2>6 DEF WriteRenewed, CallWellFormed
      <3>2. rec.access # None /\ rec.access.by = r
        <4>1. rec.access = Encrypt(k, snap[r].refresh.grant, r)
          BY <3>1 DEF RenewedRecord, Record
        <4>2. rec.access \in Ciphertext
          BY <1>1, <3>1, <4>1 DEF Encrypt, Ciphertext, Record, Key
        <4> QED
          BY <4>1, <4>2, NoneAssumption DEF Encrypt
      <3>3. \/ Goto(r, "decrypting") /\ Hold(r, rec, stamp[r])
            \/ Answer(r, "refreshed", None)
        BY <2>6 DEF WriteRenewed
      <3> HIDE DEF rec
      <3>4. CASE Goto(r, "decrypting") /\ Hold(r, rec, stamp[r])
        <4>1. snap'[r] = rec /\ pc'[r] = "decrypting" /\ reply'[r] = None
          BY <1>1, <3>4 DEF Goto, Hold
        <4> QED
          BY <3>2, <4>1, ServingJudged DEF Servable
      <3>5. CASE Answer(r, "refreshed", None)
        BY <2>2, <3>5
      <3> QED
        BY <3>3, <3>4, <3>5
    <2> QED
      BY <2>2, <2>3, <2>4, <2>5, <2>6 DEF Continue, WriteConnect, WriteRevoke, ReadForRefresh,
         RefreshFails, WriteReconnectRequired, GoogleAnswers, Abort
  <1> QED
    BY <1>3, <1>4 DEF HandoffInv, Raced

\* Time passes: what has expired stays so.
LEMMA JudgedTick ==
    ASSUME TypeInv, HandoffInv, UNCHANGED <<store, calls, history>>,
           clock' \in Nat, clock <= clock'
    PROVE  HandoffInv'
  <1>1. ASSUME NEW r \in Requests, Judged(r), pc[r] = "rereading" PROVE Judged(r)'
    <2>1. store[arg[r].key] \in Record
      BY <1>1 DEF TypeInv, TypeOK, CallsWellFormed, CallWellFormed, Running, Arg, Judged
    <2>2. clock \in Nat /\ store[arg[r].key].expiresAt \in Nat
      BY <2>1 DEF TypeInv, TypeOK, Record
    <2> QED
      BY <1>1, <2>2 DEF Judged, IsExpired, MissingScopes, calls
  <1> QED
    BY <1>1 DEF HandoffInv, CallJudged, Servable, AnswerRight, Covers, MissingScopes, Raced,
                calls, history

LEMMA HandoffInvNext ==
    ASSUME Before, RecordInv, HandoffInv, [Next]_vars
    PROVE  HandoffInv'
  <1>1. TypeInv /\ DoneStays
    BY AnsweredStaysAnswered DEF Before
  <1>2. ASSUME NEW r \in Requests, Begin(r) PROVE HandoffInv'
    BY <1>1, <1>2, JudgedBegin
  <1>3. ASSUME NEW r \in Requests, Continue(r) \/ GoogleAnswers(r) \/ Abort(r) PROVE HandoffInv'
    BY <1>1, <1>3, JudgedContinue
  <1>4. CASE UNCHANGED <<clock, store, calls, history>> \/ Tick
    <2>1. UNCHANGED <<store, calls, history>> /\ clock' \in Nat /\ clock <= clock'
      BY <1>1, <1>4 DEF Tick, table, TypeInv, TypeOK
    <2> QED
      BY <1>1, <2>1, JudgedTick
  <1> QED
    BY <1>2, <1>3, <1>4 DEF Next, GoogleRevokes, Replicate, vars, calls, history, table

LEMMA HandoffInvariant == Spec => []HandoffInv
  <1>1. Init => Before /\ RecordInv /\ HandoffInv
    BY BeforeInit, RecordInvInit, HandoffInvInit
  <1>2. Before /\ RecordInv /\ HandoffInv /\ [Next]_vars => Before' /\ RecordInv' /\ HandoffInv'
    BY BeforeNext, RecordInvNext, HandoffInvNext DEF Before
  <1> QED
    BY <1>1, <1>2, PTL DEF Spec

-----------------------------------------------------------------------------
\* An access call stumbles over a record or a ciphertext that is not there only
\* where another call wrote between its two reads, or where a read was stale.
THEOREM CalmCallsAnswerTyped == Spec => []CalmAnswersTyped
  <1>1. HandoffInv => CalmAnswersTyped
    BY DEF HandoffInv, CallJudged, AnswerRight, CalmAnswersTyped, Crashed
  <1> QED
    BY <1>1, HandoffInvariant, PTL

\* A token handed out as it was stored covers the scopes the call asked for,
\* unless another call wrote between its two reads or a read was stale.
THEOREM StoredHandoffsCoverScopes == Spec => []StoredHandoffCoversScopes
  <1>1. HandoffInv => StoredHandoffCoversScopes
    BY DEF HandoffInv, CallJudged, AnswerRight, StoredHandoffCoversScopes, Handed
  <1> QED
    BY <1>1, HandoffInvariant, PTL

-----------------------------------------------------------------------------
(* The refresh token Google accepts, under a key where no call that writes *)
(* tokens was raced.                                                       *)

Mending(r) == pc[r] \in {"rotating", "marking"} \/ (reply[r] # None /\ reply[r].kind = "failed")
MendingNext(r) == pc'[r] \in {"rotating", "marking"} \/ (reply'[r] # None /\ reply'[r].kind = "failed")

\* Google accepts the stored refresh token, none, or that of a call that has
\* still to write or died; the call that brought the stored one has written it.
TokenHeld(rec) ==
    rec # None /\ rec.refresh # None =>
        /\ \/ google[rec.refresh.grant] \in {rec.refresh.by, None}
           \/ Mending(google[rec.refresh.grant])
        /\ pc[rec.refresh.by] \in {"decrypting", "done"}

\* A call that Google gave a refresh token got it for the grant it is about to
\* write; it connects, or its answer from Google has come.
GrantPlaced(g) ==
    google[g] # None =>
        /\ pc[google[g]] \in {"connecting", "rotating", "marking", "decrypting", "done"}
        /\ pc[google[g]] \in {"rotating", "marking"} =>
              snap[google[g]].refresh # None /\ g = snap[google[g]].refresh.grant

\* Nobody else is given a refresh token of the grant that a call is about to
\* write.
CallHolds(r) ==
    /\ Running(r) /\ pc[r] # "revoking" => arg[r].op # "revoke"
    /\ pc[r] = "connecting" => google[r] \in {r, None}
    /\ pc[r] = "rotating" =>
          Muddled(arg[r].key) \/ google[snap[r].refresh.grant] \in {r, None}

HolderInv ==
    /\ \A k \in Key : Muddled(k) \/ TokenHeld(store[k])
    /\ \A g \in Requests : GrantPlaced(g)
    /\ \A r \in Requests : CallHolds(r)

LEMMA HolderInvInit == Init => HolderInv
  BY DEF Init, HolderInv, TokenHeld, GrantPlaced, CallHolds, Running

\* The grant behind a refresh token, stored or held by a call.
LEMMA StoredGrant ==
    ASSUME TypeInv, OwnerInv, NEW k \in Key, store[k] # None, store[k].refresh # None
    PROVE  LET token == store[k].refresh IN
           /\ token.grant \in Requests /\ token.by \in Requests
           /\ arg[token.grant].key = k /\ pc[token.grant] = "done"
  <1>1. Settled(store[k], k) /\ store[k] \in Record
    BY DEF OwnerInv, TableSettled, Read, TypeInv, TypeOK
  <1> QED
    BY <1>1 DEF Settled, Owned, Record, Ciphertext

LEMMA CallingGrant ==
    ASSUME TypeInv, OwnerInv, NEW r \in Requests, pc[r] \in {"calling", "renewing", "rotating"}
    PROVE  LET token == snap[r].refresh IN
           /\ snap[r] \in Record /\ snap[r] # None /\ token # None
           /\ token.grant \in Requests /\ token.by \in Requests
           /\ arg[token.grant].key = arg[r].key /\ pc[token.grant] = "done"
           /\ arg[r].key \in Key /\ Running(r)
  <1>1. Settled(snap[r], arg[r].key) /\ snap[r] \in Record /\ snap[r].refresh # None
        /\ Running(r) /\ arg[r].key \in Key
    BY DEF OwnerInv, CallSettled, TypeInv, CallsWellFormed, CallWellFormed, Running, Arg
  <1>2. snap[r] # None
    BY <1>1, NoneAssumption
  <1> QED
    BY <1>1, <1>2 DEF Settled, Owned, Record, Ciphertext

\* A call that was raced stays so.
LEMMA MuddledStays ==
    ASSUME Before, NEW r \in Requests,
           Begin(r) \/ (Continue(r) \/ GoogleAnswers(r) \/ Abort(r)),
           NEW k, Muddled(k)
    PROVE  Muddled(k)'
  <1>1. PICK q \in Raced : arg[q].key = k /\ arg[q].op # "revoke"
    BY DEF Muddled
  <1>2. q \in Requests /\ pc[q] # "new"
    BY <1>1 DEF Before, TypeInv, TypeOK, Raced, FreshInv, CallFresh
  <1>3. q \in Raced' /\ arg'[q] = arg[q]
    BY <1>1, <1>2, RacedGrows DEF Before
  <1> QED
    BY <1>1, <1>3 DEF Muddled, Raced

\* Where none was raced, a call that writes tokens holds the stored record.
LEMMA ClearHolds ==
    ASSUME Before, HolderInv, NEW r \in Requests, pc[r] \in Holding, pc[r] # "revoking",
           ~Muddled(arg[r].key)
    PROVE  snap[r] = store[arg[r].key]
  <1>1. Running(r) /\ arg[r].op # "revoke"
    BY DEF HolderInv, CallHolds, Running, Holding, WriteSteps
  <1>2. r \notin Raced
    BY <1>1 DEF Muddled
  <1> QED
    BY <1>2 DEF Before, FreshInv, CallFresh

-----------------------------------------------------------------------------
(* What the steps of one call do to Google's tokens and to the table.      *)

\* Google puts a new refresh token in place of the one the call sent.
Rotates(r) ==
    /\ pc[r] = "calling" /\ pc'[r] \in {"rotating", "marking"}
    /\ UNCHANGED <<store, snap, reply>>
    /\ google[snap[r].refresh.grant] = snap[r].refresh.by
    /\ google' = [google EXCEPT ![snap[r].refresh.grant] = r]

\* A record is written with the refresh token the call was given, with that of
\* the record it holds, or with none.
Writes(r) ==
    /\ pc[r] \in WriteSteps /\ pc'[r] \in {"decrypting", "done"} /\ google' = google
    /\ pc'[r] = "decrypting" => arg[r].op = "access"
    /\ \E rec : /\ Put(r, rec)
                /\ \/ rec.refresh = None
                   \/ /\ pc[r] \in {"connecting", "rotating"} /\ rec.refresh.by = r
                      /\ rec.refresh.grant = IF pc[r] = "connecting" THEN r
                                             ELSE snap[r].refresh.grant
                   \/ /\ pc[r] \in {"connecting", "renewing"} /\ snap[r] # None
                      /\ rec.refresh = snap[r].refresh

\* Nothing happens that matters: only a failure leaves a step where a call
\* still has a refresh token to write.
Idles(r) ==
    /\ UNCHANGED <<store, google>>
    /\ pc'[r] \notin {"connecting", "rotating", "revoking"}
    /\ pc[r] \in {"connecting", "decrypting", "revoking"} => pc'[r] = "done"
    /\ pc[r] \in {"rotating", "marking"} => pc'[r] = "done" /\ MendingNext(r)

LEMMA CallEffect ==
    ASSUME TypeInv, OwnerInv, NEW r \in Requests, Continue(r) \/ GoogleAnswers(r) \/ Abort(r)
    PROVE  Rotates(r) \/ Writes(r) \/ Idles(r)
  <1>1. arg[r] \in Arg /\ CallWellFormed(r) /\ Running(r)
    BY ContinuesAlone DEF OneCall, TypeInv, CallsWellFormed, CallWellFormed
  <1> USE DEF TypeInv, TypeOK
  <1>2. CASE WriteConnect(r)
    <2>1. /\ pc[r] = "connecting" /\ Put(r, ConnectedRecord(r)) /\ google' = google
          /\ pc'[r] = "done"
      BY <1>2 DEF WriteConnect, Answer
    <2>2. \/ ConnectedRecord(r).refresh = Encrypt(arg[r].key, r, r)
          \/ ConnectedRecord(r).refresh = None
          \/ snap[r] # None /\ ConnectedRecord(r).refresh = snap[r].refresh
      BY DEF ConnectedRecord
    <2> QED
      BY <2>1, <2>2 DEF Writes, WriteSteps, Encrypt
  <1>3. CASE WriteRevoke(r) \/ WriteReconnectRequired(r)
    <2>1. PICK now : /\ pc[r] \in {"revoking", "marking"} /\ Put(r, RevokedRecord(snap[r], now))
                     /\ google' = google /\ pc'[r] = "done"
      BY <1>3 DEF WriteRevoke, WriteReconnectRequired, Answer
    <2>2. snap[r] \in Record
      BY <1>1, <2>1 DEF CallWellFormed
    <2>3. RevokedRecord(snap[r], now).refresh = None
      BY <2>2 DEF RevokedRecord, Record
    <2> QED
      BY <2>1, <2>3 DEF Writes, WriteSteps
  <1>4. CASE WriteRenewed(r)
    <2>1. /\ pc[r] \in {"renewing", "rotating"} /\ Put(r, RenewedRecord(r, pc[r] = "rotating"))
          /\ google' = google /\ pc'[r] \in {"done", "decrypting"}
          /\ pc'[r] = "decrypting" => arg[r].op = "access"
      BY <1>4 DEF WriteRenewed, Goto, Answer
    <2>2. snap[r] \in Record /\ snap[r] # None
      BY <1>1, <2>1, NoneAssumption DEF CallWellFormed
    <2>3. CASE pc[r] = "rotating"
      <3>1. RenewedRecord(r, pc[r] = "rotating").refresh = Encrypt(arg[r].key, snap[r].refresh.grant, r)
        BY <2>2, <2>3 DEF RenewedRecord, Record
      <3> QED
        BY <2>1, <2>3, <3>1 DEF Writes, WriteSteps, Encrypt
    <2>4. CASE pc[r] = "renewing"
      <3>1. RenewedRecord(r, pc[r] = "rotating").refresh = snap[r].refresh
        BY <2>2, <2>4 DEF RenewedRecord, Record
      <3> QED
        BY <2>1, <2>2, <2>4, <3>1 DEF Writes, WriteSteps
    <2> QED
      BY <2>1, <2>3, <2>4
  <1>5. CASE GoogleAnswers(r) \/ RefreshFails(r)
    <2>1. /\ pc[r] = "calling" /\ UNCHANGED <<store, snap, reply>>
          /\ pc'[r] \in {"renewing", "rotating", "marking"}
          /\ \/ google' = google /\ pc'[r] # "rotating"
             \/ /\ google[snap[r].refresh.grant] = snap[r].refresh.by
                /\ google' = [google EXCEPT ![snap[r].refresh.grant] = r]
                /\ pc'[r] \in {"rotating", "marking"}
      BY <1>5 DEF GoogleAnswers, RefreshFails, Goto, GoogleAccepts, table
    <2> QED
      BY <2>1 DEF Rotates, Idles
  <1>6. CASE RereadForAccess(r) \/ ReadForRefresh(r) \/ DecryptForAccess(r)
    BY <1>6 DEF RereadForAccess, ReadForRefresh, DecryptForAccess, Answer, Goto, table, Idles
  <1>7. CASE Abort(r)
    <2>1. /\ pc'[r] = "done" /\ reply'[r] = [kind |-> "failed", token |-> None]
          /\ UNCHANGED <<store, google>>
      BY <1>7 DEF Abort, Answer, table
    <2>2. [kind |-> "failed", token |-> None] \in Replies
      BY DEF Replies
    <2> QED
      BY <2>1, <2>2, NoneAssumption DEF Idles, MendingNext
  <1> QED
    BY <1>2, <1>3, <1>4, <1>5, <1>6, <1>7 DEF Continue

-----------------------------------------------------------------------------
(* Rotation.                                                               *)

\* Google puts a new token in the place of none that another call is about to
\* write: both would hold the stored record.
LEMMA RotatesAlone ==
    ASSUME Before, HolderInv, NEW r \in Requests, NEW q \in Requests \ {r},
           pc[r] = "calling", google[snap[r].refresh.grant] = snap[r].refresh.by,
           pc[q] = "rotating", ~Muddled(arg[q].key)
    PROVE  snap[q].refresh.grant # snap[r].refresh.grant
  <1> SUFFICES ASSUME snap[q].refresh.grant = snap[r].refresh.grant PROVE FALSE
    OBVIOUS
  <1> DEFINE token == snap[r].refresh
             k == arg[r].key
  <1>1. /\ snap[r] # None /\ token # None /\ token.grant \in Requests /\ token.by \in Requests
        /\ arg[token.grant].key = k /\ k \in Key /\ arg[q].key = k
    BY CallingGrant DEF Before
  <1>2. snap[r] = store[k] /\ snap[q] = store[k]
    BY <1>1, ClearHolds DEF Holding, WriteSteps
  <1>3. pc[token.by] \in {"decrypting", "done"}
    BY <1>1, <1>2 DEF HolderInv, TokenHeld
  <1>4. google[token.grant] \in {q, None}
    BY <1>1 DEF HolderInv, CallHolds
  <1> QED
    BY <1>1, <1>3, <1>4, NoneAssumption

LEMMA HolderRotates ==
    ASSUME Before, HolderInv, NEW r \in Requests, Rotates(r), OneCall(r),
           \A k : Muddled(k) => Muddled(k)'
    PROVE  HolderInv'
  <1> DEFINE grant == snap[r].refresh.grant
  <1> USE DEF Before
  <1>1. /\ grant \in Requests /\ pc[grant] = "done" /\ snap[r].refresh # None
        /\ google'[grant] = r /\ google' \in [Requests -> Requests \cup {None}]
        /\ \A g \in Requests \ {grant} : google'[g] = google[g]
    BY CallingGrant DEF Rotates, TypeInv, TypeOK
  <1>2. ASSUME NEW h \in Requests, h = r \/ Mending(h) PROVE MendingNext(h)
    BY <1>2 DEF Mending, MendingNext, OneCall, Rotates
  <1>3. ASSUME NEW k \in Key PROVE Muddled(k)' \/ TokenHeld(store[k])'
    <2>1. CASE ~Muddled(k) /\ store[k] # None /\ store[k].refresh # None
      <3> DEFINE token == store[k].refresh
      <3>1. token.grant \in Requests /\ token.by \in Requests
        BY <2>1, StoredGrant
      <3>2. /\ google[token.grant] \in {token.by, None} \/ Mending(google[token.grant])
            /\ pc[token.by] \in {"decrypting", "done"}
        BY <2>1 DEF HolderInv, TokenHeld
      <3>3. pc'[token.by] = pc[token.by]
        BY <3>1, <3>2 DEF OneCall, Rotates
      <3>4. google'[token.grant] \in {token.by, None} \/ MendingNext(google'[token.grant])
        <4>1. CASE token.grant = grant
          BY <1>1, <1>2, <4>1
        <4>2. CASE token.grant # grant
          <5>1. google'[token.grant] = google[token.grant]
            BY <1>1, <3>1, <4>2
          <5>2. google[token.grant] \in Requests \cup {None}
            BY <3>1 DEF TypeInv, TypeOK
          <5> QED
            BY <1>2, <3>2, <5>1, <5>2
        <4> QED
          BY <4>1, <4>2
      <3>5. UNCHANGED store
        BY DEF Rotates
      <3> QED
        BY <3>2, <3>3, <3>4, <3>5 DEF TokenHeld, Mending, MendingNext
    <2>2. CASE ~(store[k] # None /\ store[k].refresh # None)
      BY <2>2 DEF TokenHeld, Rotates
    <2> QED
      BY <2>1, <2>2
  <1>4. ASSUME NEW g \in Requests PROVE GrantPlaced(g)'
    <2>1. CASE g = grant
      BY <1>1, <2>1 DEF GrantPlaced, Rotates
    <2>2. CASE g # grant
      <3>1. GrantPlaced(g) /\ google'[g] = google[g] /\ google[g] \in Requests \cup {None}
        BY <1>1, <2>2 DEF HolderInv, TypeInv, TypeOK
      <3>2. google[g] # None => google[g] # r
        BY <3>1 DEF GrantPlaced, Rotates
      <3> QED
        BY <3>1, <3>2 DEF GrantPlaced, OneCall
    <2> QED
      BY <2>1, <2>2
  <1>5. ASSUME NEW q \in Requests PROVE CallHolds(q)'
    <2>1. CallHolds(q) /\ arg' = arg /\ snap' = snap
      BY DEF HolderInv, OneCall, Rotates
    <2>2. CASE q = r
      BY <1>1, <2>1, <2>2 DEF CallHolds, Rotates, Running
    <2>3. CASE q # r
      <3>1. pc'[q] = pc[q]
        BY <2>3 DEF OneCall
      <3>2. pc[q] = "connecting" => google'[q] \in {q, None}
        BY <1>1, <2>1 DEF CallHolds
      <3>3. ASSUME pc[q] = "rotating", ~Muddled(arg[q].key)
            PROVE  google'[snap[q].refresh.grant] \in {q, None}
        <4>1. snap[q].refresh.grant # grant
          BY <2>3, <3>3, RotatesAlone DEF Rotates
        <4>2. snap[q].refresh.grant \in Requests
          BY <3>3, CallingGrant
        <4> QED
          BY <1>1, <2>1, <3>3, <4>1, <4>2 DEF CallHolds
      <3>4. Muddled(arg[q].key) => Muddled(arg[q].key)'
        BY <2>1 DEF Muddled
      <3> QED
        BY <2>1, <3>1, <3>2, <3>3, <3>4 DEF CallHolds, Running
    <2> QED
      BY <2>2, <2>3
  <1> QED
    BY <1>3, <1>4, <1>5 DEF HolderInv

-----------------------------------------------------------------------------
(* The other steps.                                                        *)

LEMMA HolderIdles ==
    ASSUME Before, HolderInv, NEW r \in Requests, Idles(r), OneCall(r), DoneStays,
           \A k : Muddled(k) => Muddled(k)'
    PROVE  HolderInv'
  <1> USE DEF Before
  <1>1. ASSUME NEW h \in Requests, Mending(h) PROVE MendingNext(h)
    <2>1. CASE h # r
      BY <1>1, <2>1 DEF Mending, MendingNext, OneCall
    <2>2. CASE h = r
      <3>1. reply[r] = None
        BY DEF FreshInv, CallFresh, OneCall, Running
      <3> QED
        BY <1>1, <2>2, <3>1 DEF Mending, Idles
    <2> QED
      BY <2>1, <2>2
  <1>2. ASSUME NEW k \in Key PROVE Muddled(k)' \/ TokenHeld(store[k])'
    <2>1. CASE ~Muddled(k) /\ store[k] # None /\ store[k].refresh # None
      <3> DEFINE token == store[k].refresh
      <3>1. token.grant \in Requests /\ token.by \in Requests
        BY <2>1, StoredGrant
      <3>2. /\ google[token.grant] \in {token.by, None} \/ Mending(google[token.grant])
            /\ pc[token.by] \in {"decrypting", "done"}
        BY <2>1 DEF HolderInv, TokenHeld
      <3>3. pc'[token.by] \in {"decrypting", "done"}
        BY <3>1, <3>2 DEF OneCall, Idles, Running
      <3>4. google[token.grant] \in Requests \cup {None}
        BY <3>1 DEF TypeInv, TypeOK
      <3>5. google[token.grant] \in {token.by, None} \/ MendingNext(google[token.grant])
        BY <1>1, <3>2, <3>4
      <3> QED
        BY <3>3, <3>5 DEF TokenHeld, Mending, MendingNext, Idles
    <2>2. CASE ~(store[k] # None /\ store[k].refresh # None)
      BY <2>2 DEF TokenHeld, Idles
    <2> QED
      BY <2>1, <2>2
  <1>3. ASSUME NEW g \in Requests PROVE GrantPlaced(g)'
    <2>1. GrantPlaced(g) /\ google' = google /\ google[g] \in Requests \cup {None}
      BY DEF HolderInv, TypeInv, TypeOK, Idles
    <2>2. CASE google[g] = r
      BY <2>1, <2>2 DEF GrantPlaced, OneCall, Idles, Running
    <2>3. CASE google[g] # r
      BY <2>1, <2>3 DEF GrantPlaced, OneCall
    <2> QED
      BY <2>2, <2>3
  <1>4. ASSUME NEW q \in Requests PROVE CallHolds(q)'
    <2>1. CallHolds(q) /\ arg' = arg /\ google' = google
      BY DEF HolderInv, OneCall, Idles
    <2>2. CASE q = r
      BY <2>1, <2>2 DEF CallHolds, Idles, Running, OneCall
    <2>3. CASE q # r
      <3>1. Muddled(arg[q].key) => Muddled(arg[q].key)'
        BY <2>1 DEF Muddled
      <3> QED
        BY <2>1, <2>3, <3>1 DEF CallHolds, OneCall, Running
    <2> QED
      BY <2>2, <2>3
  <1> QED
    BY <1>2, <1>3, <1>4 DEF HolderInv

\* A record is written with a refresh token that Google accepts, or with the
\* one it had.
LEMMA HolderWrites ==
    ASSUME Before, HolderInv, NEW r \in Requests, Writes(r), OneCall(r), DoneStays,
           \A k : Muddled(k) => Muddled(k)'
    PROVE  HolderInv'
  <1> DEFINE k == arg[r].key
  <1> USE DEF Before
  <1>1. PICK rec : /\ Put(r, rec)
                   /\ \/ rec.refresh = None
                      \/ /\ pc[r] \in {"connecting", "rotating"} /\ rec.refresh.by = r
                         /\ rec.refresh.grant = IF pc[r] = "connecting" THEN r
                                                ELSE snap[r].refresh.grant
                      \/ /\ pc[r] \in {"connecting", "renewing"} /\ snap[r] # None
                         /\ rec.refresh = snap[r].refresh
    BY DEF Writes
  <1>2. /\ k \in Key /\ store'[k] = rec /\ \A j \in Key : j # k => store'[j] = store[j]
        /\ google' = google /\ arg' = arg
    BY <1>1, PutEffect DEF OneCall, Writes
  <1>3. ASSUME NEW h \in Requests, Mending(h), h # r PROVE MendingNext(h)
    BY <1>3 DEF Mending, MendingNext, OneCall
  <1>4. ASSUME NEW h \in Requests, pc[h] \in {"decrypting", "done"}
        PROVE  pc'[h] \in {"decrypting", "done"}
    BY <1>4 DEF OneCall, Writes
  <1>5. ASSUME NEW j \in Key, store[j] # None, store[j].refresh # None,
               google[store[j].refresh.grant] = r, Mending(r)
        PROVE  j = k /\ pc[r] \in {"rotating", "marking"}
    <2> DEFINE g == store[j].refresh.grant
    <2>1. g \in Requests /\ arg[g].key = j
      BY <1>5, StoredGrant
    <2>2. pc[r] \in {"rotating", "marking"}
      <3>1. reply[r] = None
        BY DEF FreshInv, CallFresh, OneCall, Running
      <3> QED
        BY <1>5, <3>1 DEF Mending
    <2>3. snap[r].refresh # None /\ g = snap[r].refresh.grant
      BY <1>5, <2>1, <2>2, NoneAssumption DEF HolderInv, GrantPlaced
    <2>4. arg[g].key = k
      <3>1. Settled(snap[r], k) /\ snap[r] \in Record
        BY <2>2 DEF OwnerInv, CallSettled, TypeInv, CallsWellFormed, CallWellFormed, Running
      <3> QED
        BY <2>3, <3>1, NoneAssumption DEF Settled, Owned
    <2> QED
      BY <2>1, <2>2, <2>4
  \* What the stored token of a record keeps when r does not hold its grant.
  <1>6. ASSUME NEW j \in Key, ~Muddled(j), store[j] # None, store[j].refresh # None,
               j # k \/ pc[r] \notin {"rotating", "marking"}
        PROVE  LET token == store[j].refresh IN
               /\ google[token.grant] \in {token.by, None} \/ MendingNext(google[token.grant])
               /\ pc'[token.by] \in {"decrypting", "done"}
    <2> DEFINE token == store[j].refresh
    <2>1. /\ token.grant \in Requests /\ token.by \in Requests
          /\ google[token.grant] \in Requests \cup {None}
      BY <1>6, StoredGrant DEF TypeInv, TypeOK
    <2>2. /\ google[token.grant] \in {token.by, None} \/ Mending(google[token.grant])
          /\ pc[token.by] \in {"decrypting", "done"}
      BY <1>6 DEF HolderInv, TokenHeld
    <2>3. ~(google[token.grant] = r /\ Mending(r))
      BY <1>5, <1>6
    <2> QED
      BY <1>3, <1>4, <2>1, <2>2, <2>3
  <1>7. ASSUME NEW j \in Key PROVE Muddled(j)' \/ TokenHeld(store[j])'
    <2> SUFFICES ASSUME ~Muddled(j) PROVE TokenHeld(store[j])'
      OBVIOUS
    <2>1. CASE j # k
      BY <1>2, <1>6, <2>1 DEF TokenHeld, Mending, MendingNext
    <2>2. CASE j = k
      <3>1. CASE rec.refresh = None
        BY <1>2, <2>2, <3>1 DEF TokenHeld
      <3>2. CASE /\ pc[r] \in {"connecting", "rotating"} /\ rec.refresh.by = r
                 /\ rec.refresh.grant = IF pc[r] = "connecting" THEN r ELSE snap[r].refresh.grant
        <4>1. google[rec.refresh.grant] \in {r, None}
          BY <2>2, <3>2 DEF HolderInv, CallHolds
        <4>2. pc'[r] \in {"decrypting", "done"}
          BY DEF Writes
        <4> QED
          BY <1>2, <2>2, <3>2, <4>1, <4>2 DEF TokenHeld
      <3>3. CASE /\ pc[r] \in {"connecting", "renewing"} /\ snap[r] # None
                 /\ rec.refresh = snap[r].refresh
        <4>1. snap[r] = store[k]
          BY <2>2, <3>3, ClearHolds DEF Holding, WriteSteps
        <4>2. rec.refresh = store[k].refresh /\ store[k] # None
          BY <3>3, <4>1
        <4>3. rec.refresh # None =>
                 /\ \/ google[rec.refresh.grant] \in {rec.refresh.by, None}
                    \/ MendingNext(google[rec.refresh.grant])
                 /\ pc'[rec.refresh.by] \in {"decrypting", "done"}
          BY <1>2, <1>6, <2>2, <3>3, <4>2
        <4> QED
          BY <1>2, <2>2, <4>3 DEF TokenHeld, Mending, MendingNext
      <3> QED
        BY <1>1, <3>1, <3>2, <3>3
    <2> QED
      BY <2>1, <2>2
  <1>8. ASSUME NEW g \in Requests PROVE GrantPlaced(g)'
    <2>1. GrantPlaced(g) /\ google[g] \in Requests \cup {None}
      BY DEF HolderInv, TypeInv, TypeOK
    <2>2. CASE google[g] = r
      BY <1>2, <2>1, <2>2 DEF GrantPlaced, Writes
    <2>3. CASE google[g] # r
      BY <1>2, <2>1, <2>3 DEF GrantPlaced, OneCall
    <2> QED
      BY <2>2, <2>3
  <1>9. ASSUME NEW q \in Requests PROVE CallHolds(q)'
    <2>1. CallHolds(q)
      BY DEF HolderInv
    <2>2. CASE q = r
      BY <1>2, <2>1, <2>2 DEF CallHolds, Writes, Running
    <2>3. CASE q # r
      <3>1. Muddled(arg[q].key) => Muddled(arg[q].key)'
        BY <1>2 DEF Muddled
      <3> QED
        BY <1>2, <2>1, <2>3, <3>1 DEF CallHolds, OneCall, Running
    <2> QED
      BY <2>2, <2>3
  <1> QED
    BY <1>7, <1>8, <1>9 DEF HolderInv

LEMMA HolderBegins ==
    ASSUME Before, HolderInv, NEW r \in Requests, Begin(r), DoneStays,
           \A k : Muddled(k) => Muddled(k)'
    PROVE  HolderInv'
  <1> USE DEF Before
  <1>1. pc[r] = "new" /\ UNCHANGED store /\ OthersStay(r)
    BY BeginsAlone
  <1>2. /\ pc'[r] \in {"done", "connecting", "rereading", "refreshing", "revoking"}
        /\ pc'[r] \in {"connecting", "rereading", "refreshing"} => arg'[r].op # "revoke"
        /\ \/ google' = google /\ pc'[r] # "connecting"
           \/ /\ pc'[r] = "connecting" /\ google'[r] \in {r, None}
              /\ \A g \in Requests \ {r} : google'[g] = google[g]
    <2> USE DEF TypeInv, TypeOK
    <2>1. ASSUME NEW k \in Key, NEW scopes \in GrantedScopes, NEW offline \in BOOLEAN,
                 BeginConnect(r, k, scopes, offline)
          PROVE  /\ pc'[r] = "connecting" /\ arg'[r].op # "revoke" /\ google'[r] \in {r, None}
                 /\ \A g \in Requests \ {r} : google'[g] = google[g]
      BY <2>1 DEF BeginConnect, Accept, Goto
    <2>2. ASSUME NEW k \in Key, NEW required \in RequiredScopes, BeginAccess(r, k, required)
          PROVE  google' = google /\ pc'[r] \in {"done", "rereading"} /\ arg'[r].op # "revoke"
      BY <2>2 DEF BeginAccess, Accept, Goto, Answer
    <2>3. ASSUME NEW k \in Key, BeginRefresh(r, k)
          PROVE  google' = google /\ pc'[r] = "refreshing" /\ arg'[r].op # "revoke"
      BY <2>3 DEF BeginRefresh, Accept, Goto
    <2>4. ASSUME NEW k \in Key, BeginRevoke(r, k)
          PROVE  google' = google /\ pc'[r] \in {"done", "revoking"}
      BY <2>4 DEF BeginRevoke, Goto, Answer
    <2>5. ASSUME NEW u \in Users,
                 RefuseNonMember(r, u) \/ \E applies \in BOOLEAN : RefuseInput(r, u, applies)
          PROVE  google' = google /\ pc'[r] = "done"
      BY <2>5 DEF RefuseNonMember, RefuseInput, Answer
    <2> QED
      BY <2>1, <2>2, <2>3, <2>4, <2>5 DEF Begin
  <1>3. \A g \in Requests : pc[g] = "done" => google'[g] = google[g]
    BY <1>1, <1>2
  <1>4. \A h \in Requests : Mending(h) => MendingNext(h)
    <2>1. ~Mending(r)
      BY <1>1 DEF Mending, FreshInv, CallFresh
    <2> QED
      BY <1>1, <2>1 DEF Mending, MendingNext, OthersStay
  <1>5. ASSUME NEW k \in Key PROVE Muddled(k)' \/ TokenHeld(store[k])'
    <2>1. CASE ~Muddled(k) /\ store[k] # None /\ store[k].refresh # None
      <3> DEFINE token == store[k].refresh
      <3>1. token.grant \in Requests /\ token.by \in Requests /\ pc[token.grant] = "done"
        BY <2>1, StoredGrant
      <3>2. /\ google[token.grant] \in {token.by, None} \/ Mending(google[token.grant])
            /\ pc[token.by] \in {"decrypting", "done"}
        BY <2>1 DEF HolderInv, TokenHeld
      <3>3. pc'[token.by] \in {"decrypting", "done"}
        BY <1>1, <3>1, <3>2 DEF OthersStay
      <3>4. google'[token.grant] = google[token.grant]
            /\ google[token.grant] \in Requests \cup {None}
        BY <1>3, <3>1 DEF TypeInv, TypeOK
      <3>5. google'[token.grant] \in {token.by, None} \/ MendingNext(google'[token.grant])
        BY <1>4, <3>2, <3>4
      <3> QED
        BY <1>1, <3>3, <3>5 DEF TokenHeld, Mending, MendingNext
    <2>2. CASE ~(store[k] # None /\ store[k].refresh # None)
      BY <1>1, <2>2 DEF TokenHeld
    <2> QED
      BY <2>1, <2>2
  <1>6. ASSUME NEW g \in Requests PROVE GrantPlaced(g)'
    <2>1. GrantPlaced(g) /\ google[g] \in Requests \cup {None}
      BY DEF HolderInv, TypeInv, TypeOK
    <2>2. google[g] # r \/ google[g] = None
      BY <1>1, <2>1 DEF GrantPlaced
    <2>3. CASE google'[g] = google[g]
      BY <1>1, <2>1, <2>2, <2>3 DEF GrantPlaced, OthersStay
    <2>4. CASE google'[g] # google[g]
      <3>1. g = r /\ pc'[r] = "connecting" /\ google'[r] \in {r, None}
        BY <1>2, <2>4
      <3> QED
        BY <3>1 DEF GrantPlaced
    <2> QED
      BY <2>3, <2>4
  <1>7. ASSUME NEW q \in Requests PROVE CallHolds(q)'
    <2>1. CASE q = r
      BY <1>2, <2>1 DEF CallHolds, Running
    <2>2. CASE q # r
      <3>1. CallHolds(q) /\ pc'[q] = pc[q] /\ arg'[q] = arg[q] /\ snap'[q] = snap[q]
        BY <1>1, <2>2 DEF HolderInv, OthersStay
      <3>2. google'[q] = google[q]
        BY <1>2, <2>2
      <3>3. pc[q] = "rotating" => google'[snap[q].refresh.grant] = google[snap[q].refresh.grant]
        BY <1>3, CallingGrant
      <3>4. Muddled(arg[q].key) => Muddled(arg[q].key)'
        BY <3>1 DEF Muddled
      <3> QED
        BY <3>1, <3>2, <3>3, <3>4 DEF CallHolds, Running
    <2> QED
      BY <2>1, <2>2
  <1> QED
    BY <1>5, <1>6, <1>7 DEF HolderInv

LEMMA HolderInvNext ==
    ASSUME Before, HolderInv, [Next]_vars
    PROVE  HolderInv'
  <1>1. DoneStays
    BY AnsweredStaysAnswered DEF Before
  <1>2. ASSUME NEW r \in Requests, Begin(r) PROVE HolderInv'
    BY <1>1, <1>2, MuddledStays, HolderBegins
  <1>3. ASSUME NEW r \in Requests, Continue(r) \/ GoogleAnswers(r) \/ Abort(r) PROVE HolderInv'
    <2>1. OneCall(r) /\ \A k : Muddled(k) => Muddled(k)'
      BY <1>3, ContinuesAlone, MuddledStays DEF Before
    <2>2. Rotates(r) \/ Writes(r) \/ Idles(r)
      BY <1>3, CallEffect DEF Before
    <2> QED
      BY <1>1, <2>1, <2>2, HolderRotates, HolderWrites, HolderIdles
  <1>4. ASSUME UNCHANGED <<store, calls, history>>,
               \A j \in Requests : google'[j] \in {google[j], None}
        PROVE  HolderInv'
    <2>1. UNCHANGED <<pc, arg, snap, reply, overtaken, misled>>
      BY <1>4 DEF calls, history
    <2>2. ASSUME NEW k \in Key PROVE Muddled(k)' \/ TokenHeld(store[k])'
      <3>1. store[k] # None /\ store[k].refresh # None => store[k].refresh.grant \in Requests
        BY StoredGrant DEF Before
      <3> QED
        BY <1>4, <2>1, <3>1 DEF HolderInv, TokenHeld, Mending, Muddled, Raced
    <2>3. ASSUME NEW g \in Requests PROVE GrantPlaced(g)'
      BY <1>4, <2>1 DEF HolderInv, GrantPlaced
    <2>4. ASSUME NEW r \in Requests PROVE CallHolds(r)'
      <3>1. pc[r] = "rotating" => snap[r].refresh.grant \in Requests
        BY CallingGrant DEF Before
      <3> QED
        BY <1>4, <2>1, <3>1 DEF HolderInv, CallHolds, Running, Muddled, Raced
    <2> QED
      BY <2>2, <2>3, <2>4 DEF HolderInv
  <1>5. ASSUME NEW g \in Requests, GoogleRevokes(g)
        PROVE  /\ UNCHANGED <<store, calls, history>>
               /\ \A j \in Requests : google'[j] \in {google[j], None}
    BY <1>5 DEF GoogleRevokes, table, Before, TypeInv, TypeOK
  <1>6. ASSUME (\E k \in Key : Replicate(k)) \/ Tick \/ UNCHANGED vars
        PROVE  UNCHANGED <<store, google, calls, history>>
    BY <1>6 DEF Replicate, Tick, vars, table, calls, history
  <1> QED
    BY <1>2, <1>3, <1>4, <1>5, <1>6 DEF Next

\* The refresh token of an active record is replaced at Google and lost only by
\* a call that is still under way, by one that died before its write, or where a
\* call that writes tokens was raced.
THEOREM StrandsHaveCause == Spec => []StrandedHasCause
  <1>1. Init => Before /\ HolderInv
    BY BeforeInit, HolderInvInit
  <1>2. Before /\ HolderInv /\ [Next]_vars => Before' /\ HolderInv'
    BY BeforeNext, HolderInvNext
  <1>3. HolderInv => StrandedHasCause
    BY DEF HolderInv, TokenHeld, Mending, StrandedHasCause
  <1> QED
    BY <1>1, <1>2, <1>3, PTL DEF Spec

=============================================================================
