--------------------------- MODULE DisconnectProofs ---------------------------
(***************************************************************************)
(* What becomes of a disconnect, of a token handed out and of a connection *)
(* under every interleaving and with stale reads: a call that no other     *)
(* overtook and no read misled writes and serves the record of the table.  *)
(***************************************************************************)
EXTENDS OAuthTokensProofs

\* The grants of the three records the service writes.
LEMMA RevokedGrants ==
    ASSUME NEW rec \in Record, NEW now
    PROVE  GrantsOf(RevokedRecord(rec, now)) = {}
  BY DEF GrantsOf, RevokedRecord, Record

LEMMA ConnectedGrants ==
    ASSUME NEW r \in Requests
    PROVE  GrantsOf(ConnectedRecord(r)) \subseteq {r} \cup GrantsOf(snap[r])
  BY DEF GrantsOf, ConnectedRecord, Encrypt

LEMMA RenewedGrants ==
    ASSUME NEW r \in Requests, snap[r] \in Record, snap[r].refresh # None, NEW rotated \in BOOLEAN
    PROVE  GrantsOf(RenewedRecord(r, rotated)) \subseteq GrantsOf(snap[r])
  <1>1. RenewedRecord(r, rotated).access.grant = snap[r].refresh.grant
    BY DEF RenewedRecord, Encrypt, Record
  <1>2. RenewedRecord(r, rotated).refresh.grant = snap[r].refresh.grant
    BY DEF RenewedRecord, Encrypt, Record
  <1>3. snap[r].refresh.grant \in GrantsOf(snap[r])
    BY NoneAssumption DEF GrantsOf
  <1> QED
    BY <1>1, <1>2, <1>3 DEF GrantsOf

\* The grants a record keeps are those of settled tokens.
LEMMA SettledGrants ==
    ASSUME NEW k, NEW rec, Settled(rec, k), NEW g \in GrantsOf(rec)
    PROVE  arg[g].key = k /\ pc[g] = "done"
  BY DEF Settled, Owned, GrantsOf

-----------------------------------------------------------------------------
(* What a step does to the calls that do not take it, to the table and to  *)
(* the calls known to be raced.                                            *)

OthersStay(r) ==
    \A q \in Requests \ {r} : /\ pc'[q] = pc[q] /\ arg'[q] = arg[q]
                              /\ snap'[q] = snap[q] /\ reply'[q] = reply[q]

LEMMA BeginsAlone ==
    ASSUME TypeInv, NEW r \in Requests, Begin(r)
    PROVE  /\ pc[r] = "new" /\ OthersStay(r)
           /\ UNCHANGED <<clock, store, severed, quiet, overtaken>>
           /\ misled' \in {misled, misled \cup {r}}
  <1>1. pc[r] = "new" /\ UNCHANGED <<clock, store, severed, quiet, overtaken>>
    BY DEF Begin, RefuseNonMember, RefuseInput, BeginConnect, BeginAccess, BeginRefresh,
           BeginRevoke, Accept, MayBegin, table, history
  <1>2. misled' \in {misled, misled \cup {r}}
    BY DEF Begin, RefuseNonMember, RefuseInput, BeginConnect, BeginAccess, BeginRefresh,
           BeginRevoke, NoteRead, history
  <1>3. OthersStay(r)
    BY DEF Begin, RefuseNonMember, RefuseInput, BeginConnect, BeginAccess, BeginRefresh,
           BeginRevoke, Accept, Goto, Answer, Hold, TypeInv, TypeOK, OthersStay
  <1> QED
    BY <1>1, <1>2, <1>3

\* A call that begins holds the record of the table, unless it was misled.
LEMMA BeginsHolding ==
    ASSUME TypeInv, NEW r \in Requests, Begin(r)
    PROVE  \/ pc'[r] = "done"
           \/ pc'[r] \in {"rereading", "refreshing"} /\ reply'[r] = reply[r]
           \/ /\ pc'[r] \in {"connecting", "revoking"} /\ reply'[r] = reply[r]
              /\ arg'[r].key \in Key
              /\ snap'[r] = store[arg'[r].key] \/ r \in misled'
  <1>1. ASSUME NEW k \in Key, NEW scopes \in GrantedScopes, NEW offline \in BOOLEAN,
               BeginConnect(r, k, scopes, offline)
        PROVE  /\ pc'[r] = "connecting" /\ reply'[r] = reply[r] /\ arg'[r].key = k
               /\ snap'[r] = store[k] \/ r \in misled'
    BY <1>1 DEF BeginConnect, Accept, Hold, NoteRead, Goto, TypeInv, TypeOK
  <1>2. ASSUME NEW k \in Key, BeginRevoke(r, k)
        PROVE  \/ pc'[r] = "done"
               \/ /\ pc'[r] = "revoking" /\ reply'[r] = reply[r] /\ arg'[r].key = k
                  /\ snap'[r] = store[k] \/ r \in misled'
    BY <1>2 DEF BeginRevoke, Accept, Hold, NoteRead, Goto, Answer, TypeInv, TypeOK
  <1>3. ASSUME NEW k \in Key, NEW required \in RequiredScopes, BeginAccess(r, k, required)
        PROVE  pc'[r] = "done" \/ (pc'[r] = "rereading" /\ reply'[r] = reply[r])
    BY <1>3 DEF BeginAccess, Goto, Answer, TypeInv, TypeOK
  <1>4. ASSUME NEW k \in Key, BeginRefresh(r, k)
        PROVE  pc'[r] = "refreshing" /\ reply'[r] = reply[r]
    BY <1>4 DEF BeginRefresh, Goto, TypeInv, TypeOK
  <1>5. ASSUME NEW u \in Users,
               RefuseNonMember(r, u) \/ \E applies \in BOOLEAN : RefuseInput(r, u, applies)
        PROVE  pc'[r] = "done"
    BY <1>5 DEF RefuseNonMember, RefuseInput, Answer, TypeInv, TypeOK
  <1> QED
    BY <1>1, <1>2, <1>3, <1>4, <1>5 DEF Begin

\* A running call writes its own record or none, and only reading misleads it.
LEMMA ContinuesKept ==
    ASSUME TypeInv, NEW r \in Requests, Continue(r) \/ GoogleAnswers(r) \/ Abort(r)
    PROVE  /\ OneCall(r) /\ OthersStay(r)
           /\ \/ UNCHANGED <<store, overtaken>> /\ misled' \in {misled, misled \cup {r}}
              \/ /\ pc[r] \in WriteSteps /\ UNCHANGED misled
                 /\ \E rec : Put(r, rec)
  <1>1. OneCall(r) /\ OthersStay(r)
    BY ContinuesAlone DEF OneCall, OthersStay
  <1>2. CASE WriteConnect(r) \/ WriteRevoke(r) \/ WriteRenewed(r) \/ WriteReconnectRequired(r)
    BY <1>1, <1>2 DEF WriteConnect, WriteRevoke, WriteRenewed, WriteReconnectRequired, WriteSteps
  <1>3. CASE RereadForAccess(r) \/ ReadForRefresh(r)
    BY <1>1, <1>3 DEF RereadForAccess, ReadForRefresh, NoteRead, table
  <1>4. CASE RefreshFails(r) \/ DecryptForAccess(r) \/ GoogleAnswers(r) \/ Abort(r)
    BY <1>1, <1>4 DEF RefreshFails, DecryptForAccess, GoogleAnswers, Abort, table, history
  <1> QED
    BY <1>2, <1>3, <1>4 DEF Continue

\* A put changes the table under one key and overtakes the other calls on it.
LEMMA PutEffect ==
    ASSUME TypeInv, NEW r \in Requests, Running(r), NEW rec, Put(r, rec)
    PROVE  /\ arg[r].key \in Key
           /\ store' = [store EXCEPT ![arg[r].key] = rec]
           /\ store'[arg[r].key] = rec
           /\ \A k \in Key : k # arg[r].key => store'[k] = store[k]
           /\ overtaken' = overtaken \cup Overtakes(r)
           /\ \A q \in Requests \ {r} :
                 Running(q) /\ arg[q].key = arg[r].key => q \in overtaken'
  <1>1. arg[r].key \in Key
    BY DEF TypeInv, CallsWellFormed, CallWellFormed, Arg
  <1> QED
    BY <1>1 DEF Put, Overwrite, Overtakes, TypeInv, TypeOK

\* A call that was raced remains so, with its arguments; only running calls
\* and the one that takes the step become so.
LEMMA RacedGrows ==
    ASSUME TypeInv, NEW r \in Requests,
           \/ Begin(r)
           \/ Continue(r) \/ GoogleAnswers(r) \/ Abort(r)
    PROVE  /\ Raced \subseteq Raced' /\ misled \subseteq misled'
           /\ \A q \in Requests \ {r} : q \in Raced' => q \in Raced \/ Running(q)
           /\ \A q \in Requests \ {r} : q \in misled' => q \in misled
           /\ \A q \in Requests : pc[q] # "new" => arg'[q] = arg[q]
  <1>1. CASE Begin(r)
    BY <1>1, BeginsAlone DEF Raced, OthersStay
  <1>2. CASE Continue(r) \/ GoogleAnswers(r) \/ Abort(r)
    <2>1. /\ OneCall(r)
          /\ \/ UNCHANGED overtaken /\ misled' \in {misled, misled \cup {r}}
             \/ UNCHANGED misled /\ \E rec : Put(r, rec)
      BY <1>2, ContinuesKept
    <2>2. ASSUME NEW rec, Put(r, rec) PROVE overtaken' = overtaken \cup Overtakes(r)
      BY <2>2 DEF Put, Overwrite
    <2> QED
      BY <2>1, <2>2 DEF Raced, Overtakes, OneCall
  <1> QED
    BY <1>1, <1>2

-----------------------------------------------------------------------------
(* A calm call holds the record of the table.  This is what its writes and *)
(* its answer rest on.                                                     *)

Holding == WriteSteps \cup {"decrypting"}

CallFresh(r) ==
    /\ pc[r] = "new" => r \notin Raced
    /\ pc[r] # "done" => reply[r] = None
    /\ pc[r] \in Holding /\ r \notin Raced => snap[r] = store[arg[r].key]

FreshInv == \A r \in Requests : CallFresh(r)

LEMMA FreshInvInit == Init => FreshInv
  BY DEF Init, FreshInv, CallFresh, Raced, Holding, WriteSteps

\* The calls that do not take the step.
LEMMA OtherStaysFresh ==
    ASSUME TypeInv, FreshInv, NEW r \in Requests, NEW q \in Requests \ {r},
           OthersStay(r), Raced \subseteq Raced',
           q \in Raced' => q \in Raced \/ Running(q),
           UNCHANGED store \/ (Running(r) /\ \E rec : Put(r, rec))
    PROVE  CallFresh(q)'
  <1>1. pc'[q] = pc[q] /\ arg'[q] = arg[q] /\ snap'[q] = snap[q] /\ reply'[q] = reply[q]
    BY DEF OthersStay
  <1>2. CallFresh(q)
    BY DEF FreshInv
  <1>3. ASSUME pc[q] \in Holding, q \notin Raced' PROVE snap[q] = store'[arg[q].key]
    <2>1. Running(q) /\ arg[q].key \in Key /\ snap[q] = store[arg[q].key]
      BY <1>2, <1>3 DEF CallFresh, Holding, WriteSteps, Running, TypeInv, CallsWellFormed,
                        CallWellFormed, Arg
    <2>2. ASSUME NEW rec, Running(r), Put(r, rec) PROVE store'[arg[q].key] = store[arg[q].key]
      <3>1. arg[q].key # arg[r].key
        BY <1>3, <2>1, <2>2, PutEffect DEF Raced
      <3> QED
        BY <2>1, <2>2, <3>1, PutEffect
    <2> QED
      BY <2>1, <2>2
  <1> QED
    BY <1>1, <1>2, <1>3 DEF CallFresh, Running

LEMMA FreshBegin ==
    ASSUME TypeInv, FreshInv, NEW r \in Requests, Begin(r)
    PROVE  FreshInv'
  <1>1. /\ pc[r] = "new" /\ OthersStay(r) /\ UNCHANGED store /\ reply[r] = None
    BY BeginsAlone DEF FreshInv, CallFresh
  <1>2. CallFresh(r)'
    BY <1>1, BeginsHolding DEF CallFresh, Holding, WriteSteps, Raced
  <1>3. ASSUME NEW q \in Requests \ {r} PROVE CallFresh(q)'
    BY <1>1, RacedGrows, OtherStaysFresh
  <1> QED
    BY <1>2, <1>3 DEF FreshInv

LEMMA FreshContinue ==
    ASSUME TypeInv, FreshInv, NEW r \in Requests, Continue(r) \/ GoogleAnswers(r) \/ Abort(r)
    PROVE  FreshInv'
  <1> DEFINE k == arg[r].key
  <1>1. /\ OneCall(r) /\ OthersStay(r) /\ Running(r)
        /\ UNCHANGED store \/ \E rec : Put(r, rec)
    BY ContinuesKept DEF OneCall
  <1>2. /\ CallFresh(r) /\ reply[r] = None /\ arg' = arg /\ k \in Key
        /\ pc[r] \notin {"new", "done"}
    BY <1>1 DEF FreshInv, CallFresh, Running, OneCall, TypeInv, CallsWellFormed, CallWellFormed, Arg
  <1>3. ASSUME pc'[r] = "done" PROVE CallFresh(r)'
    BY <1>3 DEF CallFresh, Holding, WriteSteps
  <1>4. ASSUME \/ WriteConnect(r) \/ WriteRevoke(r) \/ WriteReconnectRequired(r)
               \/ DecryptForAccess(r) \/ Abort(r)
        PROVE  CallFresh(r)'
    BY <1>3, <1>4 DEF WriteConnect, WriteRevoke, WriteReconnectRequired, DecryptForAccess, Abort,
                      Answer, TypeInv, TypeOK
  <1>5. ASSUME WriteRenewed(r) PROVE CallFresh(r)'
    <2>1. PICK rec : /\ Put(r, rec)
                     /\ \/ Goto(r, "decrypting") /\ Hold(r, rec, stamp[r])
                        \/ Answer(r, "refreshed", None)
      BY <1>5 DEF WriteRenewed
    <2>2. store'[k] = rec
      BY <1>1, <2>1, PutEffect
    <2>3. CASE Goto(r, "decrypting") /\ Hold(r, rec, stamp[r])
      <3>1. pc'[r] = "decrypting" /\ snap'[r] = rec /\ reply'[r] = None
        BY <1>2, <2>3 DEF Goto, Hold, TypeInv, TypeOK
      <3> QED
        BY <1>2, <2>2, <3>1 DEF CallFresh
    <2>4. CASE Answer(r, "refreshed", None)
      BY <1>3, <2>4 DEF Answer, TypeInv, TypeOK
    <2> QED
      BY <2>1, <2>3, <2>4
  <1>6. ASSUME RereadForAccess(r) \/ ReadForRefresh(r) PROVE CallFresh(r)'
    <2>1. /\ UNCHANGED store
          /\ \/ pc'[r] = "done"
             \/ pc'[r] = "refreshing" /\ reply' = reply
             \/ /\ pc'[r] \in {"decrypting", "calling"} /\ reply' = reply
                /\ snap'[r] = store[k] \/ r \in misled'
      BY <1>6 DEF RereadForAccess, ReadForRefresh, NoteRead, Answer, Goto, Hold, table,
                  TypeInv, TypeOK
    <2> QED
      BY <1>2, <1>3, <2>1 DEF CallFresh, Holding, WriteSteps, Raced
  <1>7. ASSUME GoogleAnswers(r) \/ RefreshFails(r) PROVE CallFresh(r)'
    <2>1. /\ UNCHANGED <<store, snap, reply, misled, overtaken>> /\ pc[r] \in Holding
          /\ pc'[r] \in {"renewing", "rotating", "marking"}
      BY <1>7 DEF GoogleAnswers, RefreshFails, Goto, table, history, Holding, WriteSteps,
                  TypeInv, TypeOK
    <2> QED
      BY <1>2, <2>1 DEF CallFresh, Raced
  <1>8. CallFresh(r)'
    BY <1>4, <1>5, <1>6, <1>7 DEF Continue
  <1>9. ASSUME NEW q \in Requests \ {r} PROVE CallFresh(q)'
    BY <1>1, RacedGrows, OtherStaysFresh
  <1> QED
    BY <1>8, <1>9 DEF FreshInv

LEMMA FreshInvNext == TypeInv /\ FreshInv /\ [Next]_vars => FreshInv'
  <1> SUFFICES ASSUME TypeInv, FreshInv, [Next]_vars PROVE FreshInv'
    OBVIOUS
  <1>1. ASSUME NEW r \in Requests, Begin(r) PROVE FreshInv'
    BY <1>1, FreshBegin
  <1>2. ASSUME NEW r \in Requests, Continue(r) \/ GoogleAnswers(r) \/ Abort(r) PROVE FreshInv'
    BY <1>2, FreshContinue
  <1>3. CASE UNCHANGED <<store, pc, arg, snap, reply, misled, overtaken>>
    BY <1>3 DEF FreshInv, CallFresh, Raced
  <1> QED
    BY <1>1, <1>2, <1>3
       DEF Next, GoogleRevokes, Replicate, Tick, vars, calls, table, history
-----------------------------------------------------------------------------
(* Under a key no call on which was misled, neither the table nor a call   *)
(* that will write keeps a token of a grant that was quietly disconnected. *)
(* The calls that will write are what the property alone does not speak    *)
(* of: they are how it would come undone.                                  *)

Strayed(k) == \E q \in misled : arg[q].key = k
StrayedNext(k) == \E q \in misled' : arg'[q].key = k
NoneQuiet(rec) == GrantsOf(rec) \cap quiet = {}

KeyQuiet(k) ==
    /\ NoneQuiet(store[k])
    /\ \A r \in Requests : pc[r] \in WriteSteps /\ arg[r].key = k => NoneQuiet(snap[r])

QuietInv ==
    /\ quiet \subseteq {g \in Requests : pc[g] = "done"}
    /\ \A k \in Key : Strayed(k) \/ KeyQuiet(k)

LEMMA QuietInvInit == Init => QuietInv
  BY DEF Init, QuietInv, KeyQuiet, NoneQuiet, GrantsOf, WriteSteps

\* A misled call keeps its key.
LEMMA StrayedStays ==
    ASSUME FreshInv, misled \subseteq misled', misled \subseteq Requests,
           \A q \in Requests : pc[q] # "new" => arg'[q] = arg[q],
           NEW k, Strayed(k)
    PROVE  StrayedNext(k)
  BY DEF FreshInv, CallFresh, Raced, Strayed, StrayedNext

\* A step that disconnects nothing and puts or holds no grant but those of the
\* table, of the call itself or of its record keeps the invariant.
LEMMA QuietStays ==
    ASSUME TypeInv, FreshInv, DoneStays, QuietInv, UNCHANGED quiet, NEW r \in Requests,
           OthersStay(r), \A k \in Key : Strayed(k) => StrayedNext(k),
           pc'[r] \in WriteSteps /\ arg'[r].key \in Key =>
               StrayedNext(arg'[r].key) \/ GrantsOf(snap'[r]) \cap quiet = {},
           \/ UNCHANGED store
           \/ /\ pc[r] \in WriteSteps
              /\ \E rec : Put(r, rec) /\ GrantsOf(rec) \subseteq {r} \cup GrantsOf(snap[r])
    PROVE  QuietInv'
  <1>1. quiet' \subseteq {g \in Requests : pc'[g] = "done"}
    BY DEF QuietInv, DoneStays
  <1>2. ASSUME NEW k \in Key, ~StrayedNext(k) PROVE KeyQuiet(k)'
    <2>1. ~Strayed(k) /\ KeyQuiet(k)
      BY <1>2 DEF QuietInv
    <2>2. GrantsOf(store'[k]) \cap quiet = {}
      <3>1. ASSUME NEW rec, Put(r, rec), pc[r] \in WriteSteps, arg[r].key = k,
                   GrantsOf(rec) \subseteq {r} \cup GrantsOf(snap[r])
            PROVE  GrantsOf(rec) \cap quiet = {}
        BY <2>1, <3>1 DEF KeyQuiet, NoneQuiet, QuietInv, WriteSteps
      <3>2. ASSUME NEW rec, Put(r, rec), pc[r] \in WriteSteps
            PROVE  store'[k] = store[k] \/ (store'[k] = rec /\ arg[r].key = k)
        BY <3>2, PutEffect DEF Running, WriteSteps
      <3>3. GrantsOf(store[k]) \cap quiet = {}
        BY <2>1 DEF KeyQuiet, NoneQuiet
      <3>4. CASE UNCHANGED store
        BY <3>3, <3>4
      <3>5. ASSUME NEW rec, Put(r, rec), pc[r] \in WriteSteps,
                   GrantsOf(rec) \subseteq {r} \cup GrantsOf(snap[r])
            PROVE  GrantsOf(store'[k]) \cap quiet = {}
        BY <3>1, <3>2, <3>3, <3>5
      <3> QED
        BY <3>4, <3>5
    <2>3. ASSUME NEW q \in Requests, pc'[q] \in WriteSteps, arg'[q].key = k
          PROVE  GrantsOf(snap'[q]) \cap quiet = {}
      <3>1. CASE q = r
        BY <1>2, <2>3, <3>1
      <3>2. CASE q # r
        BY <2>1, <2>3, <3>2 DEF OthersStay, KeyQuiet, NoneQuiet
      <3> QED
        BY <3>1, <3>2
    <2> QED
      BY <2>2, <2>3 DEF KeyQuiet, NoneQuiet, GrantsOf
  <1> QED
    BY <1>1, <1>2 DEF QuietInv, Strayed, StrayedNext

\* A disconnect adds to quiet the grants of one key, which only calls on that
\* key could hold, and only when none does.
LEMMA QuietRevoke ==
    ASSUME TypeInv, OwnerInv, FreshInv, DoneStays, QuietInv, NEW r \in Requests, WriteRevoke(r)
    PROVE  QuietInv'
  <1> DEFINE k == arg[r].key
             removed == GrantsOf(store[k])
  <1>1. /\ Running(r) /\ arg[r] \in Arg /\ k \in Key /\ snap[r] \in Record /\ stamp[r] \in Nat
        /\ arg' = arg /\ misled' = misled
    BY DEF WriteRevoke, Running, TypeInv, TypeOK, CallsWellFormed, CallWellFormed, Arg
  <1>2. GrantsOf(RevokedRecord(snap[r], stamp[r])) = {}
    BY <1>1, RevokedGrants
  <1>3. /\ store' = [store EXCEPT ![k] = RevokedRecord(snap[r], stamp[r])]
        /\ quiet' = quiet \/ (quiet' = quiet \cup removed /\ Uncontended(r, k))
        /\ pc'[r] = "done"
        /\ \A q \in Requests \ {r} : pc'[q] = pc[q] /\ snap'[q] = snap[q]
    BY <1>1 DEF WriteRevoke, Put, Answer, Forget, Hold, TypeInv, TypeOK
  <1>4. \A g \in removed : g \in Requests /\ arg[g].key = k /\ pc[g] = "done"
    <2>1. removed \subseteq Requests
      BY <1>1 DEF GrantsOf, TypeInv, TypeOK, Record, Ciphertext
    <2>2. Settled(store[k], k)
      BY <1>1 DEF OwnerInv, TableSettled, Read
    <2> QED
      BY <2>1, <2>2, SettledGrants
  <1>5. quiet' \subseteq {g \in Requests : pc'[g] = "done"}
    BY <1>3, <1>4 DEF QuietInv, DoneStays
  <1>6. ASSUME NEW j \in Key, KeyQuiet(j) PROVE GrantsOf(store'[j]) \cap quiet' = {}
    <2>1. CASE j = k
      BY <1>1, <1>2, <1>3, <2>1 DEF TypeInv, TypeOK
    <2>2. CASE j # k
      <3>1. store'[j] = store[j] /\ GrantsOf(store[j]) \cap quiet = {}
        BY <1>3, <1>6, <2>2 DEF KeyQuiet, NoneQuiet
      <3>2. \A g \in GrantsOf(store[j]) : arg[g].key = j
        BY SettledGrants DEF OwnerInv, TableSettled, Read
      <3> QED
        BY <1>3, <1>4, <2>2, <3>1, <3>2
    <2> QED
      BY <2>1, <2>2
  <1>7. ASSUME NEW j \in Key, KeyQuiet(j),
               NEW q \in Requests, pc'[q] \in WriteSteps, arg[q].key = j
        PROVE  GrantsOf(snap'[q]) \cap quiet' = {}
    <2>1. q # r /\ pc[q] \in WriteSteps /\ snap'[q] = snap[q]
      BY <1>3, <1>7 DEF WriteSteps
    <2>2. GrantsOf(snap[q]) \cap quiet = {}
      BY <1>7, <2>1 DEF KeyQuiet, NoneQuiet
    <2>3. \A g \in GrantsOf(snap[q]) : arg[g].key = arg[q].key
      <3>1. Settled(snap[q], arg[q].key)
        BY <2>1 DEF OwnerInv, CallSettled, Running, WriteSteps
      <3> QED
        BY <3>1, SettledGrants
    <2>4. CASE quiet' = quiet
      BY <2>1, <2>2, <2>4
    <2>5. CASE quiet' = quiet \cup removed /\ Uncontended(r, k)
      <3>1. arg[q].key # k
        BY <2>1, <2>5 DEF Uncontended
      <3> QED
        BY <1>4, <2>1, <2>2, <2>3, <2>5, <3>1
    <2> QED
      BY <1>3, <2>4, <2>5
  <1>8. ASSUME NEW j \in Key, KeyQuiet(j) PROVE KeyQuiet(j)'
    <2>1. GrantsOf(store'[j]) \cap quiet' = {}
      BY <1>6, <1>8
    <2>2. \A q \in Requests : pc'[q] \in WriteSteps /\ arg'[q].key = j =>
                                 GrantsOf(snap'[q]) \cap quiet' = {}
      BY <1>1, <1>7, <1>8
    <2> QED
      BY <2>1, <2>2 DEF KeyQuiet, NoneQuiet, GrantsOf
  <1>9. \A j \in Key : Strayed(j) => StrayedNext(j)
    BY <1>1 DEF Strayed, StrayedNext
  <1> QED
    BY <1>5, <1>8, <1>9 DEF QuietInv, Strayed, StrayedNext

LEMMA QuietBegin ==
    ASSUME TypeInv, FreshInv, DoneStays, QuietInv, NEW r \in Requests, Begin(r)
    PROVE  QuietInv'
  <1>1. /\ pc[r] = "new" /\ OthersStay(r) /\ UNCHANGED <<store, quiet>>
        /\ \A k \in Key : Strayed(k) => StrayedNext(k)
    BY BeginsAlone, RacedGrows, StrayedStays DEF TypeInv, TypeOK
  <1>2. ASSUME pc'[r] \in WriteSteps, arg'[r].key \in Key, ~StrayedNext(arg'[r].key)
        PROVE  GrantsOf(snap'[r]) \cap quiet = {}
    <2>1. snap'[r] = store[arg'[r].key]
      BY <1>2, BeginsHolding DEF WriteSteps, StrayedNext
    <2>2. KeyQuiet(arg'[r].key)
      BY <1>1, <1>2 DEF QuietInv
    <2> QED
      BY <2>1, <2>2 DEF KeyQuiet, NoneQuiet
  <1> QED
    BY <1>1, <1>2, QuietStays

LEMMA QuietContinue ==
    ASSUME TypeInv, OwnerInv, FreshInv, DoneStays, QuietInv, NEW r \in Requests,
           Continue(r) \/ GoogleAnswers(r) \/ Abort(r)
    PROVE  QuietInv'
  <1> DEFINE k == arg[r].key
  <1>1. /\ Running(r) /\ k \in Key /\ CallWellFormed(r) /\ OthersStay(r) /\ arg' = arg
        /\ \A j \in Key : Strayed(j) => StrayedNext(j)
    BY ContinuesKept, RacedGrows, StrayedStays
       DEF OneCall, TypeInv, TypeOK, CallsWellFormed, CallWellFormed, Arg
  <1>2. CASE WriteRevoke(r)
    BY <1>2, QuietRevoke
  <1>3. CASE WriteConnect(r)
    <2>1. /\ Put(r, ConnectedRecord(r)) /\ pc[r] \in WriteSteps /\ pc'[r] \notin WriteSteps
          /\ UNCHANGED quiet
      BY <1>3 DEF WriteConnect, WriteSteps, Answer, TypeInv, TypeOK
    <2> QED
      BY <1>1, <2>1, ConnectedGrants, QuietStays
  <1>4. CASE WriteRenewed(r)
    <2> DEFINE rec == RenewedRecord(r, pc[r] = "rotating")
    <2>1. /\ Put(r, rec) /\ pc[r] \in WriteSteps /\ pc'[r] \notin WriteSteps /\ UNCHANGED quiet
          /\ snap[r] \in Record /\ snap[r].refresh # None
      BY <1>1, <1>4 DEF WriteRenewed, WriteSteps, Answer, Goto, TypeInv, TypeOK, CallWellFormed
    <2>2. GrantsOf(rec) \subseteq GrantsOf(snap[r])
      BY <2>1, RenewedGrants
    <2> HIDE DEF rec
    <2> QED
      BY <1>1, <2>1, <2>2, QuietStays
  <1>5. CASE WriteReconnectRequired(r)
    <2>1. /\ Put(r, RevokedRecord(snap[r], clock)) /\ pc[r] \in WriteSteps
          /\ pc'[r] \notin WriteSteps /\ UNCHANGED quiet /\ snap[r] \in Record
      BY <1>1, <1>5 DEF WriteReconnectRequired, WriteSteps, Answer, TypeInv, TypeOK, CallWellFormed
    <2>2. GrantsOf(RevokedRecord(snap[r], clock)) = {}
      BY <2>1, RevokedGrants
    <2> QED
      BY <1>1, <2>1, <2>2, QuietStays
  <1>6. CASE RereadForAccess(r) \/ DecryptForAccess(r) \/ Abort(r)
    <2>1. UNCHANGED <<store, quiet>> /\ pc'[r] \notin WriteSteps
      BY <1>6 DEF RereadForAccess, DecryptForAccess, Abort, WriteSteps, Answer, Goto, table,
                  history, TypeInv, TypeOK
    <2> QED
      BY <1>1, <2>1, QuietStays
  <1>7. CASE ReadForRefresh(r)
    <2>1. /\ UNCHANGED <<store, quiet>>
          /\ pc'[r] \in WriteSteps => snap'[r] = store[k] \/ r \in misled'
      BY <1>7 DEF ReadForRefresh, NoteRead, WriteSteps, Answer, Goto, Hold, table,
                  TypeInv, TypeOK
    <2>2. ASSUME pc'[r] \in WriteSteps, ~StrayedNext(k) PROVE GrantsOf(snap'[r]) \cap quiet = {}
      <3>1. snap'[r] = store[k]
        BY <1>1, <2>1, <2>2 DEF StrayedNext
      <3>2. KeyQuiet(k)
        BY <1>1, <2>2 DEF QuietInv
      <3> QED
        BY <3>1, <3>2 DEF KeyQuiet, NoneQuiet
    <2> QED
      BY <1>1, <2>1, <2>2, QuietStays
  <1>8. CASE GoogleAnswers(r) \/ RefreshFails(r)
    <2>1. UNCHANGED <<store, quiet, snap>> /\ pc[r] \in WriteSteps
      BY <1>8 DEF GoogleAnswers, RefreshFails, WriteSteps, table, history
    <2>2. StrayedNext(k) \/ GrantsOf(snap'[r]) \cap quiet = {}
      BY <1>1, <2>1 DEF QuietInv, KeyQuiet, NoneQuiet
    <2> QED
      BY <1>1, <2>1, <2>2, QuietStays
  <1> QED
    BY <1>2, <1>3, <1>4, <1>5, <1>6, <1>7, <1>8 DEF Continue

LEMMA QuietInvNext ==
    ASSUME TypeInv, OwnerInv, FreshInv, QuietInv, [Next]_vars
    PROVE  QuietInv'
  <1>1. DoneStays
    BY AnsweredStaysAnswered
  <1>2. ASSUME NEW r \in Requests, Begin(r) PROVE QuietInv'
    BY <1>1, <1>2, QuietBegin
  <1>3. ASSUME NEW r \in Requests, Continue(r) \/ GoogleAnswers(r) \/ Abort(r) PROVE QuietInv'
    BY <1>1, <1>3, QuietContinue
  <1>4. CASE UNCHANGED <<store, quiet, pc, arg, snap, misled>>
    BY <1>4 DEF QuietInv, KeyQuiet, NoneQuiet, Strayed, GrantsOf
  <1> QED
    BY <1>2, <1>3, <1>4
       DEF Next, GoogleRevokes, Replicate, Tick, vars, calls, table, history

\* What holds under every interleaving and with stale reads.
Before == TypeInv /\ OwnerInv /\ FreshInv /\ QuietInv

LEMMA BeforeInit == Init => Before
  BY TypeInvInit, OwnerInvInit, FreshInvInit, QuietInvInit DEF Before

LEMMA BeforeNext == Before /\ [Next]_vars => Before'
  BY TypeInvNext, OwnerInvNext, FreshInvNext, QuietInvNext DEF Before

LEMMA BeforeAlways == Spec => []Before
  BY BeforeInit, BeforeNext, PTL DEF Spec

\* A disconnect that no other call overlaps with a record to write back is
\* undone by a stale read of that key at most, for any number of users, accounts
\* and calls in any interleaving.
THEOREM QuietDisconnectIsFinal == Spec => []QuietDisconnectSticks
  <1>1. Before => QuietDisconnectSticks
    BY DEF Before, QuietInv, KeyQuiet, NoneQuiet, Strayed, QuietDisconnectSticks
  <1> QED
    BY <1>1, BeforeAlways, PTL
-----------------------------------------------------------------------------
(* Handing out tokens.                                                     *)

\* The only step that hands out a token.
LEMMA OnlyDecryptHands ==
    ASSUME TypeInv, [Next]_vars, NEW r \in Requests,
           reply'[r] # reply[r], reply'[r].kind = "token"
    PROVE  /\ pc[r] = "decrypting" /\ Opens(snap[r].access, arg[r].key) /\ UNCHANGED store
           /\ reply'[r].token = snap[r].access
  <1>1. ASSUME NEW q \in Requests, NEW kind, NEW token, Answer(q, kind, token)
        PROVE  q = r /\ kind = "token" /\ reply'[r].token = token
    BY <1>1 DEF Answer, TypeInv, TypeOK
  <1>2. \A rec, required : HandoffVerdict(rec, required, clock) # "token"
    BY DEF HandoffVerdict
  <1>3. ASSUME NEW q \in Requests, Begin(q) PROVE FALSE
    <2>1. ASSUME NEW step, Goto(q, step) PROVE FALSE
      BY <2>1 DEF Goto
    <2>2. ASSUME NEW k \in Key, NEW required \in RequiredScopes, BeginAccess(q, k, required)
          PROVE  FALSE
      <3>1. PICK rec \in Read(k) : \/ Goto(q, "rereading")
                                  \/ Answer(q, HandoffVerdict(rec, required, clock), None)
        BY <2>2 DEF BeginAccess
      <3> QED
        BY <1>1, <1>2, <2>1, <3>1
    <2>3. ASSUME NEW k \in Key, BeginRevoke(q, k) PROVE FALSE
      BY <1>1, <2>1, <2>3 DEF BeginRevoke
    <2>4. ASSUME NEW u \in Users,
                 RefuseNonMember(q, u) \/ \E applies \in BOOLEAN : RefuseInput(q, u, applies)
          PROVE  FALSE
      BY <1>1, <2>4 DEF RefuseNonMember, RefuseInput
    <2> QED
      BY <1>3, <2>1, <2>2, <2>3, <2>4 DEF Begin, BeginConnect, BeginRefresh
  <1>4. ASSUME NEW q \in Requests, Continue(q) \/ GoogleAnswers(q) \/ Abort(q)
        PROVE  DecryptForAccess(q)
    BY <1>1, <1>4 DEF Continue, WriteConnect, WriteRevoke, RereadForAccess, ReadForRefresh,
       RefreshFails, WriteRenewed, WriteReconnectRequired, GoogleAnswers, Abort, Goto
  <1>5. PICK q \in Requests : DecryptForAccess(q)
    BY <1>3, <1>4 DEF Next, GoogleRevokes, Replicate, Tick, vars, calls
  <1> QED
    BY <1>1, <1>5 DEF DecryptForAccess, table

\* An access call that was not raced hands out the token that the table holds at
\* that moment: none that a disconnect, a reconnect or a refresh has removed.
THEOREM HandoffsAreStored == Spec => HandsOutStored
  <1> DEFINE Stored == \A r \in Requests \ Raced :
                          reply'[r] # reply[r] /\ reply'[r].kind = "token" =>
                              store[arg[r].key] # None /\ reply'[r].token = store[arg[r].key].access
  <1>1. Before /\ [Next]_vars => [Stored]_vars
    <2>1. ASSUME Before, [Next]_vars, NEW r \in Requests \ Raced,
                 reply'[r] # reply[r], reply'[r].kind = "token"
          PROVE  /\ store[arg[r].key] # None
                 /\ reply'[r].token = store[arg[r].key].access
      <3>1. pc[r] = "decrypting" /\ reply'[r].token = snap[r].access
        BY <2>1, OnlyDecryptHands DEF Before
      <3>2. snap[r] # None
        BY <2>1, <3>1, NoneAssumption
           DEF Before, TypeInv, CallsWellFormed, CallWellFormed, Running
      <3>3. snap[r] = store[arg[r].key]
        BY <2>1, <3>1 DEF Before, FreshInv, CallFresh, Holding
      <3> QED
        BY <3>1, <3>2, <3>3
    <2> QED
      BY <2>1
  <1>2. HandsOutStored <=> [][Stored]_vars
    BY DEF HandsOutStored
  <1> QED
    BY <1>1, <1>2, BeforeAlways, PTL DEF Spec

-----------------------------------------------------------------------------
(* The record a calm call writes follows from the one stored.              *)

\* What the write of a call does to the time of the first connect.
LEMMA WritesKeepCreatedAt ==
    ASSUME Before, NEW r \in Requests, Continue(r) \/ GoogleAnswers(r) \/ Abort(r),
           r \notin Raced, NEW k \in Key, store[k] # None
    PROVE  store'[k].createdAt = store[k].createdAt
  <1>1. /\ Running(r) /\ CallWellFormed(r) /\ CallFresh(r)
        /\ \A j \in Key : UNCHANGED store \/ store'[j] = store[j] \/ j = arg[r].key
    BY ContinuesKept, PutEffect
       DEF Before, OneCall, TypeInv, CallsWellFormed, FreshInv
  <1>2. CASE UNCHANGED store \/ k # arg[r].key
    BY <1>1, <1>2
  <1>3. ASSUME k = arg[r].key, NEW rec, Put(r, rec), pc[r] \in WriteSteps,
               snap[r] # None => rec.createdAt = snap[r].createdAt
        PROVE  store'[k].createdAt = store[k].createdAt
    <2>1. snap[r] = store[k]
      BY <1>1, <1>3 DEF CallFresh, Holding
    <2>2. store'[k] = rec
      BY <1>1, <1>3, PutEffect DEF Before
    <2> QED
      BY <1>3, <2>1, <2>2
  <1>4. CASE k = arg[r].key /\ WriteConnect(r)
    BY <1>3, <1>4 DEF WriteConnect, WriteSteps, ConnectedRecord
  <1>5. ASSUME NEW now, snap[r] \in Record
        PROVE  RevokedRecord(snap[r], now).createdAt = snap[r].createdAt
    BY <1>5 DEF RevokedRecord, Record
  <1>6. ASSUME NEW rotated, snap[r] \in Record
        PROVE  RenewedRecord(r, rotated).createdAt = snap[r].createdAt
    BY <1>6 DEF RenewedRecord, Record
  <1>7. CASE k = arg[r].key /\ (WriteRevoke(r) \/ WriteReconnectRequired(r))
    <2>1. PICK now : Put(r, RevokedRecord(snap[r], now))
      BY <1>7 DEF WriteRevoke, WriteReconnectRequired
    <2>2. pc[r] \in WriteSteps /\ snap[r] \in Record
      BY <1>1, <1>7 DEF WriteRevoke, WriteReconnectRequired, WriteSteps, CallWellFormed
    <2> QED
      BY <1>3, <1>5, <1>7, <2>1, <2>2
  <1>8. CASE k = arg[r].key /\ WriteRenewed(r)
    <2>1. PICK rotated : Put(r, RenewedRecord(r, rotated))
      BY <1>8 DEF WriteRenewed
    <2>2. pc[r] \in WriteSteps /\ snap[r] \in Record
      BY <1>1, <1>8 DEF WriteRenewed, WriteSteps, CallWellFormed
    <2> QED
      BY <1>3, <1>6, <1>8, <2>1, <2>2
  <1> QED
    BY <1>2, <1>4, <1>7, <1>8 DEF Continue, RereadForAccess, ReadForRefresh, RefreshFails,
       DecryptForAccess, GoogleAnswers, Abort, table

\* The step of a raced call.
LEMMA RacedSteps ==
    ASSUME TypeInv, NEW r \in Raced, r \in Requests,
           WriteConnect(r) \/ WriteRevoke(r) \/ WriteRenewed(r) \/ WriteReconnectRequired(r)
    PROVE  RacedStep
  <1>1. pc[r] # pc'[r]
    BY DEF WriteConnect, WriteRevoke, WriteRenewed, WriteReconnectRequired, Answer, Goto,
           TypeInv, TypeOK
  <1> QED
    BY <1>1 DEF RacedStep

\* The time of the first connect is that of the table, unless a raced call has
\* written what it once read.
THEOREM CreatedAtStays == Spec => CreatedAtKept
  <1> DEFINE Kept == \A k \in Key :
                        store[k] # None /\ store'[k].createdAt # store[k].createdAt => RacedStep
  <1>1. Before /\ [Next]_vars => [Kept]_vars
    <2>1. ASSUME Before, [Next]_vars, NEW k \in Key, store[k] # None,
                 store'[k].createdAt # store[k].createdAt
          PROVE  RacedStep
      <3>1. ~UNCHANGED store
        BY <2>1
      <3>2. \A r \in Requests : Begin(r) => UNCHANGED store
        BY <2>1, BeginsAlone DEF Before
      <3>3. PICK r \in Requests : Continue(r) \/ GoogleAnswers(r) \/ Abort(r)
        BY <2>1, <3>1, <3>2 DEF Next, GoogleRevokes, Replicate, Tick, vars, table
      <3>4. r \in Raced
        BY <2>1, <3>3, WritesKeepCreatedAt
      <3>5. WriteConnect(r) \/ WriteRevoke(r) \/ WriteRenewed(r) \/ WriteReconnectRequired(r)
        BY <3>1, <3>3 DEF Continue, RereadForAccess, ReadForRefresh, RefreshFails,
           DecryptForAccess, GoogleAnswers, Abort, table
      <3> QED
        BY <2>1, <3>4, <3>5, RacedSteps DEF Before
    <2> QED
      BY <2>1
  <1>2. CreatedAtKept <=> [][Kept]_vars
    BY DEF CreatedAtKept
  <1> QED
    BY <1>1, <1>2, BeforeAlways, PTL DEF Spec

-----------------------------------------------------------------------------
(* The service implements the connection lifecycle.                        *)

\* The grants behind each stored record.
Held == [k \in Key |-> GrantsOf(store[k])]

\* Putting a record changes what its connection holds and nothing else.
LEMMA PutHolds ==
    ASSUME TypeInv, NEW r \in Requests, Running(r), NEW rec, Put(r, rec)
    PROVE  Held' = [Held EXCEPT ![arg[r].key] = GrantsOf(rec)]
  <1>1. store' = [store EXCEPT ![arg[r].key] = rec] /\ store \in [Key -> Record \cup {None}]
    BY PutEffect DEF TypeInv, TypeOK
  <1> QED
    BY <1>1 DEF Held, GrantsOf

\* Only a connect call that is answered so gives a grant.
LEMMA GivenStays ==
    ASSUME NEW r \in Requests, reply[r] = None,
           \A q \in Requests \ {r} : reply'[q] = reply[q],
           reply'[r] = None \/ reply'[r].kind # "connected"
    PROVE  Given' = Given
  BY DEF Given

LEMMA BeginHidden ==
    ASSUME Before, NEW r \in Requests, Begin(r)
    PROVE  UNCHANGED <<Held, severed, Given>>
  <1>1. /\ UNCHANGED <<store, severed>> /\ pc[r] = "new" /\ reply[r] = None
        /\ \A q \in Requests \ {r} : reply'[q] = reply[q]
    BY BeginsAlone DEF Before, FreshInv, CallFresh, OthersStay
  <1>2. UNCHANGED reply \/ \E kind \in {"denied", "invalid"} \cup Verdicts : Answer(r, kind, None)
    <2>1. ASSUME NEW k \in Key, NEW required \in RequiredScopes, BeginAccess(r, k, required)
          PROVE  UNCHANGED reply \/ \E kind \in Verdicts : Answer(r, kind, None)
      <3>1. \A rec : HandoffVerdict(rec, required, clock) \in Verdicts
        BY DEF HandoffVerdict, Verdicts
      <3> QED
        BY <2>1, <3>1 DEF BeginAccess, Goto
    <2> QED
      BY <2>1 DEF Begin, RefuseNonMember, RefuseInput, BeginConnect, BeginRefresh, BeginRevoke, Goto
  <1>3. reply'[r] = None \/ reply'[r].kind # "connected"
    BY <1>1, <1>2 DEF Before, TypeInv, TypeOK, Answer, Verdicts
  <1>4. Given' = Given
    BY <1>1, <1>3, GivenStays
  <1> QED
    BY <1>1, <1>4 DEF Held, GrantsOf

LEMMA ContinueImplements ==
    ASSUME Before, NEW r \in Requests, Continue(r) \/ GoogleAnswers(r) \/ Abort(r)
    PROVE  RacedStep \/ Lifecycle!Next \/ UNCHANGED <<Held, severed, Given>>
  <1> DEFINE k == arg[r].key
  <1>1. /\ Running(r) /\ k \in Key /\ CallWellFormed(r) /\ CallFresh(r) /\ reply[r] = None
        /\ \A q \in Requests \ {r} : reply'[q] = reply[q]
    BY ContinuesAlone
       DEF Before, OneCall, TypeInv, CallsWellFormed, CallWellFormed, Arg, FreshInv,
           CallFresh, Running
  <1> USE DEF Before, TypeInv, TypeOK
  <1>2. ASSUME reply'[r] = None \/ reply'[r].kind # "connected" PROVE Given' = Given
    BY <1>1, <1>2, GivenStays
  <1>3. CASE WriteConnect(r) /\ r \notin Raced
    <2> DEFINE rec == ConnectedRecord(r)
    <2>1. /\ Put(r, rec) /\ snap[r] = store[k] /\ reply'[r].kind = "connected" /\ reply'[r] # None
          /\ UNCHANGED severed
      BY <1>1, <1>3, NoneAssumption
         DEF WriteConnect, Answer, CallFresh, Holding, WriteSteps, Replies
    <2>2. GrantsOf(rec) \subseteq {r} \cup Held[k] /\ r \in GrantsOf(rec)
      <3>1. rec \in Record /\ rec # None
        BY <1>1, <1>3, ConnectedRecordType, NoneAssumption DEF CallWellFormed, Running
      <3>2. rec.access = Encrypt(k, r, r) /\ rec.access \in Ciphertext
        <4>1. rec.access = Encrypt(k, r, r)
          BY DEF ConnectedRecord
        <4> QED
          BY <1>1, <4>1 DEF Encrypt, Ciphertext, Key
      <3>3. rec.access # None /\ rec.access.grant = r
        BY <3>2, NoneAssumption DEF Encrypt
      <3>4. r \in GrantsOf(rec)
        BY <3>1, <3>3 DEF GrantsOf
      <3>5. GrantsOf(rec) \subseteq {r} \cup GrantsOf(snap[r])
        BY ConnectedGrants
      <3> QED
        BY <1>1, <2>1, <3>4, <3>5 DEF Held
    <2> HIDE DEF rec
    <2>3. Held' = [Held EXCEPT ![k] = GrantsOf(rec)]
      BY <1>1, <2>1, PutHolds
    <2>4. r \notin Given /\ Given' = Given \cup {r}
      BY <1>1, <2>1 DEF Given
    <2>5. \E kept \in SUBSET Held[k] : Held' = [Held EXCEPT ![k] = kept \cup {r}]
      <3>1. GrantsOf(rec) \ {r} \in SUBSET Held[k]
        BY <2>2
      <3>2. GrantsOf(rec) = (GrantsOf(rec) \ {r}) \cup {r}
        BY <2>2
      <3> QED
        BY <2>3, <3>1, <3>2
    <2>6. Lifecycle!Connect(k, r)
      BY <2>1, <2>4, <2>5 DEF Lifecycle!Connect, Held
    <2> QED
      BY <1>1, <2>6 DEF Lifecycle!Next
  <1>4. CASE WriteRevoke(r)
    <2>1. /\ Put(r, RevokedRecord(snap[r], stamp[r])) /\ snap[r] \in Record
          /\ reply'[r].kind = "disconnected" /\ severed' = severed \cup GrantsOf(store[k])
      BY <1>1, <1>4 DEF WriteRevoke, Answer, CallWellFormed
    <2>2. Held' = [Held EXCEPT ![k] = {}]
      BY <1>1, <2>1, PutHolds, RevokedGrants
    <2>3. Given' = Given
      BY <1>2, <2>1
    <2>4. severed' = severed \cup Held[k]
      BY <1>1, <2>1 DEF Held
    <2>5. Lifecycle!Disconnect(k)
      BY <2>2, <2>3, <2>4 DEF Lifecycle!Disconnect, Held
    <2> QED
      BY <1>1, <2>5 DEF Lifecycle!Next
  <1>5. CASE WriteReconnectRequired(r)
    <2>1. /\ Put(r, RevokedRecord(snap[r], clock)) /\ snap[r] \in Record
          /\ reply'[r].kind = "revoked" /\ UNCHANGED severed
      BY <1>1, <1>5 DEF WriteReconnectRequired, Answer, CallWellFormed
    <2>2. Held' = [Held EXCEPT ![k] = {}]
      BY <1>1, <2>1, PutHolds, RevokedGrants
    <2>3. Given' = Given
      BY <1>2, <2>1
    <2>4. Lifecycle!Lapse(k)
      BY <2>1, <2>2, <2>3 DEF Lifecycle!Lapse, Held
    <2> QED
      BY <1>1, <2>4 DEF Lifecycle!Next
  <1>6. CASE WriteRenewed(r) /\ r \notin Raced
    <2> DEFINE rec == RenewedRecord(r, pc[r] = "rotating")
    <2>1. /\ Put(r, rec) /\ snap[r] \in Record /\ snap[r].refresh # None /\ snap[r] = store[k]
          /\ UNCHANGED severed /\ arg[r] \in Arg
      BY <1>1, <1>6 DEF WriteRenewed, CallWellFormed, CallFresh, Holding, WriteSteps
    <2>2. GrantsOf(rec) \subseteq Held[k] /\ GrantsOf(rec) # {}
      <3>1. GrantsOf(rec) \subseteq GrantsOf(snap[r])
        BY <2>1, RenewedGrants
      <3>2. rec.access # None /\ rec \in Record
        <4>1. rec.access = Encrypt(k, snap[r].refresh.grant, r)
          BY <2>1 DEF RenewedRecord, Record
        <4>2. rec.access \in Ciphertext
          BY <1>1, <2>1, <4>1 DEF Encrypt, Ciphertext, Record, Key
        <4>3. rec \in Record
          BY <2>1, RenewedRecordType
        <4> QED
          BY <4>2, <4>3, NoneAssumption
      <3>3. rec.access.grant \in GrantsOf(rec)
        BY <3>2, NoneAssumption DEF GrantsOf
      <3> QED
        BY <1>1, <2>1, <3>1, <3>3 DEF Held
    <2>3. reply'[r] = None \/ reply'[r].kind # "connected"
      BY <1>1, <1>6 DEF WriteRenewed, Goto, Answer
    <2> HIDE DEF rec
    <2>4. Held' = [Held EXCEPT ![k] = GrantsOf(rec)] /\ Given' = Given
      BY <1>1, <1>2, <2>1, <2>3, PutHolds
    <2>5. Lifecycle!Renew(k)
      BY <2>1, <2>2, <2>4 DEF Lifecycle!Renew, Held
    <2> QED
      BY <1>1, <2>5 DEF Lifecycle!Next
  <1>7. CASE \/ RereadForAccess(r) \/ ReadForRefresh(r) \/ RefreshFails(r) \/ DecryptForAccess(r)
             \/ GoogleAnswers(r) \/ Abort(r)
    <2>1. UNCHANGED <<store, severed>>
      BY <1>7 DEF RereadForAccess, ReadForRefresh, RefreshFails, DecryptForAccess,
         GoogleAnswers, Abort, table, history
    <2>2. reply'[r] = None \/ reply'[r].kind # "connected"
      BY <1>1, <1>7 DEF RereadForAccess, ReadForRefresh, RefreshFails, DecryptForAccess,
         GoogleAnswers, Abort, Goto, Answer
    <2> QED
      BY <1>2, <2>1, <2>2 DEF Held, GrantsOf
  <1>8. CASE r \in Raced /\ (WriteConnect(r) \/ WriteRenewed(r))
    BY <1>8, RacedSteps
  <1> QED
    BY <1>3, <1>4, <1>5, <1>6, <1>7, <1>8 DEF Continue

\* What the service does to a connection is what the lifecycle promises: one new
\* grant per connect, none by a renewal, none left by a disconnect.  Only the write of
\* a raced call departs from it.
THEOREM ServiceFollowsLifecycle == Spec => LifecycleUnlessRaced
  <1>1. Init => Lifecycle!Init
    BY DEF Init, Lifecycle!Init, GrantsOf, Given
  <1>2. Before /\ [Next]_vars => [RacedStep \/ Lifecycle!Next]_(Lifecycle!lifecycle)
    <2> SUFFICES ASSUME Before, [Next]_vars
                 PROVE  RacedStep \/ Lifecycle!Next \/ UNCHANGED <<Held, severed, Given>>
      BY DEF Lifecycle!lifecycle, Held
    <2>1. ASSUME NEW r \in Requests, Begin(r) PROVE UNCHANGED <<Held, severed, Given>>
      BY <2>1, BeginHidden
    <2>2. ASSUME NEW r \in Requests, Continue(r) \/ GoogleAnswers(r) \/ Abort(r)
          PROVE  RacedStep \/ Lifecycle!Next \/ UNCHANGED <<Held, severed, Given>>
      BY <2>2, ContinueImplements
    <2>3. CASE UNCHANGED <<store, severed, reply>>
      BY <2>3 DEF Held, GrantsOf, Given
    <2> QED
      BY <2>1, <2>2, <2>3
         DEF Next, GoogleRevokes, Replicate, Tick, vars, calls, table, history
  <1> QED
    BY <1>1, <1>2, BeforeAlways, PTL DEF Spec, LifecycleUnlessRaced

=============================================================================
