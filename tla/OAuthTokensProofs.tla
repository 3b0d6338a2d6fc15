-------------------------- MODULE OAuthTokensProofs --------------------------
(***************************************************************************)
(* Theorems about the Google token lifecycle, for every set of users,      *)
(* accounts, scopes and calls.                                             *)
(***************************************************************************)
EXTENDS OAuthTokens, TLAPS

\* The records the service writes are records.
LEMMA ConnectedRecordType ==
    ASSUME TypeOK, NEW r \in Requests, arg[r] \in Arg
    PROVE  ConnectedRecord(r) \in Record
  <1>1. arg[r].key[1] \in Users /\ arg[r].scopes \in SUBSET Scopes
    BY DEF Arg, Key
  <1>2. Encrypt(arg[r].key, r, r) \in Ciphertext
    BY <1>1 DEF Encrypt, Ciphertext
  <1>3. stamp[r] \in Nat /\ stamp[r] + Lifetime \in Nat
    BY TimeAssumption DEF TypeOK
  <1>4. snap[r] # None => snap[r] \in Record
    BY DEF TypeOK
  <1> QED
    BY <1>1, <1>2, <1>3, <1>4 DEF ConnectedRecord, Record

LEMMA RevokedRecordType ==
    ASSUME NEW rec \in Record, NEW now \in Nat
    PROVE  RevokedRecord(rec, now) \in Record
  BY DEF RevokedRecord, Record

LEMMA RenewedRecordType ==
    ASSUME TypeOK, NEW r \in Requests, arg[r] \in Arg, snap[r] \in Record,
           snap[r].refresh # None, NEW rotated \in BOOLEAN
    PROVE  RenewedRecord(r, rotated) \in Record
  <1>1. arg[r].key[1] \in Users
    BY DEF Arg, Key
  <1>2. snap[r].refresh \in Ciphertext /\ snap[r].refresh.grant \in Requests
    BY DEF Record, Ciphertext
  <1>3. Encrypt(arg[r].key, snap[r].refresh.grant, r) \in Ciphertext
    BY <1>1, <1>2 DEF Encrypt, Ciphertext
  <1>4. stamp[r] + Lifetime \in Nat /\ clock \in Nat
    BY TimeAssumption DEF TypeOK
  <1> QED
    BY <1>2, <1>3, <1>4 DEF RenewedRecord, Record

-----------------------------------------------------------------------------
(* Type correctness.                                                       *)

\* What a running call has in hand, by the step it is about to take.
CallWellFormed(r) ==
    /\ Running(r) => arg[r] \in Arg
    /\ Running(r) /\ pc[r] \notin {"connecting", "rereading", "refreshing"} =>
          snap[r] \in Record
    /\ pc[r] \in {"calling", "renewing", "rotating"} => snap[r].refresh # None

CallsWellFormed == \A r \in Requests : CallWellFormed(r)

TypeInv == TypeOK /\ CallsWellFormed

LEMMA ReadType ==
    ASSUME TypeOK, NEW k \in Key, NEW rec \in Read(k)
    PROVE  rec \in Record \cup {None}
  BY DEF TypeOK, Read

\* A put of a record keeps the table and the calls it overtakes well typed.
LEMMA PutType ==
    ASSUME TypeOK, NEW r \in Requests, arg[r].key \in Key, NEW rec \in Record, Put(r, rec)
    PROVE  /\ store' \in [Key -> Record \cup {None}]
           /\ lagging' \in [Key -> SUBSET (Record \cup {None})]
           /\ overtaken' \subseteq Requests
  BY DEF TypeOK, Put, Overwrite, Overtakes

LEMMA NoteType ==
    ASSUME TypeOK, NEW r \in Requests, NEW k, NEW rec, NoteRead(r, k, rec)
    PROVE  misled' \subseteq Requests
  BY DEF TypeOK, NoteRead

\* Starting a call, holding a record and answering keep their variables typed.
LEMMA AnswerType ==
    ASSUME TypeOK, NEW r \in Requests,
           NEW kind \in {"connected", "disconnected", "refreshed", "token", "denied", "invalid",
                         "crashed", "failed"} \cup Verdicts,
           NEW token \in Ciphertext \cup {None}, Answer(r, kind, token)
    PROVE  /\ pc' \in [Requests -> Steps]
           /\ reply' \in [Requests -> Replies \cup {None}]
           /\ pc'[r] = "done"
           /\ \A q \in Requests \ {r} : pc'[q] = pc[q]
  BY DEF TypeOK, Answer, Steps, Replies

LEMMA GotoType ==
    ASSUME TypeOK, NEW r \in Requests, NEW step \in Steps, Goto(r, step)
    PROVE  /\ pc' \in [Requests -> Steps]
           /\ reply' \in [Requests -> Replies \cup {None}]
           /\ pc'[r] = step
           /\ \A q \in Requests \ {r} : pc'[q] = pc[q]
  BY DEF TypeOK, Goto

LEMMA HoldType ==
    ASSUME TypeOK, NEW r \in Requests, NEW rec \in Record \cup {None}, NEW now \in Nat,
           Hold(r, rec, now)
    PROVE  /\ snap' \in [Requests -> Record \cup {None}]
           /\ stamp' \in [Requests -> Nat]
           /\ snap'[r] = rec
           /\ \A q \in Requests \ {r} : snap'[q] = snap[q]
  BY DEF TypeOK, Hold

LEMMA AcceptType ==
    ASSUME TypeOK, NEW r \in Requests, NEW k \in Key,
           NEW op \in {"connect", "access", "refresh", "revoke"},
           NEW scopes \in SUBSET Scopes, NEW offline \in BOOLEAN,
           Accept(r, op, k, scopes, offline)
    PROVE  /\ pc[r] = "new"
           /\ arg' \in [Requests -> Arg \cup {None}]
           /\ arg'[r] \in Arg /\ arg'[r].op = op /\ arg'[r].key = k
           /\ \A q \in Requests \ {r} : arg'[q] = arg[q]
  BY DEF TypeOK, Accept, MayBegin, Arg

\* What a call has in hand is its own: a step of one leaves the others alone.
OthersUntouched(r) ==
    \A q \in Requests \ {r} : pc'[q] = pc[q] /\ arg'[q] = arg[q] /\ snap'[q] = snap[q]

LEMMA OneCallSteps ==
    ASSUME CallsWellFormed, NEW r \in Requests, CallWellFormed(r)', OthersUntouched(r)
    PROVE  CallsWellFormed'
  BY DEF CallsWellFormed, CallWellFormed, OthersUntouched, Running

LEMMA TypeInvInit == Init => TypeInv
  <1> SUFFICES ASSUME Init PROVE TypeInv
    OBVIOUS
  <1>1. TypeOK
    BY DEF Init, TypeOK, Steps
  <1>2. CallsWellFormed
    BY DEF Init, CallsWellFormed, CallWellFormed, Running
  <1> QED
    BY <1>1, <1>2 DEF TypeInv

LEMMA TypeInvBegin ==
    ASSUME TypeInv, NEW r \in Requests, Begin(r)
    PROVE  TypeInv'
  <1> USE DEF TypeInv
  <1>1. ASSUME NEW u \in Users,
               RefuseNonMember(r, u) \/ \E applies \in BOOLEAN : RefuseInput(r, u, applies)
        PROVE  TypeInv'
    <2>1. Answer(r, "denied", None) \/ Answer(r, "invalid", None)
      BY <1>1 DEF RefuseNonMember, RefuseInput
    <2>2. /\ pc' \in [Requests -> Steps] /\ pc'[r] = "done"
          /\ \A q \in Requests \ {r} : pc'[q] = pc[q]
          /\ reply' \in [Requests -> Replies \cup {None}]
      BY <2>1, AnswerType
    <2>3. TypeOK'
      BY <1>1, <2>2 DEF RefuseNonMember, RefuseInput, TypeOK, table, history
    <2>4. CallWellFormed(r)' /\ OthersUntouched(r)
      BY <1>1, <2>2 DEF RefuseNonMember, RefuseInput, CallWellFormed, OthersUntouched, Running
    <2> QED
      BY <2>3, <2>4, OneCallSteps
  <1>2. ASSUME NEW k \in Key, NEW scopes \in GrantedScopes, NEW offline \in BOOLEAN,
               BeginConnect(r, k, scopes, offline)
        PROVE  TypeInv'
    <2>1. Accept(r, "connect", k, scopes, offline) /\ scopes \in SUBSET Scopes
      BY <1>2, ScopeAssumption DEF BeginConnect
    <2>2. /\ arg' \in [Requests -> Arg \cup {None}] /\ arg'[r] \in Arg
          /\ \A q \in Requests \ {r} : arg'[q] = arg[q]
      BY <2>1, AcceptType
    <2>3. PICK existing \in Read(k) : Hold(r, existing, clock) /\ NoteRead(r, k, existing)
      BY <1>2 DEF BeginConnect
    <2>4. existing \in Record \cup {None} /\ clock \in Nat
      BY ReadType DEF TypeOK
    <2>5. /\ snap' \in [Requests -> Record \cup {None}] /\ stamp' \in [Requests -> Nat]
          /\ \A q \in Requests \ {r} : snap'[q] = snap[q]
      BY <2>3, <2>4, HoldType
    <2>6. Goto(r, "connecting") /\ "connecting" \in Steps
      BY <1>2 DEF BeginConnect, Steps, WriteSteps
    <2>7. /\ pc' \in [Requests -> Steps] /\ pc'[r] = "connecting"
          /\ \A q \in Requests \ {r} : pc'[q] = pc[q]
          /\ reply' \in [Requests -> Replies \cup {None}]
      BY <2>6, GotoType
    <2>8. google' \in [Requests -> Requests \cup {None}]
      BY <1>2 DEF BeginConnect, TypeOK
    <2>9. TypeOK'
      BY <1>2, <2>2, <2>3, <2>5, <2>7, <2>8, NoteType DEF BeginConnect, TypeOK, table
    <2>10. CallWellFormed(r)' /\ OthersUntouched(r)
      BY <2>2, <2>5, <2>7 DEF CallWellFormed, OthersUntouched, Running
    <2> QED
      BY <2>9, <2>10, OneCallSteps
  <1>3. ASSUME NEW k \in Key, NEW required \in RequiredScopes, BeginAccess(r, k, required)
        PROVE  TypeInv'
    <2>1. Accept(r, "access", k, required, FALSE) /\ required \in SUBSET Scopes
      BY <1>3, ScopeAssumption DEF BeginAccess
    <2>2. /\ arg' \in [Requests -> Arg \cup {None}] /\ arg'[r] \in Arg
          /\ \A q \in Requests \ {r} : arg'[q] = arg[q]
      BY <2>1, AcceptType
    <2>3. \A rec : HandoffVerdict(rec, required, clock) \in Verdicts
      BY DEF HandoffVerdict, Verdicts
    <2>4. Goto(r, "rereading") \/ \E verdict \in Verdicts : Answer(r, verdict, None)
      BY <1>3, <2>3 DEF BeginAccess
    <2>5. /\ pc' \in [Requests -> Steps] /\ pc'[r] \in {"rereading", "done"}
          /\ \A q \in Requests \ {r} : pc'[q] = pc[q]
          /\ reply' \in [Requests -> Replies \cup {None}]
      <3>1. "rereading" \in Steps
        BY DEF Steps
      <3>2. CASE Goto(r, "rereading")
        BY <3>1, <3>2, GotoType
      <3>3. CASE \E verdict \in Verdicts : Answer(r, verdict, None)
        BY <3>3, AnswerType
      <3> QED
        BY <2>4, <3>2, <3>3
    <2>6. TypeOK'
      <3>1. misled' \subseteq Requests
        BY <1>3, NoteType DEF BeginAccess
      <3> QED
        BY <1>3, <2>2, <2>5, <3>1 DEF BeginAccess, TypeOK, table
    <2>7. CallWellFormed(r)' /\ OthersUntouched(r)
      BY <1>3, <2>2, <2>5 DEF BeginAccess, CallWellFormed, OthersUntouched, Running
    <2> QED
      BY <2>6, <2>7, OneCallSteps
  <1>4. ASSUME NEW k \in Key, BeginRefresh(r, k)
        PROVE  TypeInv'
    <2>1. Accept(r, "refresh", k, {}, FALSE) /\ Goto(r, "refreshing") /\ "refreshing" \in Steps
      BY <1>4 DEF BeginRefresh, Steps
    <2>2. /\ arg' \in [Requests -> Arg \cup {None}] /\ arg'[r] \in Arg
          /\ \A q \in Requests \ {r} : arg'[q] = arg[q]
      BY <2>1, AcceptType
    <2>3. /\ pc' \in [Requests -> Steps] /\ pc'[r] = "refreshing"
          /\ \A q \in Requests \ {r} : pc'[q] = pc[q]
          /\ reply' \in [Requests -> Replies \cup {None}]
      BY <2>1, GotoType
    <2>4. TypeOK'
      BY <1>4, <2>2, <2>3 DEF BeginRefresh, TypeOK, table, history
    <2>5. CallWellFormed(r)' /\ OthersUntouched(r)
      BY <1>4, <2>2, <2>3 DEF BeginRefresh, CallWellFormed, OthersUntouched, Running
    <2> QED
      BY <2>4, <2>5, OneCallSteps
  <1>5. ASSUME NEW k \in Key, BeginRevoke(r, k)
        PROVE  TypeInv'
    <2>1. Accept(r, "revoke", k, {}, FALSE)
      BY <1>5 DEF BeginRevoke
    <2>2. /\ arg' \in [Requests -> Arg \cup {None}] /\ arg'[r] \in Arg
          /\ \A q \in Requests \ {r} : arg'[q] = arg[q]
      BY <2>1, AcceptType
    <2> DEFINE Begun ==
          /\ snap' \in [Requests -> Record \cup {None}] /\ stamp' \in [Requests -> Nat]
          /\ \A q \in Requests \ {r} : snap'[q] = snap[q]
          /\ pc' \in [Requests -> Steps]
          /\ pc'[r] = "done" \/ (pc'[r] = "revoking" /\ snap'[r] \in Record)
          /\ \A q \in Requests \ {r} : pc'[q] = pc[q]
          /\ reply' \in [Requests -> Replies \cup {None}]
    <2>3. Begun
      <3>1. "revoking" \in Steps /\ clock \in Nat
        BY DEF Steps, WriteSteps, TypeOK
      <3>2. CASE Answer(r, "denied", None) /\ UNCHANGED <<snap, stamp>>
        BY <3>2, AnswerType DEF TypeOK
      <3>3. ASSUME NEW rec \in Read(k), rec # None, Hold(r, rec, clock), Goto(r, "revoking")
            PROVE  Begun
        BY <3>1, <3>3, ReadType, HoldType, GotoType
      <3> QED
        BY <1>5, <3>2, <3>3 DEF BeginRevoke
    <2>4. TypeOK'
      <3>1. misled' \subseteq Requests
        BY <1>5, NoteType DEF BeginRevoke
      <3> QED
        BY <1>5, <2>2, <2>3, <3>1 DEF BeginRevoke, TypeOK, table
    <2>5. CallWellFormed(r)' /\ OthersUntouched(r)
      BY <2>2, <2>3 DEF CallWellFormed, OthersUntouched, Running
    <2> QED
      BY <2>4, <2>5, OneCallSteps
  <1> QED
    BY <1>1, <1>2, <1>3, <1>4, <1>5 DEF Begin

\* A running call that ends leaves a well-formed state, whatever it answers.
LEMMA EndType ==
    ASSUME TypeInv, NEW r \in Requests, Running(r),
           NEW kind \in {"connected", "disconnected", "refreshed", "token", "denied", "invalid",
                         "crashed", "failed"} \cup Verdicts,
           NEW token \in Ciphertext \cup {None},
           Answer(r, kind, token), UNCHANGED arg,
           UNCHANGED <<snap, stamp>> \/ Forget(r)
    PROVE  /\ pc' \in [Requests -> Steps]
           /\ reply' \in [Requests -> Replies \cup {None}]
           /\ snap' \in [Requests -> Record \cup {None}]
           /\ stamp' \in [Requests -> Nat]
           /\ CallsWellFormed'
  <1> USE DEF TypeInv
  <1>1. /\ pc' \in [Requests -> Steps] /\ pc'[r] = "done"
        /\ \A q \in Requests \ {r} : pc'[q] = pc[q]
        /\ reply' \in [Requests -> Replies \cup {None}]
    BY AnswerType
  <1>2. /\ snap' \in [Requests -> Record \cup {None}]
        /\ stamp' \in [Requests -> Nat]
        /\ \A q \in Requests \ {r} : snap'[q] = snap[q]
    BY HoldType DEF Forget, TypeOK
  <1>3. CallWellFormed(r)' /\ OthersUntouched(r)
    BY <1>1, <1>2 DEF CallWellFormed, OthersUntouched, Running
  <1> QED
    BY <1>1, <1>2, <1>3, OneCallSteps

\* A call that moves on with what it has in hand.
LEMMA GoOnType ==
    ASSUME TypeInv, NEW r \in Requests, Running(r),
           NEW step \in Steps \ {"new"}, Goto(r, step), UNCHANGED arg,
           snap' \in [Requests -> Record \cup {None}],
           \A q \in Requests \ {r} : snap'[q] = snap[q],
           step \notin {"rereading", "refreshing", "connecting"} => snap'[r] \in Record,
           step \in {"calling", "renewing", "rotating"} => snap'[r].refresh # None
    PROVE  /\ pc' \in [Requests -> Steps]
           /\ reply' \in [Requests -> Replies \cup {None}]
           /\ CallsWellFormed'
  <1> USE DEF TypeInv
  <1>1. /\ pc' \in [Requests -> Steps] /\ pc'[r] = step
        /\ \A q \in Requests \ {r} : pc'[q] = pc[q]
        /\ reply' \in [Requests -> Replies \cup {None}]
    BY GotoType
  <1>2. arg[r] \in Arg
    BY DEF CallsWellFormed, CallWellFormed
  <1>3. CallWellFormed(r)' /\ OthersUntouched(r)
    BY <1>1, <1>2 DEF CallWellFormed, OthersUntouched, Running
  <1> QED
    BY <1>1, <1>3, OneCallSteps

LEMMA TypeInvWrites ==
    ASSUME TypeInv, NEW r \in Requests,
           WriteConnect(r) \/ WriteRevoke(r) \/ WriteRenewed(r) \/ WriteReconnectRequired(r)
    PROVE  TypeInv'
  <1> USE DEF TypeInv
  <1>1. CASE WriteConnect(r)
    <2>1. Running(r) /\ arg[r] \in Arg
      BY <1>1 DEF WriteConnect, Running, CallsWellFormed, CallWellFormed
    <2>2. arg[r].key \in Key /\ ConnectedRecord(r) \in Record
      BY <2>1, ConnectedRecordType DEF Arg
    <2>3. /\ store' \in [Key -> Record \cup {None}]
          /\ lagging' \in [Key -> SUBSET (Record \cup {None})]
          /\ overtaken' \subseteq Requests
      BY <1>1, <2>2, PutType DEF WriteConnect
    <2>4. Answer(r, "connected", None) /\ Forget(r) /\ UNCHANGED arg
      BY <1>1 DEF WriteConnect
    <2> QED
      BY <1>1, <2>1, <2>3, <2>4, EndType DEF WriteConnect, TypeOK
  <1>2. CASE WriteRevoke(r)
    <2>1. Running(r) /\ arg[r] \in Arg /\ snap[r] \in Record /\ stamp[r] \in Nat
      BY <1>2 DEF WriteRevoke, Running, CallsWellFormed, CallWellFormed, TypeOK
    <2>2. arg[r].key \in Key /\ RevokedRecord(snap[r], stamp[r]) \in Record
      BY <2>1, RevokedRecordType DEF Arg
    <2>3. /\ store' \in [Key -> Record \cup {None}]
          /\ lagging' \in [Key -> SUBSET (Record \cup {None})]
          /\ overtaken' \subseteq Requests
      BY <1>2, <2>2, PutType DEF WriteRevoke
    <2>4. Answer(r, "disconnected", None) /\ Forget(r) /\ UNCHANGED arg
      BY <1>2 DEF WriteRevoke
    <2>5. GrantsOf(store[arg[r].key]) \subseteq Requests
      BY <2>2 DEF GrantsOf, TypeOK, Record, Ciphertext
    <2>6. severed' \subseteq Requests /\ quiet' \subseteq Requests
      BY <1>2, <2>5 DEF WriteRevoke, TypeOK
    <2> QED
      BY <1>2, <2>1, <2>3, <2>4, <2>6, EndType DEF WriteRevoke, TypeOK
  <1>3. CASE WriteRenewed(r)
    <2> DEFINE rec == RenewedRecord(r, pc[r] = "rotating")
    <2>1. /\ Running(r) /\ arg[r] \in Arg /\ snap[r] \in Record
          /\ snap[r].refresh # None /\ stamp[r] \in Nat
      BY <1>3 DEF WriteRenewed, Running, CallsWellFormed, CallWellFormed, TypeOK
    <2>2. arg[r].key \in Key /\ rec \in Record
      BY <2>1, RenewedRecordType DEF Arg
    <2> HIDE DEF rec
    <2>3. /\ Put(r, rec)
          /\ UNCHANGED <<clock, google, arg, severed, quiet, misled>>
      BY <1>3 DEF WriteRenewed, rec
    <2>4. /\ store' \in [Key -> Record \cup {None}]
          /\ lagging' \in [Key -> SUBSET (Record \cup {None})]
          /\ overtaken' \subseteq Requests
      BY <2>2, <2>3, PutType
    <2>5. CASE Goto(r, "decrypting") /\ Hold(r, rec, stamp[r])
      <3>1. "decrypting" \in Steps \ {"new"}
        BY DEF Steps
      <3>2. /\ snap' \in [Requests -> Record \cup {None}] /\ snap'[r] = rec
            /\ stamp' \in [Requests -> Nat]
            /\ \A q \in Requests \ {r} : snap'[q] = snap[q]
        BY <2>1, <2>2, <2>5, HoldType
      <3> QED
        BY <2>1, <2>2, <2>3, <2>4, <2>5, <3>1, <3>2, GoOnType DEF TypeOK
    <2>6. CASE Answer(r, "refreshed", None) /\ Forget(r)
      BY <2>1, <2>3, <2>4, <2>6, EndType DEF TypeOK
    <2> QED
      BY <1>3, <2>5, <2>6 DEF WriteRenewed, rec
  <1>4. CASE WriteReconnectRequired(r)
    <2>1. Running(r) /\ arg[r] \in Arg /\ snap[r] \in Record /\ clock \in Nat
      BY <1>4 DEF WriteReconnectRequired, Running, CallsWellFormed, CallWellFormed, TypeOK
    <2>2. arg[r].key \in Key /\ RevokedRecord(snap[r], clock) \in Record
      BY <2>1, RevokedRecordType DEF Arg
    <2>3. /\ store' \in [Key -> Record \cup {None}]
          /\ lagging' \in [Key -> SUBSET (Record \cup {None})]
          /\ overtaken' \subseteq Requests
      BY <1>4, <2>2, PutType DEF WriteReconnectRequired
    <2>4. Answer(r, "revoked", None) /\ "revoked" \in Verdicts /\ Forget(r) /\ UNCHANGED arg
      BY <1>4 DEF WriteReconnectRequired, Verdicts
    <2> QED
      BY <1>4, <2>1, <2>3, <2>4, EndType DEF WriteReconnectRequired, TypeOK
  <1> QED
    BY <1>1, <1>2, <1>3, <1>4

LEMMA TypeInvReads ==
    ASSUME TypeInv, NEW r \in Requests,
           RereadForAccess(r) \/ ReadForRefresh(r) \/ DecryptForAccess(r)
    PROVE  TypeInv'
  <1> USE DEF TypeInv
  <1> DEFINE k == arg[r].key
  <1>1. Running(r) /\ arg[r] \in Arg /\ k \in Key /\ clock \in Nat
    BY DEF RereadForAccess, ReadForRefresh, DecryptForAccess, Running,
           CallsWellFormed, CallWellFormed, TypeOK, Arg
  <1>2. "calling" \in Steps \ {"new"} /\ "refreshing" \in Steps \ {"new"}
        /\ "decrypting" \in Steps \ {"new"}
    BY DEF Steps, WriteSteps
  <1>3. CASE RereadForAccess(r)
    <2>1. PICK rec \in Read(k) :
         /\ NoteRead(r, k, rec)
         /\ \/ Answer(r, "crashed", None) /\ UNCHANGED <<snap, stamp>>
            \/ Goto(r, "refreshing") /\ UNCHANGED <<snap, stamp>>
            \/ rec # None /\ Hold(r, rec, clock) /\ Goto(r, "decrypting")
      BY <1>3 DEF RereadForAccess
    <2>2. UNCHANGED <<clock, table, google, arg, severed, quiet, overtaken>>
          /\ misled' \subseteq Requests
      BY <1>3, <2>1, NoteType DEF RereadForAccess
    <2>3. CASE Answer(r, "crashed", None) /\ UNCHANGED <<snap, stamp>>
      BY <1>1, <2>2, <2>3, EndType DEF TypeOK, table
    <2>4. CASE Goto(r, "refreshing") /\ UNCHANGED <<snap, stamp>>
      BY <1>1, <1>2, <2>2, <2>4, GoOnType DEF TypeOK, table
    <2>5. CASE rec # None /\ Hold(r, rec, clock) /\ Goto(r, "decrypting")
      <3>1. rec \in Record
        BY <1>1, <2>5, ReadType
      <3>2. /\ snap' \in [Requests -> Record \cup {None}] /\ snap'[r] = rec
            /\ stamp' \in [Requests -> Nat]
            /\ \A q \in Requests \ {r} : snap'[q] = snap[q]
        BY <1>1, <2>5, <3>1, HoldType
      <3> QED
        BY <1>1, <1>2, <2>2, <2>5, <3>1, <3>2, GoOnType DEF TypeOK, table
    <2> QED
      BY <2>1, <2>3, <2>4, <2>5
  <1>4. CASE ReadForRefresh(r)
    <2>1. PICK rec \in Read(k) :
         /\ NoteRead(r, k, rec)
         /\ \/ Answer(r, "denied", None) /\ UNCHANGED <<snap, stamp>>
            \/ Refreshable(rec) /\ Hold(r, rec, clock) /\ Goto(r, "calling")
      BY <1>4 DEF ReadForRefresh
    <2>2. UNCHANGED <<clock, table, google, arg, severed, quiet, overtaken>>
          /\ misled' \subseteq Requests
      BY <1>4, <2>1, NoteType DEF ReadForRefresh
    <2>3. CASE Answer(r, "denied", None) /\ UNCHANGED <<snap, stamp>>
      BY <1>1, <2>2, <2>3, EndType DEF TypeOK, table
    <2>4. CASE Refreshable(rec) /\ Hold(r, rec, clock) /\ Goto(r, "calling")
      <3>1. rec \in Record /\ rec.refresh # None
        BY <1>1, <2>4, ReadType DEF Refreshable
      <3>2. /\ snap' \in [Requests -> Record \cup {None}] /\ snap'[r] = rec
            /\ stamp' \in [Requests -> Nat]
            /\ \A q \in Requests \ {r} : snap'[q] = snap[q]
        BY <1>1, <2>4, <3>1, HoldType
      <3> QED
        BY <1>1, <1>2, <2>2, <2>4, <3>1, <3>2, GoOnType DEF TypeOK, table
    <2> QED
      BY <2>1, <2>3, <2>4
  <1>5. CASE DecryptForAccess(r)
    <2>1. /\ UNCHANGED <<clock, table, google, arg, history>> /\ Forget(r)
          /\ snap[r] \in Record
      BY <1>5 DEF DecryptForAccess, CallsWellFormed, CallWellFormed, Running
    <2>2. CASE Answer(r, "crashed", None)
      BY <1>1, <2>1, <2>2, EndType DEF TypeOK, table, history
    <2>3. CASE Opens(snap[r].access, k) /\ Answer(r, "token", snap[r].access)
      <3>1. snap[r].access \in Ciphertext
        BY <2>1, <2>3 DEF Opens, Record
      <3> QED
        BY <1>1, <2>1, <2>3, <3>1, EndType DEF TypeOK, table, history
    <2> QED
      BY <1>5, <2>2, <2>3 DEF DecryptForAccess
  <1> QED
    BY <1>3, <1>4, <1>5

LEMMA TypeInvGoogle ==
    ASSUME TypeInv, NEW r \in Requests, GoogleAnswers(r) \/ RefreshFails(r)
    PROVE  TypeInv'
  <1> USE DEF TypeInv
  <1>1. /\ Running(r) /\ snap[r] \in Record /\ snap[r].refresh # None /\ clock \in Nat
    BY DEF GoogleAnswers, RefreshFails, Running, CallsWellFormed, CallWellFormed, TypeOK
  <1>2. /\ UNCHANGED <<clock, table, arg, snap, history>>
        /\ \E step \in {"renewing", "rotating", "marking"} : Goto(r, step)
    BY DEF GoogleAnswers, RefreshFails
  <1>3. /\ google' \in [Requests -> Requests \cup {None}]
        /\ stamp' \in [Requests -> Nat]
    BY <1>1 DEF GoogleAnswers, RefreshFails, TypeOK
  <1>4. {"renewing", "rotating", "marking"} \subseteq Steps \ {"new"}
    BY DEF Steps, WriteSteps
  <1>5. /\ pc' \in [Requests -> Steps]
        /\ reply' \in [Requests -> Replies \cup {None}]
        /\ CallsWellFormed'
    BY <1>1, <1>2, <1>4, GoOnType DEF TypeOK
  <1> QED
    BY <1>2, <1>3, <1>5 DEF TypeOK, table, history

LEMMA TypeInvNext == TypeInv /\ [Next]_vars => TypeInv'
  <1> SUFFICES ASSUME TypeInv, [Next]_vars PROVE TypeInv'
    OBVIOUS
  <1> USE DEF TypeInv
  <1>1. ASSUME NEW r \in Requests, Begin(r) PROVE TypeInv'
    BY <1>1, TypeInvBegin
  <1>2. ASSUME NEW r \in Requests, Continue(r) PROVE TypeInv'
    BY <1>2, TypeInvWrites, TypeInvReads, TypeInvGoogle DEF Continue
  <1>3. ASSUME NEW r \in Requests, GoogleAnswers(r) PROVE TypeInv'
    BY <1>3, TypeInvGoogle
  <1>4. ASSUME NEW r \in Requests, Abort(r) PROVE TypeInv'
    BY <1>4, EndType DEF Abort, TypeOK, table, history
  <1>5. CASE \/ \E g \in Requests : GoogleRevokes(g)
             \/ \E k \in Key : Replicate(k)
             \/ Tick
             \/ UNCHANGED vars
    <2>1. TypeOK'
      BY <1>5 DEF GoogleRevokes, Replicate, Tick, TypeOK, vars, table, calls, history
    <2>2. UNCHANGED <<pc, arg, snap>>
      BY <1>5 DEF GoogleRevokes, Replicate, Tick, vars, calls
    <2>3. CallsWellFormed'
      BY <2>2 DEF CallsWellFormed, CallWellFormed, Running
    <2> QED
      BY <2>1, <2>3
  <1> QED
    BY <1>1, <1>2, <1>3, <1>4, <1>5 DEF Next

\* Every variable of the token service keeps its type: each record stored or
\* held has all its fields, and each running call has the arguments and the
\* record its next step uses.
THEOREM TypeCorrect == Spec => []TypeOK
  <1>1. Init => TypeInv
    BY TypeInvInit
  <1>2. TypeInv /\ [Next]_vars => TypeInv'
    BY TypeInvNext
  <1>3. TypeInv => TypeOK
    BY DEF TypeInv
  <1> QED
    BY <1>1, <1>2, <1>3, PTL DEF Spec

-----------------------------------------------------------------------------
(* Tokens stay with their owner.                                           *)

\* The tokens of a record are its owner's, and the connect calls that brought
\* them have been answered.
Settled(rec, k) ==
    /\ Owned(rec, k)
    /\ rec # None => \A c \in {rec.access, rec.refresh} \ {None} : pc[c.grant] = "done"

CallSettled(r) ==
    /\ pc[r] \in {"new", "rereading", "refreshing"} => snap[r] = None
    /\ Running(r) => Settled(snap[r], arg[r].key)
    /\ pc[r] = "connecting" => arg[r].op = "connect"
    /\ reply[r] # None /\ reply[r].token # None =>
          /\ pc[reply[r].token.grant] = "done" /\ pc[r] = "done"
          /\ arg[reply[r].token.grant].key = arg[r].key

TableSettled == \A k \in Key : \A rec \in Read(k) : Settled(rec, k)

OwnerInv == TableSettled /\ \A r \in Requests : CallSettled(r)

\* A call once answered keeps its answer's step and its arguments.
DoneStays ==
    \A q \in Requests : pc[q] = "done" => pc'[q] = "done" /\ arg'[q] = arg[q]

LEMMA AnsweredStaysAnswered == TypeInv /\ [Next]_vars => DoneStays
  <1> SUFFICES ASSUME TypeInv, [Next]_vars PROVE DoneStays
    OBVIOUS
  <1>1. ASSUME NEW r \in Requests, pc[r] # "done",
               \E step : pc' = [pc EXCEPT ![r] = step],
               arg' = arg \/ \E a : arg' = [arg EXCEPT ![r] = a]
        PROVE  DoneStays
    BY <1>1 DEF DoneStays, TypeInv, TypeOK
  <1>2. ASSUME NEW r \in Requests, Begin(r) PROVE DoneStays
    BY <1>1, <1>2 DEF Begin, RefuseNonMember, RefuseInput, BeginConnect, BeginAccess,
       BeginRefresh, BeginRevoke, Accept, MayBegin, Goto, Answer
  <1>3. ASSUME NEW r \in Requests, Continue(r) \/ GoogleAnswers(r) \/ Abort(r) PROVE DoneStays
    BY <1>1, <1>3 DEF Continue, WriteConnect, WriteRevoke, RereadForAccess, ReadForRefresh,
       RefreshFails, WriteRenewed, WriteReconnectRequired, DecryptForAccess, GoogleAnswers,
       Abort, Running, Goto, Answer
  <1>4. CASE UNCHANGED <<pc, arg>>
    BY <1>4 DEF DoneStays
  <1> QED
    BY <1>2, <1>3, <1>4 DEF Next, GoogleRevokes, Replicate, Tick, vars, calls

\* Settled in the next state, of a record as it is now.
SettledNext(rec, k) ==
    rec # None => \A c \in {rec.access, rec.refresh} \ {None} :
        /\ c.context = k[1]
        /\ arg'[c.grant] # None /\ arg'[c.grant].op = "connect" /\ arg'[c.grant].key = k
        /\ pc'[c.grant] = "done"

LEMMA SettledStays ==
    ASSUME DoneStays, NEW k, NEW rec \in Record \cup {None}, Settled(rec, k)
    PROVE  SettledNext(rec, k)
  BY DEF DoneStays, Settled, SettledNext, Owned, Record, Ciphertext

\* What can be read of a table that does not change or catches up with itself
\* could be read before.
LEMMA TableReads ==
    ASSUME TypeInv, UNCHANGED table \/ \E j \in Key : Replicate(j),
           NEW k \in Key, NEW rec \in Read(k)'
    PROVE  rec \in Read(k)
  <1>1. rec = store'[k] \/ rec \in lagging'[k]
    BY DEF Read
  <1>2. CASE UNCHANGED table
    BY <1>1, <1>2 DEF Read, table
  <1>3. ASSUME NEW j \in Key, Replicate(j) PROVE rec \in Read(k)
    BY <1>1, <1>3 DEF Read, Replicate, TypeInv, TypeOK
  <1> QED
    BY <1>2, <1>3

\* A put adds the record it puts.
LEMMA PutReads ==
    ASSUME TypeInv, NEW r \in Requests, NEW new, Put(r, new),
           NEW k \in Key, NEW rec \in Read(k)'
    PROVE  rec \in Read(k) \/ (rec = new /\ k = arg[r].key)
  <1>1. rec = store'[k] \/ rec \in lagging'[k]
    BY DEF Read
  <1>2. store'[k] = store[k] \/ (store'[k] = new /\ k = arg[r].key)
    BY DEF Put, TypeInv, TypeOK
  <1>3. lagging'[k] \subseteq lagging[k] \cup {store[k]}
    BY DEF Put, Overwrite, TypeInv, TypeOK
  <1> QED
    BY <1>1, <1>2, <1>3 DEF Read

\* A table that does not change, catches up with itself or takes a settled
\* record stays settled.
LEMMA TableStays ==
    ASSUME TypeInv, OwnerInv, DoneStays,
           \/ UNCHANGED table
           \/ \E k \in Key : Replicate(k)
           \/ \E r \in Requests, rec \in Record : Put(r, rec) /\ SettledNext(rec, arg[r].key)
    PROVE  TableSettled'
  <1>1. ASSUME NEW k \in Key, NEW rec \in Read(k)
        PROVE  SettledNext(rec, k)
    BY <1>1, ReadType, SettledStays DEF OwnerInv, TableSettled, TypeInv
  <1>2. ASSUME NEW k \in Key, NEW rec \in Read(k)'
        PROVE  SettledNext(rec, k)
    <2>1. CASE UNCHANGED table \/ \E j \in Key : Replicate(j)
      BY <1>1, <1>2, <2>1, TableReads
    <2>2. ASSUME NEW r \in Requests, NEW new \in Record, Put(r, new),
                 SettledNext(new, arg[r].key)
          PROVE  SettledNext(rec, k)
      BY <1>1, <1>2, <2>2, PutReads
    <2> QED
      BY <2>1, <2>2
  <1>3. ASSUME NEW k, NEW rec, SettledNext(rec, k) PROVE Settled(rec, k)'
    BY <1>3 DEF Settled, SettledNext, Owned
  <1> QED
    BY <1>2, <1>3 DEF TableSettled

\* A step leaves the calls that do not take it settled.
LEMMA OtherCallStays ==
    ASSUME TypeInv, OwnerInv, DoneStays, NEW q \in Requests,
           pc'[q] = pc[q], arg'[q] = arg[q], snap'[q] = snap[q], reply'[q] = reply[q]
    PROVE  CallSettled(q)'
  <1> USE DEF TypeInv
  <1>1. CallSettled(q)
    BY DEF OwnerInv
  <1>2. Running(q) => SettledNext(snap[q], arg[q].key)
    BY <1>1, SettledStays DEF CallSettled, TypeOK
  <1>3. ASSUME reply[q] # None, reply[q].token # None
        PROVE  /\ pc'[reply[q].token.grant] = "done"
               /\ arg'[reply[q].token.grant] = arg[reply[q].token.grant]
    BY <1>1, <1>3 DEF CallSettled, DoneStays, TypeOK, Replies, Ciphertext
  <1> QED
    BY <1>1, <1>2, <1>3 DEF CallSettled, Settled, SettledNext, Owned, Running

\* The three records the service writes hold tokens of the key's owner only.
LEMMA RevokedSettled ==
    ASSUME NEW k, NEW rec \in Record, NEW now
    PROVE  SettledNext(RevokedRecord(rec, now), k)
  BY DEF SettledNext, RevokedRecord, Record

LEMMA ConnectedSettled ==
    ASSUME TypeInv, NEW r \in Requests, arg[r] \in Arg, arg[r].op = "connect",
           arg'[r] = arg[r], pc'[r] = "done", SettledNext(snap[r], arg[r].key)
    PROVE  SettledNext(ConnectedRecord(r), arg[r].key)
  <1> DEFINE k == arg[r].key
  <1>1. /\ ConnectedRecord(r).access = Encrypt(k, r, r)
        /\ ConnectedRecord(r).refresh \in {Encrypt(k, r, r), None}
              \cup (IF snap[r] # None THEN {snap[r].refresh} ELSE {})
    BY DEF ConnectedRecord
  <1>2. Encrypt(k, r, r).context = k[1] /\ Encrypt(k, r, r).grant = r
    BY DEF Encrypt
  <1>3. arg'[r] # None /\ arg'[r].op = "connect" /\ arg'[r].key = k
    BY NoneAssumption
  <1> QED
    BY <1>1, <1>2, <1>3 DEF SettledNext

LEMMA RenewedSettled ==
    ASSUME TypeInv, NEW r \in Requests, snap[r] \in Record, snap[r].refresh # None,
           NEW rotated \in BOOLEAN, SettledNext(snap[r], arg[r].key)
    PROVE  SettledNext(RenewedRecord(r, rotated), arg[r].key)
  <1> DEFINE k == arg[r].key
             grant == snap[r].refresh.grant
  <1>1. /\ RenewedRecord(r, rotated).access = Encrypt(k, grant, r)
        /\ RenewedRecord(r, rotated).refresh \in {Encrypt(k, grant, r), snap[r].refresh}
    BY DEF RenewedRecord, Record
  <1>2. Encrypt(k, grant, r).context = k[1] /\ Encrypt(k, grant, r).grant = grant
    BY DEF Encrypt
  <1>3. /\ arg'[grant] # None /\ arg'[grant].op = "connect" /\ arg'[grant].key = k
        /\ pc'[grant] = "done" /\ snap[r].refresh.context = k[1]
    BY NoneAssumption DEF SettledNext
  <1> QED
    BY <1>1, <1>2, <1>3 DEF SettledNext

LEMMA OwnerInvInit == Init => OwnerInv
  BY DEF Init, OwnerInv, TableSettled, Read, CallSettled, Settled, Owned, Running

\* A call that ends without a token, or with one that is settled for its key.
LEMMA EndSettled ==
    ASSUME TypeInv, OwnerInv, DoneStays, NEW r \in Requests, NEW kind, NEW token,
           Answer(r, kind, token), arg'[r] = arg[r],
           token = None \/ (pc'[token.grant] = "done" /\ arg'[token.grant].key = arg[r].key)
    PROVE  CallSettled(r)'
  <1>1. pc'[r] = "done" /\ reply'[r] = [kind |-> kind, token |-> token]
    BY DEF TypeInv, TypeOK, Answer
  <1> QED
    BY <1>1 DEF CallSettled, Running

LEMMA OwnerInvBegin ==
    ASSUME TypeInv, OwnerInv, DoneStays, NEW r \in Requests, Begin(r)
    PROVE  OwnerInv'
  <1> USE DEF TypeInv
  <1>1. UNCHANGED table
    BY DEF Begin, RefuseNonMember, RefuseInput, BeginConnect, BeginAccess, BeginRefresh, BeginRevoke
  <1>2. ASSUME NEW q \in Requests \ {r} PROVE CallSettled(q)'
    <2>1. pc'[q] = pc[q] /\ arg'[q] = arg[q] /\ snap'[q] = snap[q] /\ reply'[q] = reply[q]
      BY DEF Begin, RefuseNonMember, RefuseInput, BeginConnect, BeginAccess, BeginRefresh, BeginRevoke,
             Accept, Goto, Answer, Hold, TypeOK
    <2> QED
      BY <2>1, OtherCallStays
  <1>3. CallSettled(r)'
    <2>1. pc[r] = "new" /\ snap[r] = None /\ CallSettled(r)
      BY DEF Begin, RefuseNonMember, RefuseInput, BeginConnect, BeginAccess, BeginRefresh, BeginRevoke,
             Accept, MayBegin, OwnerInv, CallSettled
    <2>2. reply[r] = None \/ reply[r].token = None
      BY <2>1 DEF CallSettled
    <2>3. ASSUME NEW k \in Key, NEW rec \in Read(k)
          PROVE  rec \in Record \cup {None} /\ SettledNext(rec, k)
      BY <2>3, ReadType, SettledStays DEF OwnerInv, TableSettled
    <2>4. ASSUME NEW u \in Users,
                 RefuseNonMember(r, u) \/ \E applies \in BOOLEAN : RefuseInput(r, u, applies)
          PROVE  CallSettled(r)'
      <3>1. /\ pc'[r] = "done" /\ reply'[r].token = None
        BY <2>4 DEF RefuseNonMember, RefuseInput, Answer, TypeOK
      <3> QED
        BY <3>1 DEF CallSettled, Running
    <2>5. ASSUME NEW k \in Key, NEW scopes \in GrantedScopes, NEW offline \in BOOLEAN,
                 BeginConnect(r, k, scopes, offline)
          PROVE  CallSettled(r)'
      <3>1. PICK existing \in Read(k) : Hold(r, existing, clock)
        BY <2>5 DEF BeginConnect
      <3>2. /\ pc'[r] = "connecting" /\ reply'[r] = reply[r] /\ snap'[r] = existing
            /\ arg'[r].op = "connect" /\ arg'[r].key = k
        BY <2>5, <3>1 DEF BeginConnect, Accept, Goto, Hold, TypeOK
      <3>3. Settled(snap[r], arg[r].key)'
        BY <2>3, <3>1, <3>2 DEF SettledNext, Settled, Owned
      <3> QED
        BY <2>2, <3>2, <3>3 DEF CallSettled, Running
    <2>6. ASSUME NEW k \in Key, NEW required \in RequiredScopes, BeginAccess(r, k, required)
          PROVE  CallSettled(r)'
      <3>1. /\ pc'[r] \in {"rereading", "done"} /\ snap'[r] = None
            /\ reply'[r] = reply[r] \/ reply'[r].token = None
        BY <2>1, <2>6 DEF BeginAccess, Goto, Answer, TypeOK
      <3> QED
        BY <2>2, <3>1 DEF CallSettled, Running, Settled, Owned
    <2>7. ASSUME NEW k \in Key, BeginRefresh(r, k) PROVE CallSettled(r)'
      <3>1. pc'[r] = "refreshing" /\ snap'[r] = None /\ reply'[r] = reply[r]
        BY <2>1, <2>7 DEF BeginRefresh, Goto, TypeOK
      <3> QED
        BY <2>2, <3>1 DEF CallSettled, Running, Settled, Owned
    <2>8. ASSUME NEW k \in Key, BeginRevoke(r, k) PROVE CallSettled(r)'
      <3>1. arg'[r].key = k
        BY <2>8 DEF BeginRevoke, Accept, TypeOK
      <3>2. CASE Answer(r, "denied", None)
        <4>1. pc'[r] = "done" /\ reply'[r].token = None
          BY <3>2 DEF Answer, TypeOK
        <4> QED
          BY <4>1 DEF CallSettled, Running
      <3>3. ASSUME NEW rec \in Read(k), Hold(r, rec, clock), Goto(r, "revoking")
            PROVE  CallSettled(r)'
        <4>1. pc'[r] = "revoking" /\ snap'[r] = rec /\ reply'[r] = reply[r]
          BY <3>3 DEF Hold, Goto, TypeOK
        <4>2. Settled(snap[r], arg[r].key)'
          BY <2>3, <3>1, <3>3, <4>1 DEF SettledNext, Settled, Owned
        <4> QED
          BY <2>2, <4>1, <4>2 DEF CallSettled, Running
      <3> QED
        BY <2>8, <3>2, <3>3 DEF BeginRevoke
    <2> QED
      BY <2>4, <2>5, <2>6, <2>7, <2>8 DEF Begin
  <1> QED
    BY <1>1, <1>2, <1>3, TableStays DEF OwnerInv

\* A running call takes a step without touching the others or its arguments.
OneCall(r) ==
    /\ Running(r) /\ arg' = arg
    /\ \A q \in Requests \ {r} : pc'[q] = pc[q] /\ snap'[q] = snap[q] /\ reply'[q] = reply[q]

LEMMA ContinuesAlone ==
    ASSUME TypeInv, NEW r \in Requests, Continue(r) \/ GoogleAnswers(r) \/ Abort(r)
    PROVE  OneCall(r)
  BY DEF TypeInv, TypeOK, OneCall, Running, Continue, WriteConnect, WriteRevoke,
     RereadForAccess, ReadForRefresh, RefreshFails, WriteRenewed, WriteReconnectRequired,
     DecryptForAccess, GoogleAnswers, Abort, Goto, Answer, Forget, Hold

LEMMA OwnerInvContinue ==
    ASSUME TypeInv, OwnerInv, DoneStays, NEW r \in Requests,
           Continue(r) \/ GoogleAnswers(r) \/ Abort(r)
    PROVE  OwnerInv'
  <1> USE DEF TypeInv
  <1> DEFINE k == arg[r].key
  <1>1. OneCall(r) /\ Running(r) /\ arg'[r] = arg[r] /\ arg[r] \in Arg /\ k \in Key
    BY ContinuesAlone DEF OneCall, CallsWellFormed, CallWellFormed, Arg
  <1>2. /\ CallSettled(r) /\ CallWellFormed(r)
        /\ snap[r] \in Record \cup {None} /\ SettledNext(snap[r], k)
    BY <1>1, SettledStays DEF OwnerInv, CallSettled, CallsWellFormed, TypeOK
  <1>3. reply[r] = None \/ reply[r].token = None
    BY <1>1, <1>2 DEF CallSettled, Running
  <1>4. TableSettled' /\ CallSettled(r)' => OwnerInv'
    BY <1>1, OtherCallStays DEF OwnerInv, OneCall
  <1>5. ASSUME NEW kind, Answer(r, kind, None) PROVE CallSettled(r)'
    BY <1>1, <1>5, EndSettled
  <1>6. ASSUME NEW step \in {"refreshing", "decrypting", "calling", "renewing", "rotating", "marking"},
               Goto(r, step), SettledNext(snap'[r], k),
               step = "refreshing" => snap'[r] = None
        PROVE  CallSettled(r)'
    <2>1. pc'[r] = step /\ reply'[r] = reply[r]
      BY <1>6 DEF Goto, TypeOK
    <2>2. Settled(snap[r], arg[r].key)'
      BY <1>1, <1>6 DEF Settled, SettledNext, Owned
    <2> QED
      BY <1>3, <1>6, <2>1, <2>2 DEF CallSettled, Running
  <1>7. CASE WriteConnect(r)
    <2>1. /\ Answer(r, "connected", None) /\ pc'[r] = "done" /\ arg[r].op = "connect"
          /\ Put(r, ConnectedRecord(r))
      BY <1>2, <1>7 DEF WriteConnect, Answer, TypeOK, CallSettled
    <2>2. ConnectedRecord(r) \in Record /\ SettledNext(ConnectedRecord(r), k)
      BY <1>1, <1>2, <2>1, ConnectedRecordType, ConnectedSettled
    <2> QED
      BY <1>1, <1>4, <1>5, <2>1, <2>2, TableStays
  <1>8. CASE WriteRevoke(r)
    <2>1. /\ Answer(r, "disconnected", None) /\ snap[r] \in Record /\ stamp[r] \in Nat
          /\ Put(r, RevokedRecord(snap[r], stamp[r]))
      BY <1>1, <1>2, <1>8 DEF WriteRevoke, CallWellFormed, TypeOK
    <2>2. /\ RevokedRecord(snap[r], stamp[r]) \in Record
          /\ SettledNext(RevokedRecord(snap[r], stamp[r]), k)
      BY <2>1, RevokedRecordType, RevokedSettled
    <2> QED
      BY <1>1, <1>4, <1>5, <2>1, <2>2, TableStays
  <1>9. CASE WriteReconnectRequired(r)
    <2>1. /\ Answer(r, "revoked", None) /\ snap[r] \in Record /\ clock \in Nat
          /\ Put(r, RevokedRecord(snap[r], clock))
      BY <1>1, <1>2, <1>9 DEF WriteReconnectRequired, CallWellFormed, TypeOK
    <2>2. /\ RevokedRecord(snap[r], clock) \in Record
          /\ SettledNext(RevokedRecord(snap[r], clock), k)
      BY <2>1, RevokedRecordType, RevokedSettled
    <2> QED
      BY <1>1, <1>4, <1>5, <2>1, <2>2, TableStays
  <1>10. CASE WriteRenewed(r)
    <2> DEFINE rec == RenewedRecord(r, pc[r] = "rotating")
    <2>1. snap[r] \in Record /\ snap[r].refresh # None
      BY <1>1, <1>2, <1>10 DEF WriteRenewed, CallWellFormed
    <2>2. rec \in Record /\ SettledNext(rec, k)
      BY <1>1, <1>2, <2>1, RenewedRecordType, RenewedSettled
    <2> HIDE DEF rec
    <2>3. Put(r, rec)
      BY <1>10 DEF WriteRenewed, rec
    <2>4. TableSettled'
      BY <1>1, <2>2, <2>3, TableStays
    <2>5. CASE Goto(r, "decrypting") /\ Hold(r, rec, stamp[r])
      <3>1. snap'[r] = rec
        BY <2>5 DEF Hold, TypeOK
      <3> QED
        BY <1>4, <1>6, <2>2, <2>4, <2>5, <3>1
    <2>6. CASE Answer(r, "refreshed", None)
      BY <1>4, <1>5, <2>4, <2>6
    <2> QED
      BY <1>10, <2>5, <2>6 DEF WriteRenewed, rec
  <1>11. CASE RereadForAccess(r)
    <2>1. UNCHANGED table /\ snap[r] = None
      BY <1>2, <1>11 DEF RereadForAccess, CallSettled
    <2>2. PICK rec \in Read(k) :
            \/ Answer(r, "crashed", None)
            \/ Goto(r, "refreshing") /\ snap' = snap
            \/ Hold(r, rec, clock) /\ Goto(r, "decrypting")
      BY <1>11 DEF RereadForAccess
    <2>3. SettledNext(rec, k) /\ SettledNext(None, k)
      BY <1>1, ReadType, SettledStays DEF OwnerInv, TableSettled, SettledNext
    <2>4. Hold(r, rec, clock) => snap'[r] = rec
      BY DEF Hold, TypeOK
    <2> QED
      BY <1>4, <1>5, <1>6, <2>1, <2>2, <2>3, <2>4, TableStays
  <1>12. CASE ReadForRefresh(r)
    <2>1. UNCHANGED table
      BY <1>12 DEF ReadForRefresh
    <2>2. PICK rec \in Read(k) :
            Answer(r, "denied", None) \/ (Hold(r, rec, clock) /\ Goto(r, "calling"))
      BY <1>12 DEF ReadForRefresh
    <2>3. SettledNext(rec, k)
      BY <1>1, ReadType, SettledStays DEF OwnerInv, TableSettled
    <2>4. Hold(r, rec, clock) => snap'[r] = rec
      BY DEF Hold, TypeOK
    <2> QED
      BY <1>4, <1>5, <1>6, <2>1, <2>2, <2>3, <2>4, TableStays
  <1>13. CASE DecryptForAccess(r)
    <2>1. UNCHANGED table /\ snap[r] \in Record
      BY <1>1, <1>2, <1>13 DEF DecryptForAccess, CallWellFormed
    <2>2. CASE Answer(r, "crashed", None)
      BY <1>4, <1>5, <2>1, <2>2, TableStays
    <2>3. CASE Opens(snap[r].access, k) /\ Answer(r, "token", snap[r].access)
      <3>1. /\ pc'[snap[r].access.grant] = "done"
            /\ arg'[snap[r].access.grant].key = k
        BY <1>2, <2>1, <2>3, NoneAssumption DEF SettledNext, Opens
      <3>2. CallSettled(r)'
        BY <1>1, <2>3, <3>1, EndSettled
      <3> QED
        BY <1>4, <2>1, <3>2, TableStays
    <2> QED
      BY <1>13, <2>2, <2>3 DEF DecryptForAccess
  <1>14. CASE GoogleAnswers(r) \/ RefreshFails(r)
    <2>1. /\ UNCHANGED table /\ snap' = snap
          /\ \E step \in {"renewing", "rotating", "marking"} : Goto(r, step)
      BY <1>14 DEF GoogleAnswers, RefreshFails
    <2> QED
      BY <1>2, <1>4, <1>6, <2>1, TableStays
  <1>15. CASE Abort(r)
    BY <1>4, <1>5, <1>15, TableStays DEF Abort
  <1> QED
    BY <1>7, <1>8, <1>9, <1>10, <1>11, <1>12, <1>13, <1>14, <1>15 DEF Continue

LEMMA OwnerInvNext == TypeInv /\ OwnerInv /\ [Next]_vars => OwnerInv'
  <1> SUFFICES ASSUME TypeInv, OwnerInv, [Next]_vars PROVE OwnerInv'
    OBVIOUS
  <1>1. DoneStays
    BY AnsweredStaysAnswered
  <1>2. ASSUME NEW r \in Requests, Begin(r) PROVE OwnerInv'
    BY <1>1, <1>2, OwnerInvBegin
  <1>3. ASSUME NEW r \in Requests, Continue(r) \/ GoogleAnswers(r) \/ Abort(r) PROVE OwnerInv'
    BY <1>1, <1>3, OwnerInvContinue
  <1>4. CASE UNCHANGED calls /\ (UNCHANGED table \/ \E k \in Key : Replicate(k))
    BY <1>1, <1>4, TableStays, OtherCallStays DEF calls, OwnerInv
  <1> QED
    BY <1>2, <1>3, <1>4 DEF Next, GoogleRevokes, Replicate, Tick, vars, calls, table

\* In the table, in the memory of a call and in an answer, tokens are their
\* owner's: sealed for the user of the key and granted for its account, through
\* every interleaving, crash and stale read.
THEOREM OwnersKeepTheirTokens == Spec => []TokensStayWithOwner
  <1>1. Init => TypeInv /\ OwnerInv
    BY TypeInvInit, OwnerInvInit
  <1>2. TypeInv /\ OwnerInv /\ [Next]_vars => TypeInv' /\ OwnerInv'
    BY TypeInvNext, OwnerInvNext
  <1>3. TypeInv /\ OwnerInv => TokensStayWithOwner
    BY DEF OwnerInv, TableSettled, CallSettled, Settled, TokensStayWithOwner
  <1> QED
    BY <1>1, <1>2, <1>3, PTL DEF Spec

=============================================================================
