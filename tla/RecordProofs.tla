----------------------------- MODULE RecordProofs -----------------------------
(***************************************************************************)
(* What a record says of itself is true: of its status, of its scopes, of  *)
(* its usefulness, for every set of users, accounts, scopes and calls.     *)
(***************************************************************************)
EXTENDS OAuthTokensProofs

ScopesWithin(rec) ==
    rec # None /\ rec.access # None => rec.scopes \subseteq arg[rec.access.grant].scopes

\* The two tokens of a record are of one grant, unless the access token is that
\* of a reconnect that brought no refresh token of its own.
OneGrantOrReconnect(rec) ==
    rec # None /\ rec.access # None /\ rec.refresh # None =>
        \/ rec.access.grant = rec.refresh.grant
        \/ rec.access.by = rec.access.grant /\ ~arg[rec.access.grant].offline

Sound(rec) == WellFormed(rec) /\ ScopesWithin(rec) /\ OneGrantOrReconnect(rec)

\* The record a call holds is sound, and when Google has granted a refresh its
\* scopes were within the grant of the refresh token: without the second part a
\* renewed record could claim the scopes of a reconnect for an older grant.
CallSound(r) ==
    /\ Running(r) => Sound(snap[r])
    /\ pc[r] \in {"renewing", "rotating"} =>
          snap[r].scopes \subseteq arg[snap[r].refresh.grant].scopes

TableSound == \A k \in Key : \A rec \in Read(k) : Sound(rec)

RecordInv == TableSound /\ \A r \in Requests : CallSound(r)

-----------------------------------------------------------------------------
(* Sound in the next state, of a record as it is now.                      *)

SoundNext(rec) ==
    /\ WellFormed(rec)
    /\ rec # None /\ rec.access # None => rec.scopes \subseteq arg'[rec.access.grant].scopes
    /\ rec # None /\ rec.access # None /\ rec.refresh # None =>
          \/ rec.access.grant = rec.refresh.grant
          \/ rec.access.by = rec.access.grant /\ ~arg'[rec.access.grant].offline

LEMMA SoundStays ==
    ASSUME DoneStays, NEW k, NEW rec \in Record \cup {None}, Settled(rec, k), Sound(rec)
    PROVE  SoundNext(rec)
  <1>1. rec # None /\ rec.access # None =>
            rec.access.grant \in Requests /\ arg'[rec.access.grant] = arg[rec.access.grant]
    BY DEF DoneStays, Settled, Record, Ciphertext
  <1> QED
    BY <1>1 DEF Sound, SoundNext, ScopesWithin, OneGrantOrReconnect

\* A table that does not change, catches up with itself or takes a sound record
\* stays sound.
LEMMA TableStaysSound ==
    ASSUME TypeInv, OwnerInv, RecordInv, DoneStays,
           \/ UNCHANGED table
           \/ \E k \in Key : Replicate(k)
           \/ \E r \in Requests, rec \in Record : Put(r, rec) /\ SoundNext(rec)
    PROVE  TableSound'
  <1>1. ASSUME NEW k \in Key, NEW rec \in Read(k) PROVE SoundNext(rec)
    BY <1>1, ReadType, SoundStays DEF OwnerInv, TableSettled, RecordInv, TableSound, TypeInv
  <1>2. ASSUME NEW k \in Key, NEW rec \in Read(k)' PROVE SoundNext(rec)
    <2>1. CASE UNCHANGED table \/ \E j \in Key : Replicate(j)
      BY <1>1, <1>2, <2>1, TableReads
    <2>2. ASSUME NEW r \in Requests, NEW new \in Record, Put(r, new), SoundNext(new)
          PROVE  SoundNext(rec)
      BY <1>1, <1>2, <2>2, PutReads
    <2> QED
      BY <2>1, <2>2
  <1>3. ASSUME NEW rec, SoundNext(rec) PROVE Sound(rec)'
    BY <1>3 DEF Sound, SoundNext, ScopesWithin, OneGrantOrReconnect, WellFormed
  <1> QED
    BY <1>2, <1>3 DEF TableSound

\* A step leaves the calls that do not take it sound.
LEMMA OtherCallSound ==
    ASSUME TypeInv, OwnerInv, RecordInv, DoneStays, NEW q \in Requests,
           pc'[q] = pc[q], arg'[q] = arg[q], snap'[q] = snap[q]
    PROVE  CallSound(q)'
  <1>1. CallSound(q) /\ CallSettled(q) /\ CallWellFormed(q)
    BY DEF RecordInv, OwnerInv, TypeInv, CallsWellFormed
  <1>2. Running(q) => SoundNext(snap[q])
    BY <1>1, SoundStays DEF CallSound, CallSettled, TypeInv, TypeOK
  <1>3. pc[q] \in {"renewing", "rotating"} =>
            arg'[snap[q].refresh.grant] = arg[snap[q].refresh.grant]
    <2> SUFFICES ASSUME pc[q] \in {"renewing", "rotating"}
                 PROVE  arg'[snap[q].refresh.grant] = arg[snap[q].refresh.grant]
      OBVIOUS
    <2>1. snap[q] \in Record /\ snap[q].refresh \in Ciphertext /\ snap[q] # None
      BY <1>1, NoneAssumption DEF CallWellFormed, Running, Record
    <2>2. pc[snap[q].refresh.grant] = "done" /\ snap[q].refresh.grant \in Requests
      BY <1>1, <2>1, NoneAssumption DEF CallSettled, Running, Settled, Ciphertext
    <2> QED
      BY <2>2 DEF DoneStays
  <1> QED
    BY <1>1, <1>2, <1>3 DEF CallSound, Sound, SoundNext, ScopesWithin, OneGrantOrReconnect, WellFormed, Running

-----------------------------------------------------------------------------
(* The three records the service writes are sound.                         *)

LEMMA RevokedSound ==
    ASSUME NEW rec \in Record, NEW now \in Nat
    PROVE  SoundNext(RevokedRecord(rec, now))
  <1>1. /\ RevokedRecord(rec, now).status = "revoked" /\ RevokedRecord(rec, now).revokedAt = now
        /\ RevokedRecord(rec, now).access = None /\ RevokedRecord(rec, now).refresh = None
    BY DEF RevokedRecord, Record
  <1>2. now # None
    BY NoneAssumption
  <1> QED
    BY <1>1, <1>2 DEF SoundNext, WellFormed

LEMMA ConnectedSound ==
    ASSUME TypeInv, NEW r \in Requests, arg[r] \in Arg, arg'[r] = arg[r]
    PROVE  SoundNext(ConnectedRecord(r))
  <1>1. Encrypt(arg[r].key, r, r) # None
    <2>1. Encrypt(arg[r].key, r, r) \in Ciphertext
      BY DEF Encrypt, Ciphertext, Arg, Key
    <2> QED
      BY <2>1, NoneAssumption
  <1>2. /\ ConnectedRecord(r).status = "active" /\ ConnectedRecord(r).revokedAt = None
        /\ ConnectedRecord(r).access # None /\ ConnectedRecord(r).access.grant = r
        /\ ConnectedRecord(r).access.by = r
        /\ arg[r].offline => ConnectedRecord(r).refresh.grant = r
        /\ ConnectedRecord(r).scopes = arg[r].scopes
    BY <1>1 DEF ConnectedRecord, Encrypt
  <1> QED
    BY <1>2 DEF SoundNext, WellFormed

LEMMA RenewedSound ==
    ASSUME TypeInv, NEW r \in Requests, arg[r] \in Arg, snap[r] \in Record,
           snap[r].refresh # None, NEW rotated \in BOOLEAN,
           snap[r].scopes \subseteq arg'[snap[r].refresh.grant].scopes
    PROVE  SoundNext(RenewedRecord(r, rotated))
  <1> DEFINE grant == snap[r].refresh.grant
  <1>1. Encrypt(arg[r].key, grant, r) # None /\ Encrypt(arg[r].key, grant, r).grant = grant
    <2>1. Encrypt(arg[r].key, grant, r) \in Ciphertext
      BY DEF Encrypt, Ciphertext, Arg, Key, Record
    <2> QED
      BY <2>1, NoneAssumption DEF Encrypt
  <1>2. /\ RenewedRecord(r, rotated).status = "active"
        /\ RenewedRecord(r, rotated).revokedAt = None
        /\ RenewedRecord(r, rotated).access = Encrypt(arg[r].key, grant, r)
        /\ RenewedRecord(r, rotated).scopes = snap[r].scopes
    BY DEF RenewedRecord, Record
  <1>3. RenewedRecord(r, rotated).refresh.grant = grant
    BY <1>1 DEF RenewedRecord, Record
  <1> QED
    BY <1>1, <1>2, <1>3 DEF SoundNext, WellFormed

-----------------------------------------------------------------------------
LEMMA RecordInvInit == Init => RecordInv
  BY DEF Init, RecordInv, TableSound, Read, CallSound, Sound, WellFormed, ScopesWithin, OneGrantOrReconnect, Running

\* A call ends, or goes on with a sound record; only Google's answer takes it to
\* the steps that renew.
LEMMA EndSound ==
    ASSUME NEW r \in Requests, pc'[r] = "done"
    PROVE  CallSound(r)'
  BY DEF CallSound, Running

LEMMA GoOnSound ==
    ASSUME NEW r \in Requests, pc'[r] \notin {"renewing", "rotating"}, SoundNext(snap'[r])
    PROVE  CallSound(r)'
  BY DEF CallSound, Sound, SoundNext, ScopesWithin, OneGrantOrReconnect, WellFormed

LEMMA RecordInvBegin ==
    ASSUME TypeInv, OwnerInv, RecordInv, DoneStays, NEW r \in Requests, Begin(r)
    PROVE  RecordInv'
  <1>1. UNCHANGED table
    BY DEF Begin, RefuseNonMember, RefuseInput, BeginConnect, BeginAccess, BeginRefresh, BeginRevoke
  <1>2. ASSUME NEW q \in Requests \ {r} PROVE CallSound(q)'
    <2>1. pc'[q] = pc[q] /\ arg'[q] = arg[q] /\ snap'[q] = snap[q]
      BY DEF Begin, RefuseNonMember, RefuseInput, BeginConnect, BeginAccess, BeginRefresh, BeginRevoke,
             Accept, Goto, Answer, Hold, TypeInv, TypeOK
    <2> QED
      BY <2>1, OtherCallSound
  <1>3. pc[r] = "new" /\ snap[r] = None
    BY DEF Begin, RefuseNonMember, RefuseInput, BeginConnect, BeginAccess, BeginRefresh, BeginRevoke,
           Accept, MayBegin, OwnerInv, CallSettled
  <1>4. SoundNext(None) /\ \A k \in Key : \A rec \in Read(k) : SoundNext(rec)
    BY ReadType, SoundStays DEF OwnerInv, TableSettled, RecordInv, TableSound, TypeInv,
                      SoundNext, WellFormed
  <1>5. /\ pc'[r] \in {"connecting", "rereading", "refreshing", "revoking", "done"}
        /\ pc'[r] = "done" \/ SoundNext(snap'[r])
    <2>1. ASSUME NEW k \in Key, NEW scopes \in GrantedScopes, NEW offline \in BOOLEAN,
                 BeginConnect(r, k, scopes, offline)
          PROVE  pc'[r] = "connecting" /\ SoundNext(snap'[r])
      BY <1>4, <2>1 DEF BeginConnect, Goto, Hold, TypeInv, TypeOK
    <2>2. ASSUME NEW k \in Key, BeginRevoke(r, k)
          PROVE  pc'[r] = "done" \/ (pc'[r] = "revoking" /\ SoundNext(snap'[r]))
      BY <1>4, <2>2 DEF BeginRevoke, Goto, Hold, Answer, TypeInv, TypeOK
    <2>3. ASSUME NEW k \in Key, NEW required \in RequiredScopes, BeginAccess(r, k, required)
          PROVE  pc'[r] \in {"rereading", "done"} /\ SoundNext(snap'[r])
      BY <1>3, <1>4, <2>3 DEF BeginAccess, Goto, Answer, TypeInv, TypeOK
    <2>4. ASSUME NEW k \in Key, BeginRefresh(r, k)
          PROVE  pc'[r] = "refreshing" /\ SoundNext(snap'[r])
      BY <1>3, <1>4, <2>4 DEF BeginRefresh, Goto, TypeInv, TypeOK
    <2>5. ASSUME NEW u \in Users,
                 RefuseNonMember(r, u) \/ \E applies \in BOOLEAN : RefuseInput(r, u, applies)
          PROVE  pc'[r] = "done"
      BY <2>5 DEF RefuseNonMember, RefuseInput, Answer, TypeInv, TypeOK
    <2> QED
      BY <2>1, <2>2, <2>3, <2>4, <2>5 DEF Begin
  <1>6. CallSound(r)'
    BY <1>5, EndSound, GoOnSound
  <1> QED
    BY <1>1, <1>2, <1>6, TableStaysSound DEF RecordInv

LEMMA RecordInvContinue ==
    ASSUME TypeInv, OwnerInv, RecordInv, DoneStays, NEW r \in Requests,
           Continue(r) \/ GoogleAnswers(r) \/ Abort(r)
    PROVE  RecordInv'
  <1> DEFINE k == arg[r].key
  <1>1. OneCall(r) /\ Running(r) /\ arg'[r] = arg[r] /\ arg[r] \in Arg /\ k \in Key
    BY ContinuesAlone DEF OneCall, TypeInv, CallsWellFormed, CallWellFormed, Arg
  <1>2. /\ CallSound(r) /\ CallWellFormed(r) /\ snap[r] \in Record \cup {None}
        /\ SoundNext(snap[r])
    <2>1. CallSound(r) /\ CallWellFormed(r) /\ CallSettled(r) /\ snap[r] \in Record \cup {None}
      BY DEF RecordInv, OwnerInv, TypeInv, CallsWellFormed, TypeOK
    <2> QED
      BY <1>1, <2>1, SoundStays DEF CallSound, CallSettled
  <1>3. TableSound' /\ CallSound(r)' => RecordInv'
    BY <1>1, OtherCallSound DEF RecordInv, OneCall
  <1>4. \A rec \in Read(k) : SoundNext(rec)
    BY <1>1, ReadType, SoundStays DEF OwnerInv, TableSettled, RecordInv, TableSound, TypeInv
  <1>5. CASE WriteConnect(r)
    <2>1. Put(r, ConnectedRecord(r)) /\ pc'[r] = "done"
      BY <1>5 DEF WriteConnect, Answer, TypeInv, TypeOK
    <2>2. ConnectedRecord(r) \in Record /\ SoundNext(ConnectedRecord(r))
      BY <1>1, ConnectedRecordType, ConnectedSound DEF TypeInv
    <2> QED
      BY <1>1, <1>3, <2>1, <2>2, EndSound, TableStaysSound
  <1>6. CASE WriteRevoke(r) \/ WriteReconnectRequired(r)
    <2>1. PICK now \in Nat : Put(r, RevokedRecord(snap[r], now))
      BY <1>6 DEF WriteRevoke, WriteReconnectRequired, TypeInv, TypeOK
    <2>2. snap[r] \in Record /\ pc'[r] = "done"
      BY <1>1, <1>2, <1>6 DEF WriteRevoke, WriteReconnectRequired, CallWellFormed, Answer,
                              TypeInv, TypeOK
    <2>3. RevokedRecord(snap[r], now) \in Record /\ SoundNext(RevokedRecord(snap[r], now))
      BY <2>2, RevokedRecordType, RevokedSound
    <2> QED
      BY <1>1, <1>3, <2>1, <2>2, <2>3, EndSound, TableStaysSound
  <1>7. CASE WriteRenewed(r)
    <2> DEFINE rec == RenewedRecord(r, pc[r] = "rotating")
    <2>1. /\ snap[r] \in Record /\ snap[r].refresh # None
          /\ snap[r].scopes \subseteq arg'[snap[r].refresh.grant].scopes
      BY <1>1, <1>2, <1>7 DEF WriteRenewed, CallWellFormed, CallSound, OneCall
    <2>2. rec \in Record /\ SoundNext(rec)
      BY <1>1, <2>1, RenewedRecordType, RenewedSound DEF TypeInv
    <2> HIDE DEF rec
    <2>3. Put(r, rec) /\ (pc'[r] = "done" \/ (pc'[r] = "decrypting" /\ snap'[r] = rec))
      BY <1>7 DEF WriteRenewed, rec, Answer, Goto, Hold, TypeInv, TypeOK
    <2> QED
      BY <1>1, <1>3, <2>2, <2>3, EndSound, GoOnSound, TableStaysSound
  <1>8. CASE RereadForAccess(r) \/ ReadForRefresh(r)
    <2>1. /\ UNCHANGED table
          /\ pc'[r] \in {"done", "refreshing", "decrypting", "calling"}
          /\ snap'[r] = snap[r] \/ snap'[r] \in Read(k)
      BY <1>8 DEF RereadForAccess, ReadForRefresh, Answer, Goto, Hold, TypeInv, TypeOK
    <2> QED
      BY <1>2, <1>3, <1>4, <2>1, GoOnSound, TableStaysSound
  <1>9. CASE DecryptForAccess(r) \/ Abort(r)
    <2>1. UNCHANGED table /\ pc'[r] = "done"
      BY <1>9 DEF DecryptForAccess, Abort, Answer, TypeInv, TypeOK
    <2> QED
      BY <1>3, <2>1, EndSound, TableStaysSound
  <1>10. CASE GoogleAnswers(r) \/ RefreshFails(r)
    <2>1. /\ UNCHANGED table /\ snap' = snap /\ arg' = arg
          /\ \/ pc'[r] = "marking"
             \/ GoogleAccepts(snap[r].refresh, snap[r].scopes)
      BY <1>10 DEF GoogleAnswers, RefreshFails, Goto, TypeInv, TypeOK
    <2>2. CallSound(r)'
      <3>1. CASE pc'[r] = "marking"
        BY <1>2, <2>1, <3>1, GoOnSound
      <3>2. CASE GoogleAccepts(snap[r].refresh, snap[r].scopes)
        BY <1>1, <1>2, <2>1, <3>2 DEF GoogleAccepts, CallSound, Sound, ScopesWithin, OneGrantOrReconnect, WellFormed
      <3> QED
        BY <2>1, <3>1, <3>2
    <2> QED
      BY <1>3, <2>1, <2>2, TableStaysSound
  <1> QED
    BY <1>5, <1>6, <1>7, <1>8, <1>9, <1>10 DEF Continue

LEMMA RecordInvNext ==
    TypeInv /\ OwnerInv /\ RecordInv /\ [Next]_vars => RecordInv'
  <1> SUFFICES ASSUME TypeInv, OwnerInv, RecordInv, [Next]_vars PROVE RecordInv'
    OBVIOUS
  <1>1. DoneStays
    BY AnsweredStaysAnswered
  <1>2. ASSUME NEW r \in Requests, Begin(r) PROVE RecordInv'
    BY <1>1, <1>2, RecordInvBegin
  <1>3. ASSUME NEW r \in Requests, Continue(r) \/ GoogleAnswers(r) \/ Abort(r) PROVE RecordInv'
    BY <1>1, <1>3, RecordInvContinue
  <1>4. CASE UNCHANGED calls /\ (UNCHANGED table \/ \E k \in Key : Replicate(k))
    BY <1>1, <1>4, TableStaysSound, OtherCallSound DEF calls, RecordInv
  <1> QED
    BY <1>2, <1>3, <1>4 DEF Next, GoogleRevokes, Replicate, Tick, vars, calls, table

LEMMA RecordsSound == Spec => [](TypeInv /\ RecordInv)
  <1>1. Init => TypeInv /\ OwnerInv /\ RecordInv
    BY TypeInvInit, OwnerInvInit, RecordInvInit
  <1>2. TypeInv /\ OwnerInv /\ RecordInv /\ [Next]_vars => TypeInv' /\ OwnerInv' /\ RecordInv'
    BY TypeInvNext, OwnerInvNext, RecordInvNext
  <1> QED
    BY <1>1, <1>2, PTL DEF Spec

-----------------------------------------------------------------------------
\* The status, the revocation time and the tokens of a record go together: it is
\* revoked, with a time and without tokens, or active with an access token, in
\* the table, in a stale read and in the memory of a running call.
THEOREM RecordsAreWhole == Spec => []RevokedHoldsNoTokens
  <1>1. TypeInv /\ RecordInv => RevokedHoldsNoTokens
    BY DEF RecordInv, TableSound, CallSound, Sound, RevokedHoldsNoTokens
  <1> QED
    BY <1>1, RecordsSound, PTL

\* An active record claims no scope that the grant behind its access token does
\* not allow, whichever calls connected, reconnected and refreshed it.
THEOREM ScopesStayWithinGrant == Spec => []ScopesMatchToken
  <1>1. TypeInv /\ RecordInv => ScopesMatchToken
    BY DEF RecordInv, TableSound, Read, Sound, ScopesWithin, ScopesMatchToken
  <1> QED
    BY <1>1, RecordsSound, PTL

\* assert_google_token_usable, the availability of get_google_status and the
\* handoff status agree on every record at every time.
THEOREM JudgesAgree == Spec => []ViewsAgree
  <1>1. TypeInv /\ RecordInv => ViewsAgree
    <2> SUFFICES ASSUME TypeInv, NEW k \in Key, NEW required \in RequiredScopes, store[k] # None
                 PROVE  LET verdict == HandoffVerdict(store[k], required, clock) IN
                        /\ AssertUsable(store[k], clock) <=> IsAvailable(store[k], clock)
                        /\ IsAvailable(store[k], clock)
                             <=> verdict \in {"refresh", "usable", "insufficient_scope"}
      BY DEF ViewsAgree
    <2>1. store[k].expiresAt \in Nat /\ clock \in Nat
      BY DEF TypeInv, TypeOK, Record
    <2> QED
      BY <2>1 DEF AssertUsable, IsAvailable, IsRevoked, IsExpired, HandoffVerdict
  <1> QED
    BY <1>1, RecordsSound, PTL

\* Google refuses a refresh token it still honours, for the scopes of the record,
\* only where a reconnect that brought no refresh token has widened them.
THEOREM RefusalIsOfReconnect == Spec => []RefusalBlamesReconnect
  <1>1. TypeInv /\ RecordInv => RefusalBlamesReconnect
    <2> SUFFICES ASSUME RecordInv, NEW k \in Key,
                        store[k] # None, store[k].access # None, store[k].refresh # None,
                        google[store[k].refresh.grant] = store[k].refresh.by,
                        ~GoogleAccepts(store[k].refresh, store[k].scopes)
                 PROVE  LET reconnect == store[k].access.grant IN
                        /\ store[k].access.by = reconnect /\ ~arg[reconnect].offline
                        /\ ~(arg[reconnect].scopes \subseteq arg[store[k].refresh.grant].scopes)
      BY DEF RefusalBlamesReconnect
    <2>1. ScopesWithin(store[k]) /\ OneGrantOrReconnect(store[k])
      BY DEF RecordInv, TableSound, Read, Sound
    <2>2. ~(store[k].scopes \subseteq arg[store[k].refresh.grant].scopes)
      BY DEF GoogleAccepts
    <2> QED
      BY <2>1, <2>2 DEF ScopesWithin, OneGrantOrReconnect
  <1> QED
    BY <1>1, RecordsSound, PTL

=============================================================================
