----------------------------- MODULE OAuthTokens -----------------------------
(***************************************************************************)
(* The Google token lifecycle of oauth_tokens.py: OAuthTokenService over   *)
(* the DynamoDB token table, with KMS and Google behind it.                *)
(*                                                                         *)
(* Every service call is a member of Requests.  It runs as a thread or a   *)
(* container of its own, so the steps of different calls interleave at     *)
(* each table read, table write and call to Google.  The table has no      *)
(* conditional write: a call writes back the whole record it once read.    *)
(***************************************************************************)
EXTENDS Integers

CONSTANTS
    Users,             \* server-derived identities, one per (tenantId, userId)
    Members,           \* those whose tenant, user and membership are active
    Accounts,          \* Google account ids
    Requests,          \* service calls, each made at most once
    Scopes,            \* OAuth scopes
    DocsScope,         \* .../auth/documents
    DocsReadonlyScope, \* .../auth/documents.readonly
    GrantedScopes,     \* the scope lists a connection can be granted
    RequiredScopes,    \* the scope lists a token handoff can ask for
    Lifetime,          \* how long an access token lives
    MaxTime,           \* bound on the clock
    EventualReads,     \* TRUE: a table read may return an overwritten record
    None               \* the absent value

VARIABLES
    clock,    \* the service clock
    store,    \* the token table: the last record written under each key
    lagging,  \* the overwritten records a read can still return
    google,   \* per grant, the call that was given the refresh token Google
              \* accepts now (None: it accepts none)
    pc,       \* per call, the step it is about to take
    arg,      \* per call, its operation and arguments
    snap,     \* per call, the record it holds in memory
    stamp,    \* per call, the time it took from the clock
    reply,    \* per call, its answer
    severed,   \* history: the grants whose tokens a disconnect removed
    quiet,     \* history: those removed while no other call held the record
    overtaken, \* history: the calls whose record another call wrote meanwhile
    misled     \* history: the calls that read an overwritten record

calls == <<pc, arg, snap, stamp, reply>>
table == <<store, lagging>>
history == <<severed, quiet, overtaken, misled>>
vars == <<clock, store, lagging, google, pc, arg, snap, stamp, reply, severed, quiet,
          overtaken, misled>>

-----------------------------------------------------------------------------
(* Records.  A grant is named by the connect call that brought it, a token *)
(* by its grant and the call that received it from Google.  A ciphertext   *)
(* is the token with the encryption context it was sealed under.           *)

Key == Users \X Accounts
Ciphertext == [context : Users, grant : Requests, by : Requests]
Record == [scopes : SUBSET Scopes,
           access : Ciphertext \cup {None},
           refresh : Ciphertext \cup {None},
           expiresAt : Nat,
           createdAt : Nat,
           updatedAt : Nat,
           revokedAt : Nat \cup {None},
           status : {"active", "revoked"}]

Arg == [op : {"connect", "access", "refresh", "revoke"},
        key : Key,
        scopes : SUBSET Scopes,
        offline : BOOLEAN]

\* Steps at which a call holds a record that it will write back.
WriteSteps == {"connecting", "revoking", "calling", "renewing", "rotating", "marking"}
Steps == {"new", "rereading", "refreshing", "decrypting", "done"} \cup WriteSteps

Verdicts == {"unavailable", "revoked", "expired", "insufficient_scope", "refresh", "usable"}
Replies == [kind : {"connected", "disconnected", "refreshed", "token", "denied", "invalid",
                    "crashed", "failed"} \cup Verdicts,
            token : Ciphertext \cup {None}]

ASSUME ScopeAssumption ==
    /\ Members \subseteq Users
    /\ DocsScope \in Scopes /\ DocsReadonlyScope \in Scopes
    /\ GrantedScopes \subseteq SUBSET Scopes /\ {} \notin GrantedScopes
    /\ RequiredScopes \subseteq SUBSET Scopes /\ {} \notin RequiredScopes
ASSUME TimeAssumption == Lifetime \in Nat \ {0} /\ MaxTime \in Nat
ASSUME ModeAssumption == EventualReads \in BOOLEAN
ASSUME NoneAssumption ==
    /\ None \notin Nat /\ None \notin Requests /\ None \notin Ciphertext
    /\ None \notin Record /\ None \notin Arg /\ None \notin Replies

-----------------------------------------------------------------------------
(* What the service reads off a record.                                    *)

IsExpired(rec, now) == rec.expiresAt <= now
IsRevoked(rec) == rec.status # "active" \/ rec.revokedAt # None

\* Fault: the refresh token is forgotten when availability is judged.
IsAvailableUntilExpiry(rec, now) ==
    rec.status = "active" /\ rec.revokedAt = None /\ rec.expiresAt > now

\* _is_google_token_available
IsAvailable(rec, now) ==
    /\ rec.status = "active"
    /\ rec.revokedAt = None
    /\ rec.expiresAt > now \/ rec.refresh # None

\* _missing_required_scopes: the full Docs scope stands in for the readonly one.
MissingScopes(granted, required) ==
    {s \in required : /\ s \notin granted
                      /\ ~(s = DocsReadonlyScope /\ DocsScope \in granted)}

\* Faults: the handoff status without its scope check, or without its
\* revocation check.
VerdictWithoutScopes(rec, required, now) ==
    IF rec = None THEN "unavailable"
    ELSE IF IsRevoked(rec) THEN "revoked"
    ELSE IF IsExpired(rec, now) THEN IF rec.refresh # None THEN "refresh" ELSE "expired"
    ELSE "usable"
VerdictWithoutRevocation(rec, required, now) ==
    IF rec = None THEN "unavailable"
    ELSE IF IsExpired(rec, now) THEN IF rec.refresh # None THEN "refresh" ELSE "expired"
    ELSE IF MissingScopes(rec.scopes, required) # {} THEN "insufficient_scope"
    ELSE "usable"

\* get_google_token_handoff_status.  "refresh" and "usable" are its two answers
\* without reconnectRequired; the others are reasons to reconnect.
HandoffVerdict(rec, required, now) ==
    IF rec = None THEN "unavailable"
    ELSE IF IsRevoked(rec) THEN "revoked"
    ELSE IF IsExpired(rec, now) THEN IF rec.refresh # None THEN "refresh" ELSE "expired"
    ELSE IF MissingScopes(rec.scopes, required) # {} THEN "insufficient_scope"
    ELSE "usable"

\* assert_google_token_usable: TRUE when it raises nothing.
AssertUsable(rec, now) == rec # None /\ ~IsRevoked(rec) /\ IsAvailable(rec, now)

\* The checks that open refresh_google_access_token.
Refreshable(rec) == rec # None /\ ~IsRevoked(rec) /\ rec.refresh # None

\* The grants whose tokens a record keeps.
GrantsOf(rec) ==
    IF rec = None THEN {} ELSE {c.grant : c \in {rec.access, rec.refresh} \ {None}}

-----------------------------------------------------------------------------
(* The table (DynamoDbOAuthTokenRepository) and the token protector.       *)

\* get: get_item is called without ConsistentRead.
Read(k) == {store[k]} \cup lagging[k]

\* A call that reads a record which is not the last one written is misled.
NoteRead(r, k, rec) ==
    misled' = IF rec = store[k] THEN misled ELSE misled \cup {r}

Running(r) == pc[r] \notin {"new", "done"}

\* The calls that a write of call r overtakes.
Overtakes(r) == {q \in Requests \ {r} : Running(q) /\ arg[q].key = arg[r].key}

\* The record written over can still be read.
Overwrite(r) ==
    LET k == arg[r].key IN
    /\ lagging' = IF EventualReads THEN [lagging EXCEPT ![k] = @ \cup {store[k]}] ELSE lagging
    /\ overtaken' = overtaken \cup Overtakes(r)

\* Faults: an update of the attributes present in place of a put of the item;
\* a table keyed by the account alone.
PutMerging(r, rec) ==
    LET k == arg[r].key IN
    /\ store' = [store EXCEPT ![k] =
                    IF @ # None /\ rec.refresh = None THEN [rec EXCEPT !.refresh = store[k].refresh]
                    ELSE rec]
    /\ Overwrite(r)
PutByAccount(r, rec) ==
    /\ store' = [j \in Key |-> IF j[2] = arg[r].key[2] THEN rec ELSE store[j]]
    /\ Overwrite(r)

\* upsert: an unconditional put of the whole item.
Put(r, rec) ==
    /\ store' = [store EXCEPT ![arg[r].key] = rec]
    /\ Overwrite(r)

Encrypt(k, grant, by) == [context |-> k[1], grant |-> grant, by |-> by]

\* decrypt: KMS opens a ciphertext under the context it was sealed under.
Opens(sealed, k) == sealed # None /\ sealed.context = k[1]

-----------------------------------------------------------------------------
(* The three records the service writes.                                   *)

\* Fault: a reconnect adds its scopes to those recorded before.
ConnectedRecordAddingScopes(r) ==
    LET k == arg[r].key
        existing == snap[r]
    IN [scopes |-> arg[r].scopes \cup (IF existing # None THEN existing.scopes ELSE {}),
        access |-> Encrypt(k, r, r),
        refresh |-> IF arg[r].offline THEN Encrypt(k, r, r) ELSE None,
        expiresAt |-> stamp[r] + Lifetime,
        createdAt |-> stamp[r],
        updatedAt |-> stamp[r],
        revokedAt |-> None,
        status |-> "active"]

\* The record of connect_google: a missing refresh token falls back on the
\* one of the record found before.
ConnectedRecord(r) ==
    LET k == arg[r].key
        existing == snap[r]
    IN [scopes |-> arg[r].scopes,
        access |-> Encrypt(k, r, r),
        refresh |-> IF arg[r].offline THEN Encrypt(k, r, r)
                    ELSE IF existing # None THEN existing.refresh ELSE None,
        expiresAt |-> stamp[r] + Lifetime,
        createdAt |-> IF existing # None THEN existing.createdAt ELSE stamp[r],
        updatedAt |-> stamp[r],
        revokedAt |-> None,
        status |-> "active"]

\* Faults: the refresh token outlives the revocation; the revocation of a
\* record is its deletion mark, without a time.
RevokedRecordKeepingRefresh(rec, now) ==
    [rec EXCEPT !.status = "revoked", !.revokedAt = now, !.updatedAt = now, !.access = None]
RevokedRecordDeleted(rec, now) ==
    [rec EXCEPT !.status = "deleted", !.access = None, !.refresh = None]

\* The record of revoke_google and of _mark_google_reconnect_required.
RevokedRecord(rec, now) ==
    [rec EXCEPT !.status = "revoked", !.revokedAt = now, !.updatedAt = now,
                !.access = None, !.refresh = None]

\* Fault: the refresh token Google put in place of the old one is dropped.
RenewedRecordWithoutRotation(r, rotated) ==
    [snap[r] EXCEPT !.access = Encrypt(arg[r].key, snap[r].refresh.grant, r),
                    !.expiresAt = stamp[r] + Lifetime,
                    !.updatedAt = clock]

\* The record of a successful refresh_google_access_token.
RenewedRecord(r, rotated) ==
    LET k == arg[r].key
        grant == snap[r].refresh.grant
    IN [snap[r] EXCEPT !.access = Encrypt(k, grant, r),
                       !.refresh = IF rotated THEN Encrypt(k, grant, r) ELSE @,
                       !.expiresAt = stamp[r] + Lifetime,
                       !.updatedAt = clock,
                       !.status = "active",
                       !.revokedAt = None]

-----------------------------------------------------------------------------
(* Starting and answering a call.                                          *)

MayBegin(r) == pc[r] = "new"

Goto(r, step) ==
    /\ pc' = [pc EXCEPT ![r] = step]
    /\ UNCHANGED reply

Answer(r, kind, token) ==
    /\ pc' = [pc EXCEPT ![r] = "done"]
    /\ reply' = [reply EXCEPT ![r] = [kind |-> kind, token |-> token]]

Hold(r, rec, now) ==
    /\ snap' = [snap EXCEPT ![r] = rec]
    /\ stamp' = [stamp EXCEPT ![r] = now]

Forget(r) == Hold(r, None, 0)

Accept(r, op, k, scopes, offline) ==
    /\ MayBegin(r)
    /\ k[1] \in Members
    /\ arg' = [arg EXCEPT ![r] = [op |-> op, key |-> k, scopes |-> scopes, offline |-> offline]]

\* assert_active_membership turns every operation of a non-member away.
RefuseNonMember(r, u) ==
    /\ MayBegin(r)
    /\ u \notin Members
    /\ Answer(r, "denied", None)
    /\ UNCHANGED <<clock, table, google, arg, snap, stamp, history>>

\* get_google_access_token refuses an apply action before it looks at the
\* membership; a malformed argument is refused after it.
RefuseInput(r, u, applyAction) ==
    /\ MayBegin(r)
    /\ applyAction \/ u \in Members
    /\ Answer(r, "invalid", None)
    /\ UNCHANGED <<clock, table, google, arg, snap, stamp, history>>

-----------------------------------------------------------------------------
(* connect_google: read the existing record, then write the new one.       *)

BeginConnect(r, k, scopes, offline) ==
    /\ Accept(r, "connect", k, scopes, offline)
    /\ \E existing \in Read(k) : Hold(r, existing, clock) /\ NoteRead(r, k, existing)
    /\ google' = [google EXCEPT ![r] = IF offline THEN r ELSE None]
    /\ Goto(r, "connecting")
    /\ UNCHANGED <<clock, table, severed, quiet, overtaken>>

WriteConnect(r) ==
    /\ pc[r] = "connecting"
    /\ Put(r, ConnectedRecord(r))
    /\ Answer(r, "connected", None)
    /\ Forget(r)
    /\ UNCHANGED <<clock, google, arg, severed, quiet, misled>>

(* revoke_google / disconnect_google: read, then write the record revoked. *)

BeginRevoke(r, k) ==
    /\ Accept(r, "revoke", k, {}, FALSE)
    /\ \E rec \in Read(k) :
          /\ NoteRead(r, k, rec)
          /\ \/ /\ rec = None
                /\ Answer(r, "denied", None)
                /\ UNCHANGED <<snap, stamp>>
             \/ /\ rec # None
                /\ Hold(r, rec, clock)
                /\ Goto(r, "revoking")
    /\ UNCHANGED <<clock, table, google, severed, quiet, overtaken>>

\* No other call holds the record of key k to write it back.
Uncontended(r, k) ==
    \A q \in Requests \ {r} : ~(pc[q] \in WriteSteps /\ arg[q].key = k)

WriteRevoke(r) ==
    LET k == arg[r].key IN
    /\ pc[r] = "revoking"
    /\ Put(r, RevokedRecord(snap[r], stamp[r]))
    /\ severed' = severed \cup GrantsOf(store[k])
    /\ quiet' = IF Uncontended(r, k) THEN quiet \cup GrantsOf(store[k]) ELSE quiet
    /\ Answer(r, "disconnected", None)
    /\ Forget(r)
    /\ UNCHANGED <<clock, google, arg, misled>>

-----------------------------------------------------------------------------
(* get_google_access_token: judge the record, read it again, refresh it if *)
(* it has expired, decrypt.                                                *)

BeginAccess(r, k, required) ==
    /\ Accept(r, "access", k, required, FALSE)
    /\ \E rec \in Read(k) :
          LET verdict == HandoffVerdict(rec, required, clock) IN
          /\ NoteRead(r, k, rec)
          /\ \/ /\ verdict \in {"refresh", "usable"}
                /\ Goto(r, "rereading")
             \/ /\ verdict \notin {"refresh", "usable"}
                /\ Answer(r, verdict, None)
    /\ UNCHANGED <<clock, table, google, snap, stamp, severed, quiet, overtaken>>

\* The second read is not judged again: an absent record is a TypeError.
RereadForAccess(r) ==
    /\ pc[r] = "rereading"
    /\ \E rec \in Read(arg[r].key) :
          /\ NoteRead(r, arg[r].key, rec)
          /\ \/ /\ rec = None
                /\ Answer(r, "crashed", None)
                /\ UNCHANGED <<snap, stamp>>
             \/ /\ rec # None
                /\ IsExpired(rec, clock) /\ rec.refresh # None
                /\ Goto(r, "refreshing")
                /\ UNCHANGED <<snap, stamp>>
             \/ /\ rec # None
                /\ ~(IsExpired(rec, clock) /\ rec.refresh # None)
                /\ Hold(r, rec, clock)
                /\ Goto(r, "decrypting")
    /\ UNCHANGED <<clock, table, google, arg, severed, quiet, overtaken>>

\* A cleared ciphertext makes KmsTokenProtector.decrypt raise a TypeError, a
\* foreign one is refused by KMS.
DecryptForAccess(r) ==
    /\ pc[r] = "decrypting"
    /\ \/ /\ ~Opens(snap[r].access, arg[r].key)
          /\ Answer(r, "crashed", None)
       \/ /\ Opens(snap[r].access, arg[r].key)
          /\ Answer(r, "token", snap[r].access)
    /\ Forget(r)
    /\ UNCHANGED <<clock, table, google, arg, history>>

-----------------------------------------------------------------------------
(* refresh_google_access_token, on its own or inside an access.            *)

BeginRefresh(r, k) ==
    /\ Accept(r, "refresh", k, {}, FALSE)
    /\ Goto(r, "refreshing")
    /\ UNCHANGED <<clock, table, google, snap, stamp, history>>

ReadForRefresh(r) ==
    /\ pc[r] = "refreshing"
    /\ \E rec \in Read(arg[r].key) :
          /\ NoteRead(r, arg[r].key, rec)
          /\ \/ /\ ~Refreshable(rec)
                /\ Answer(r, "denied", None)
                /\ UNCHANGED <<snap, stamp>>
             \/ /\ Refreshable(rec)
                /\ Hold(r, rec, clock)
                /\ Goto(r, "calling")
    /\ UNCHANGED <<clock, table, google, arg, severed, quiet, overtaken>>

\* Google takes the refresh token it gave out last for a grant, for scopes
\* within that grant.
GoogleAccepts(token, scopes) ==
    /\ google[token.grant] = token.by
    /\ scopes \subseteq arg[token.grant].scopes

\* Google answers: a new access token, perhaps with a new refresh token in
\* place of the old one, or a refusal.
GoogleAnswers(r) ==
    LET token == snap[r].refresh IN
    /\ pc[r] = "calling"
    /\ Opens(token, arg[r].key)
    /\ \/ /\ GoogleAccepts(token, snap[r].scopes)
          /\ Goto(r, "renewing")
          /\ UNCHANGED google
       \/ /\ GoogleAccepts(token, snap[r].scopes)
          /\ Goto(r, "rotating")
          /\ google' = [google EXCEPT ![token.grant] = r]
       \/ /\ ~GoogleAccepts(token, snap[r].scopes)
          /\ Goto(r, "marking")
          /\ UNCHANGED google
    /\ stamp' = [stamp EXCEPT ![r] = clock]
    /\ UNCHANGED <<clock, table, arg, snap, history>>

\* Fault: the call to Google has no timeout and no handler.
RefreshHangs(r) ==
    /\ pc[r] = "calling"
    /\ UNCHANGED vars

\* KMS refuses the refresh token, or the call to Google fails or times out,
\* perhaps after Google replaced the token.  Every exception is caught alike.
RefreshFails(r) ==
    LET token == snap[r].refresh IN
    /\ pc[r] = "calling"
    /\ Goto(r, "marking")
    /\ \/ UNCHANGED google
       \/ /\ Opens(token, arg[r].key) /\ GoogleAccepts(token, snap[r].scopes)
          /\ google' = [google EXCEPT ![token.grant] = r]
    /\ UNCHANGED <<clock, table, arg, snap, stamp, history>>

\* Fault: an access goes on with the record it read before the refresh.
WriteRenewedServingOld(r) ==
    /\ pc[r] \in {"renewing", "rotating"}
    /\ Put(r, RenewedRecord(r, pc[r] = "rotating"))
    /\ \/ /\ arg[r].op = "access"
          /\ Goto(r, "decrypting")
          /\ UNCHANGED <<snap, stamp>>
       \/ /\ arg[r].op = "refresh"
          /\ Answer(r, "refreshed", None)
          /\ Forget(r)
    /\ UNCHANGED <<clock, google, arg, severed, quiet, misled>>

WriteRenewed(r) ==
    LET rec == RenewedRecord(r, pc[r] = "rotating") IN
    /\ pc[r] \in {"renewing", "rotating"}
    /\ Put(r, rec)
    /\ \/ /\ arg[r].op = "access"
          /\ Goto(r, "decrypting")
          /\ Hold(r, rec, stamp[r])
       \/ /\ arg[r].op = "refresh"
          /\ Answer(r, "refreshed", None)
          /\ Forget(r)
    /\ UNCHANGED <<clock, google, arg, severed, quiet, misled>>

\* _mark_google_reconnect_required
WriteReconnectRequired(r) ==
    /\ pc[r] = "marking"
    /\ Put(r, RevokedRecord(snap[r], clock))
    /\ Answer(r, "revoked", None)
    /\ Forget(r)
    /\ UNCHANGED <<clock, google, arg, severed, quiet, misled>>

-----------------------------------------------------------------------------
(* The environment.                                                        *)

\* A running call ends with nothing more done: its container dies, or the
\* table or KMS raises where the service does not catch.
Abort(r) ==
    /\ Running(r)
    /\ Answer(r, "failed", None)
    /\ Forget(r)
    /\ UNCHANGED <<clock, table, google, arg, history>>

\* The user withdraws the grant in the Google account settings.
GoogleRevokes(g) ==
    /\ google[g] # None
    /\ google' = [google EXCEPT ![g] = None]
    /\ UNCHANGED <<clock, table, calls, history>>

\* Every copy of the table has caught up with the last record of key k.
Replicate(k) ==
    /\ lagging[k] # {}
    /\ lagging' = [lagging EXCEPT ![k] = {}]
    /\ UNCHANGED <<clock, store, google, calls, history>>

Tick ==
    /\ clock < MaxTime
    /\ clock' = clock + 1
    /\ UNCHANGED <<table, google, calls, history>>

-----------------------------------------------------------------------------
Init ==
    /\ clock = 0
    /\ store = [k \in Key |-> None]
    /\ lagging = [k \in Key |-> {}]
    /\ google = [g \in Requests |-> None]
    /\ pc = [r \in Requests |-> "new"]
    /\ arg = [r \in Requests |-> None]
    /\ snap = [r \in Requests |-> None]
    /\ stamp = [r \in Requests |-> 0]
    /\ reply = [r \in Requests |-> None]
    /\ severed = {}
    /\ quiet = {}
    /\ overtaken = {}
    /\ misled = {}

Begin(r) ==
    \/ \E u \in Users : RefuseNonMember(r, u) \/ \E applies \in BOOLEAN : RefuseInput(r, u, applies)
    \/ \E k \in Key :
          \/ \E scopes \in GrantedScopes, offline \in BOOLEAN : BeginConnect(r, k, scopes, offline)
          \/ \E required \in RequiredScopes : BeginAccess(r, k, required)
          \/ BeginRefresh(r, k)
          \/ BeginRevoke(r, k)

\* The steps a running call takes by itself.  RefreshFails is one of them: the
\* request to Google has a timeout.
Continue(r) ==
    \/ WriteConnect(r)
    \/ WriteRevoke(r)
    \/ RereadForAccess(r)
    \/ ReadForRefresh(r)
    \/ RefreshFails(r)
    \/ WriteRenewed(r)
    \/ WriteReconnectRequired(r)
    \/ DecryptForAccess(r)

Next ==
    \/ \E r \in Requests : Begin(r) \/ Continue(r) \/ GoogleAnswers(r) \/ Abort(r)
    \/ \E g \in Requests : GoogleRevokes(g)
    \/ \E k \in Key : Replicate(k)
    \/ Tick

Spec == Init /\ [][Next]_vars
FairSpec == Spec /\ \A r \in Requests : WF_vars(Continue(r))

-----------------------------------------------------------------------------
(* Properties.                                                             *)

\* Every variable keeps its type.
TypeOK ==
    /\ clock \in Nat
    /\ store \in [Key -> Record \cup {None}]
    /\ lagging \in [Key -> SUBSET (Record \cup {None})]
    /\ google \in [Requests -> Requests \cup {None}]
    /\ pc \in [Requests -> Steps]
    /\ arg \in [Requests -> Arg \cup {None}]
    /\ snap \in [Requests -> Record \cup {None}]
    /\ stamp \in [Requests -> Nat]
    /\ reply \in [Requests -> Replies \cup {None}]
    /\ severed \subseteq Requests
    /\ quiet \subseteq Requests
    /\ overtaken \subseteq Requests
    /\ misled \subseteq Requests

\* The tokens a record keeps under key k are its owner's: sealed for the owner
\* and given to a connect call of the owner, for the same account.
Owned(rec, k) ==
    rec # None =>
        \A c \in {rec.access, rec.refresh} \ {None} :
            /\ c.context = k[1]
            /\ arg[c.grant] # None /\ arg[c.grant].op = "connect" /\ arg[c.grant].key = k

\* No interleaving and no stale read moves a token to another user or account:
\* in the table, in a call's memory and in an answer, tokens are their owner's.
TokensStayWithOwner ==
    /\ \A k \in Key : \A rec \in Read(k) : Owned(rec, k)
    /\ \A r \in Requests : Running(r) => Owned(snap[r], arg[r].key)
    /\ \A r \in Requests :
          reply[r] # None /\ reply[r].token # None =>
              arg[reply[r].token.grant].key = arg[r].key

\* A record says it is revoked exactly when it bears a revocation time, then it
\* keeps no token, and otherwise it has an access token: whatever calls race to
\* write it, its status, its revocation time and its tokens are of one write.
WellFormed(rec) ==
    rec # None =>
        /\ (rec.status = "revoked") <=> (rec.revokedAt # None)
        /\ rec.status = "revoked" <=> rec.access = None
        /\ rec.status = "revoked" => rec.refresh = None
RevokedHoldsNoTokens ==
    /\ \A k \in Key : \A rec \in Read(k) : WellFormed(rec)
    /\ \A r \in Requests : Running(r) => WellFormed(snap[r])

\* The scopes of an active record never exceed what the grant behind its access
\* token allows, although a reconnect without a refresh token mixes two grants
\* in one record and a later refresh takes its tokens from the older one.
ScopesMatchToken ==
    \A k \in Key :
        store[k] # None /\ store[k].access # None =>
            store[k].scopes \subseteq arg[store[k].access.grant].scopes

\* Google refuses a refresh token it still honours, for the scopes of the
\* record, only where a reconnect that brought no refresh token has widened
\* them: the access token is that of the reconnect, the refresh token older.
RefusalBlamesReconnect ==
    \A k \in Key :
        LET rec == store[k] IN
        (/\ rec # None /\ rec.access # None /\ rec.refresh # None
         /\ google[rec.refresh.grant] = rec.refresh.by
         /\ ~GoogleAccepts(rec.refresh, rec.scopes))
        => LET reconnect == rec.access.grant IN
           /\ rec.access.by = reconnect /\ ~arg[reconnect].offline
           /\ ~(arg[reconnect].scopes \subseteq arg[rec.refresh.grant].scopes)

\* The three judges of a record agree: assert_google_token_usable, the
\* availability that get_google_status and setup status report, and the
\* handoff status, the missing scopes of a call aside.
ViewsAgree ==
    \A k \in Key, required \in RequiredScopes :
        store[k] # None =>
            LET verdict == HandoffVerdict(store[k], required, clock) IN
            /\ AssertUsable(store[k], clock) <=> IsAvailable(store[k], clock)
            /\ IsAvailable(store[k], clock)
                 <=> verdict \in {"refresh", "usable", "insufficient_scope"}

\* A call is calm while no other call has written its record behind its back
\* and no read has given it a record that was already overwritten.
Raced == overtaken \cup misled

\* A call that is not calm takes a step.
RacedStep == \E r \in Raced : pc'[r] # pc[r]

\* A disconnect that no other call overlapped with a record to write back is
\* undone by a stale read at most: as long as no call was given an overwritten
\* record of that key, the tokens it removed are never stored again, whatever
\* calls follow and however they interleave.
QuietDisconnectSticks ==
    \A k \in Key :
        GrantsOf(store[k]) \cap quiet # {} => \E q \in misled : arg[q].key = k

\* A disconnect is final: the tokens it removed are never stored again.
SeveredStaysSevered ==
    \A k \in Key : GrantsOf(store[k]) \cap severed = {}

\* A calm access call hands out the token that the table holds at that moment,
\* its own new one included: none that a disconnect, a reconnect or another
\* refresh has removed.
HandsOutStored ==
    [][\A r \in Requests \ Raced :
          reply'[r] # reply[r] /\ reply'[r].kind = "token" =>
              store[arg[r].key] # None /\ reply'[r].token = store[arg[r].key].access]_vars

Handed(r) == reply[r] # None /\ reply[r].kind = "token"
Covers(r) == MissingScopes(arg[reply[r].token.grant].scopes, arg[r].scopes) = {}

\* A token handed out as it was stored covers the scopes the call asked for,
\* unless the call was raced: scopes are compared with one read of the record
\* and the token is taken from another.
StoredHandoffCoversScopes ==
    \A r \in Requests \ Raced : Handed(r) /\ reply[r].token.by # r => Covers(r)

\* Every token handed out covers the scopes the call asked for.
HandoffCoversScopes == \A r \in Requests : Handed(r) => Covers(r)

Crashed(r) == reply[r] # None /\ reply[r].kind = "crashed"

\* An access call answers with a token or with a typed error, never with the
\* TypeError of a record or a ciphertext that is not there.
AnswersTyped == \A r \in Requests : ~Crashed(r)

\* A calm access call never meets that TypeError: another call's write between
\* its two reads, or a stale read, is behind each one.
CalmAnswersTyped == \A r \in Requests \ Raced : ~Crashed(r)

\* Some connect, access or refresh on key k was raced.
Muddled(k) == \E q \in Raced : arg[q].key = k /\ arg[q].op # "revoke"

\* An active record is stranded, its refresh token replaced at Google and lost,
\* only by a call that is still under way, by one that died before its write,
\* or where a call that writes tokens was raced.
StrandedHasCause ==
    \A k \in Key :
        store[k] # None /\ store[k].refresh # None =>
            LET token == store[k].refresh
                holder == google[token.grant]
            IN \/ holder \in {token.by, None}
               \/ pc[holder] \in {"rotating", "marking"}
               \/ reply[holder] # None /\ reply[holder].kind = "failed"
               \/ Muddled(k)

\* The time of the first connect stays with a record through reconnects,
\* refreshes and disconnects: only a raced call sets it to another.
CreatedAtKept ==
    [][\A k \in Key :
          store[k] # None /\ store'[k].createdAt # store[k].createdAt => RacedStep]_vars

\* Every call that has begun is answered, Google never answering included.
EveryRequestAnswered == \A r \in Requests : Running(r) ~> pc[r] = "done"

\* The grants brought by connect calls that were answered.
Given == {g \in Requests : reply[g] # None /\ reply[g].kind = "connected"}

\* The connections of the lifecycle, as the table keeps them.
Lifecycle == INSTANCE ConnectionLifecycle
    WITH Connections <- Key, Grants <- Requests,
         held <- [k \in Key |-> GrantsOf(store[k])], ended <- severed, given <- Given

\* Whatever calls interleave and however stale their reads, every step is one of
\* the connection lifecycle, unless it is the write of a raced call.
LifecycleUnlessRaced ==
    Lifecycle!Init /\ [][RacedStep \/ Lifecycle!Next]_(Lifecycle!lifecycle)

=============================================================================
