# Verification of the auth service

TLA+ models of `ai_assist_auth_service`, TLC runs on small instances of them, and
theorems proved with TLAPS for every instance. File names below are those of
`src/src/ai_assist_auth_service/`.

1. [The system](#the-system) - inventory of its components
2. [Modules](#modules) - what models what, and how to read it against the code
3. [Runs](#runs) - questions, bounds, fairness
4. [Proofs](#proofs)
5. [Findings](#findings)
6. [What is not modelled](#what-is-not-modelled)
7. [Plan](#plan)

Run a model with `tlc -config flow_safety.cfg MCOAuthFlow.tla`, check a proof with
`tlapm OAuthFlowProofs.tla`.

## The system

The service keeps users' Google connections. A user logs in (with a bootstrap secret, or
at the edge with Cognito), connects a Google account through OAuth, and an internal caller
asks for that user's Google access token. Containers serve HTTP requests concurrently.
Token records are shared in DynamoDB; everything else a container knows is in its memory
and gone when it restarts.

| Component | State | Operations | Hard behaviours | Correct when |
|---|---|---|---|---|
| Google token lifecycle, `oauth_tokens.py` | one record per (tenant, user, account): ciphertexts, scopes, expiry, status | `connect_google`, `get_google_access_token`, `refresh_google_access_token`, `revoke_google`, `disconnect_google`; read-only judges `assert_google_token_usable`, `get_google_token_handoff_status`, `get_google_status` | read, then call Google, then write back the whole record without a condition; two reads in one access; refresh-token rotation; every refresh failure revokes | tokens stay with their owner; a disconnect is final; a token handed out is the one in the table and covers the required scopes; every call is answered. Where overlapping calls or stale reads break this, they are the only cause |
| AWS adapters, `aws_adapters.py` | the DynamoDB table, KMS | `get`, `upsert`, `list_for_user`; `encrypt`, `decrypt` | eventually consistent reads, KMS context mismatch, calls that raise | keys and encryption contexts separate users |
| Google adapter, `google_oauth_adapter.py` | at Google: codes, refresh tokens | `exchange_code`, `refresh` | 10 s timeout, an answer lost after Google acted | every failure is reported |
| OAuth flow, `oauth_flow.py` | pending states, per container | `start_google_oauth`, `complete_google_oauth`, audit events | two callbacks with one state; restart between start and callback; membership disabled meanwhile; exceptions between connection and event | a state is good once, for its user and in its time; the audit trail is true |
| Product session, `product_session.py` | revoked session ids, per application | `issue`, `verify`, `revoke` | process-local revocation, restarts | a logout sticks; an expired session is dead |
| Allowed users, `allowed_users.py` | the configured list | `seed_tenant_directory`, `require_active_user`, `product_session_from_headers` | order of seeding; expiry judged twice | only active entries are served |
| Tenancy, `tenancy.py` | tenants, users, memberships, per application | `put_*`, `assert_active_membership` | last write wins | a disabled user is refused |
| Identity, `identity.py` | none | `derive_identity`, `assert_*` on references | time between verification and use; three checks that require and raise different things | identity comes from the session alone; a foreign reference is refused like an absent one |
| HTTP application, `http_app.py` | `_APP`, per process | routes, `create_app_from_env`, `_bootstrap_tenant_directory` | two first requests each build an application; bootstrap order; a disconnect without account id acts on a list it read before | one application per process; routes do no more than call the services |
| Setup status, `setup_status.py` | none | `get_setup_status` | lists records, then judges them by a later clock while other calls write; stale lists; several accounts | agrees with what a handoff would do, and with the refusal of a protected route |
| Runtime configuration, `runtime.py` | none | validation of URLs and settings, route authorization | URLs compared as strings, with slashes and bare delimiters at their end | the callback is the one route under the API base |
| Errors, validation, exports | none | error codes and their HTTP status | one denial has several codes | one status per code |

Interactions: a route derives an identity from its token (product session, allowed users,
tenancy), then calls the flow or the token service; the flow ends in `connect_google`; the
token service asks tenancy again, reads and writes the table through the AWS adapters,
and calls Google through its adapter. There are no callbacks, queues or locks: components
share state through the table and through the memory of one application.

## Modules

| Module | Role |
|---|---|
| `OAuthTokens` | the token lifecycle, one action per table read, table write and Google call |
| `ConnectionLifecycle` | abstract: the grants a connection holds |
| `AccountRoutes` | setup status and the disconnect without account id, composed with `OAuthTokens` |
| `OAuthFlow` | OAuth start and callback over containers that restart |
| `OneTimeState` | abstract: states redeemed at most once, by their holder, in time |
| `ProductSession` | login, logout, authentication; the start of an application |
| `TokenKeys` | the keys of the table, of the in-memory repository and of memberships |
| `IdentityChecks` | who a request is, what it may refer to, how a refusal is reported |
| `RuntimeSettings` | the URLs of a configuration and redirect targets |
| `Decisions` | the last three, which keep no state, put to one input each |
| `MCOAuthTokens`, `MCAccountRoutes`, `MCOAuthFlow`, `MCProductSession`, `MCDecisions` | instances for TLC |
| `OAuthTokensProofs`, `RecordProofs`, `DisconnectProofs`, `HandoffProofs` | theorems on `OAuthTokens` |
| `AccountRoutesProofs`, `OAuthFlowProofs`, `ProductSessionProofs`, `DecisionsProofs` | theorems on the module of that name |

Definitions that come in variants marked "Fault" are plausible bugs of the definition
below them. No behaviour uses them; they serve to see that a property would notice.

### OAuthTokens

A member of `Requests` is one service call, made at most once. Grants are named by the
connect call that brought them and tokens by (grant, receiving call), so a ciphertext is
`[context, grant, by]` and the properties can say whose token it is and how old.

| Code | Model |
|---|---|
| the record of `aws_adapters.py:112` | `Record`; key = (identity, account) |
| `get_item` without `ConsistentRead` | `Read`: the stored record, or one of those it overwrote (`lagging`), until `Replicate` has every copy caught up. With `EventualReads` FALSE nothing lags |
| `upsert` | `Put`, unconditional |
| the refusal of an apply action, the validation of arguments | `RefuseInput`, before or after the membership check as the code has it |
| `connect_google` | `BeginConnect` (membership, read), `WriteConnect` |
| `revoke_google`, `disconnect_google` | `BeginRevoke`, `WriteRevoke` |
| `get_google_access_token` | `BeginAccess` (first read, verdict), `RereadForAccess`, the refresh steps, `DecryptForAccess` |
| `refresh_google_access_token` | `BeginRefresh`, `ReadForRefresh`, `GoogleAnswers` or `RefreshFails`, `WriteRenewed` or `WriteReconnectRequired` |
| exceptions nobody catches, dying containers | `Abort`. It leaves the table alone; an upsert that was stored and whose answer was lost is `Put` followed by a caller that hears nothing, which nothing in the table tells apart from the completed call |
| the three judges of a record | `AssertUsable`, `IsAvailable`, `HandoffVerdict` |

`google[g]` is the call that received the refresh token Google accepts for grant g. Google
takes the newest refresh token for scopes within the grant, may replace it, and the user
may withdraw it. Four history variables say what a property has to tell apart: `severed` and
`quiet`, the grants removed by any disconnect, and by one that no other call overlapped with a
record in hand; `overtaken` and `misled`, the calls whose record another call wrote while they
ran, and those that were given an overwritten record. Calls of neither kind are calm. No guard
reads a history variable.

### AccountRoutes

It extends `OAuthTokens` by two variables, so every interleaving of the token service stays
possible under the routes. A member of `Requests` may serve a route: `route[r]` is what it
listed, `shown[r]` what it made of the list and when.

| Code | Model |
|---|---|
| `list_for_user`, `get_google_status` | `Listings`: per account a record that `Read` may return |
| `_google_oauth_ref` of setup status | `SetupAccounts`, by a clock read in a later step (`ShowSetup`) |
| setup status for a refused session | `ShowAnonymous` |
| `_google_disconnect` without `googleAccountId` | `DisconnectOnly`: exactly one listed account, else `validation_failed`; then `BeginRevoke`, which reads the record again |

A revoked record stays in the table and counts: after account A is disconnected and B
connected, the disconnect without an account id is refused. `Members` is constant, so the
two membership checks of `get_setup_status` agree; nothing in the service changes a
membership after the start.

### TokenKeys, IdentityChecks, RuntimeSettings, Decisions

Pure code, in operators. `Decisions` puts every combination of small inputs to them, one
step per kind of input. In `TokenKeys` an identifier is a sequence of characters, two of
which are the separators, and any identifier may hold them; in `IdentityChecks` a session or a reference is a record of what
the checks tell apart, and a chain of checks is a sequence of (passes, code) of which the
first failure counts, and a route may ask for no reference at all (`reference_type` None);
in `RuntimeSettings` a URL is a record whose query and fragment are absent, a bare
delimiter, a delimiter with slashes behind it, or given. `rstrip("/")` runs before the check of
the query, so the third becomes the second, and `urlsplit` sees no difference between that and
the first, while the string appended to a base does.

### OAuthFlow

`pending[k]` is the `InMemoryOAuthStateRepository` of container k. `ConsumeState` is the
`pop` with the comparisons that follow it; the rest of a callback is `ExchangeCode` or
`ExchangeFails`, `ConnectGoogle` or `ConnectRaises`, `ReportConnected`. State and code are
independent parameters of a callback: `VerifyState` takes a state of any flow with the code of
any flow, a code being named by the flow whose consent page issued it. The comparison of
identities is modelled for a caller's own identity, as `complete_google_oauth` takes it,
although the HTTP route reads it from the state. `accepted`, `connected` and `restarted`
are history variables. The connect call is one step here; `OAuthTokens` has its detail. A
membership is disabled by `Deactivate` at any moment: a redeployment with another list of
allowed users does so for the containers it reaches, and a directory injected in place of
the in-memory one can do so for all.

### ProductSession

An application is named by the call that built it: `app[k]` is `_APP` of container k,
`conf[a]` and `revoked[a]` belong to application a. `BuildApp` assigns `_APP` without
looking again whether it is still `None`, as `handle_http_request` does, so two first
requests can build two applications; `EnterApp` reads `_APP`. The tenant directory is
never written after the start, so it is the operator `Directory` of the environment: the
fold of `SeedEntry` over the allowed users, then the trusted user. A request's route is
abstracted to `derive_identity` granting or refusing it. Any call may bring a session or an
edge token: the edge token's signature is left to the edge, the service reads its claims
(`http_app.py:205-216`, `allowed_users.py:111-122`), so a call that went round the edge can
claim any subject, and the model lets it. The codes of a missing, malformed or invalid token
are one answer, `refused`. What a call knows (`arg`,
`handler`, `held`) is gone with its answer. `Restart` may bring another environment, as a
deployment does. `late` marks calls that arrived with a session their container had logged
out; `rebuilt` marks containers whose application was replaced in place.

## Runs

All runs but the five violations pass.

| Run | Shows | Bounds |
|---|---|---|
| `tokens_stale` | types; with calls that overlap and reads that return overwritten records, at any moment: the status, the revocation time and the tokens of a record are of one write; its scopes stay within the grant of its access token; its judges agree; Google refuses a live refresh token only after a reconnect widened the connection; the tokens of a quiet disconnect come back through a stale read at most; a calm access hands out the token of the table, which covers the scopes if it is not a new one, and never meets a missing record; a calm call keeps `createdAt`; a refresh token is dead in the table only where a call is under way, died, or was raced; every step of a calm call is one of `ConnectionLifecycle` | 1 connection, 3 concurrent calls, both Docs scopes, stale reads, clock 0..1 |
| `tokens_live` | every call is answered | 1 connection, a member and a user who is none, 3 concurrent calls |
| `routes_stale` | types, of the routes and of the service; under stale reads tokens stay with their owner, and so do the lists of a route; setup status foretells the handoff; a disconnect without account id empties what it saw; the routes are callers of the token service | 3 users (one disabled), 2 accounts, 3 concurrent calls, clock 0..1 |
| `decisions` | keys and lists confuse two users only where an id holds a separator; setup status reports a refusal as a protected route does; the reference checks nest, and refuse alike; redirect results arrive; slashes do not matter | ids of 1 to 3 characters, separators among them; 2 tenants and users; 2 URLs |
| `handoff_scopes`, `disconnect_race`, `handoff_race` | violations, see Findings | 2 or 3 calls |
| `flow_safety` | types, single use, an account is connected for the starter of the state whatever code comes with it, truthful audit, explained replays, `OneTimeState` implemented | 2 flows, 2 callbacks, 2 users, 2 containers, clock 0..1 |
| `flow_live` | every callback with a genuine state is answered | 1 flow, 2 callbacks, 2 containers |
| `flow_audit` | violation, see Findings | 1 flow, 2 callbacks |
| `session_safety` | types; a logout sticks within one application; the directory is what the last entry says; nothing expired is served; an edge token serves its own active entry only; nobody but the trusted user is served whom the last entries do not call active | 1 container, 3 calls with session or edge tokens, 3 environments: the trusted user behind two subjects, and a user of two tenants listed active then disabled, or disabled then active, clock 0..1 |
| `session_disabled` | violation, see Findings | 1 container, 2 calls |

Why the bounds are enough for the cases in question. Each token property takes three calls to
violate: a connect that brings the tokens, a call that holds or is later given the record, and
one that writes over it; or a connect, a reconnect and a refresh, which mix two grants. Owner
confusion needs two keys that share a user or an account, hence two of each and three calls. A
route needs the calls that filled its list and itself: with three, two accounts are connected,
or one is connected and then disconnected, under its list. Expiry needs two clock values, before
it and at it (`Lifetime = 1`, `Ttl = 1`; the comparisons are `<=`, so the second is the
boundary). Two callbacks race for one state; two flows of two users can be confused; two
containers give a callback somewhere wrong to arrive. `LogoutSticks` needs a login, a logout and
a late request; its exception for `rebuilt` containers needs a fourth call, which replaces the
application under the other three, and is left to the proof. One container suffices because
containers share no session state. `MaxTime` bounds the clock, the sets of calls bound all other
counters; no other bound is used. The inputs of `decisions` are of the smallest size at which
one identifier is a prefix of another, contains a separator in the middle or at an end, two
connections share a key because of it, and two checks fail at once.

`CHECK_DEADLOCK FALSE` everywhere: each call is made at most once and the clock is bounded,
so a behaviour ends when all calls are answered, and `decisions` ends after its one input.
Symmetry (calls; with the routes also members and accounts, in the flow also flows, users and
containers) is used in safety runs only; no definition tells members of those sets
apart, and the cfgs name none of them in a definition.

Fairness. `FairSpec` has weak fairness of `Continue(r)`, the steps a running call takes by
itself: a thread that runs is scheduled, and the call to Google ends by its ten-second
timeout (`google_oauth_adapter.py`), which is `RefreshFails` or `ExchangeFails` and so part
of `Continue`. Nothing is assumed of clients, of Google, of the clock or of containers: that
Google answers at all is never assumed.

## Proofs

| Theorem | Module | Says, for every value of the constants |
|---|---|---|
| `TypeCorrect` | `OAuthTokensProofs` | `Spec => []TypeOK` |
| `OwnersKeepTheirTokens` | `OAuthTokensProofs` | `Spec => []TokensStayWithOwner` |
| `RecordsAreWhole` | `RecordProofs` | `Spec => []RevokedHoldsNoTokens` |
| `ScopesStayWithinGrant` | `RecordProofs` | `Spec => []ScopesMatchToken` |
| `JudgesAgree` | `RecordProofs` | `Spec => []ViewsAgree` |
| `RefusalIsOfReconnect` | `RecordProofs` | `Spec => []RefusalBlamesReconnect` |
| `QuietDisconnectIsFinal` | `DisconnectProofs` | `Spec => []QuietDisconnectSticks` |
| `HandoffsAreStored` | `DisconnectProofs` | `Spec => HandsOutStored` |
| `CreatedAtStays` | `DisconnectProofs` | `Spec => CreatedAtKept` |
| `ServiceFollowsLifecycle` | `DisconnectProofs` | `Spec => LifecycleUnlessRaced` |
| `CalmCallsAnswerTyped` | `HandoffProofs` | `Spec => []CalmAnswersTyped` |
| `StoredHandoffsCoverScopes` | `HandoffProofs` | `Spec => []StoredHandoffCoversScopes` |
| `StrandsHaveCause` | `HandoffProofs` | `Spec => []StrandedHasCause` |
| `RoutesTypeCorrect` | `AccountRoutesProofs` | `RoutesSpec => []RoutesTypeOK` |
| `RoutesAreCallers` | `AccountRoutesProofs` | `RoutesSpec => RoutesImplementTokens` |
| `ListingsAreTheUsers` | `AccountRoutesProofs` | `RoutesSpec => []ListingsStayWithOwner` |
| `SetupStatusForetells` | `AccountRoutesProofs` | `RoutesSpec => []SetupPredictsHandoff` |
| `UnnamedDisconnectsEmpty` | `AccountRoutesProofs` | `RoutesSpec => UnnamedDisconnectEmpties` |
| `FlowTypeCorrect` | `OAuthFlowProofs` | `Spec => []TypeOK` |
| `StatesAreSingleUse` | `OAuthFlowProofs` | `Spec => []SingleUse` |
| `OnlyTheStarterConnects` | `OAuthFlowProofs` | `Spec => []ConnectsStarter` |
| `AuditTellsTheTruth` | `OAuthFlowProofs` | `Spec => []AuditTruthful` |
| `ReplaysHaveReasons` | `OAuthFlowProofs` | `Spec => []ReplayExplained` |
| `FlowImplementsOneTimeState` | `OAuthFlowProofs` | `Spec => ImplementsOneTimeState` |
| `TypeCorrect` | `ProductSessionProofs` | `Spec => []TypeOK` |
| `NothingExpiredServed` | `ProductSessionProofs` | `Spec => ExpiredNeverServed` |
| `EdgeServesTheAllowed` | `ProductSessionProofs` | `Spec => EdgeServesAllowed` |
| `LogoutIsFinal` | `ProductSessionProofs` | `Spec => LogoutSticks` |
| `DirectoryOfLastEntry` | `ProductSessionProofs` | `Spec => []DirectoryIsLastEntry`, lists of every length |
| `EveryoneServedAsListed` | `ProductSessionProofs` | `Spec => ServedAsListed` |
| `KeysTellApart` | `DecisionsProofs` | `Spec => []KeysDistinct`, identifiers of every length |
| `ListsAgree` | `DecisionsProofs` | `Spec => []RepositoriesAgree`, the same |
| `SetupReportsRoute` | `DecisionsProofs` | `Spec => []SetupReportsRefusal` |
| `ChecksNest` | `DecisionsProofs` | `Spec => []ReferenceChecksNest` |
| `ReferencesTellNothing` | `DecisionsProofs` | `Spec => []ReferencesRefusedAlike` |
| `ResultsArrive` | `DecisionsProofs` | `Spec => []TargetsCarryResult` |
| `SlashesMakeNoDifference` | `DecisionsProofs` | `Spec => []TrailingSlashesIgnored`, paths of every length |

Assumptions: the named `ASSUME`s of the modules, nothing else; TLC evaluates them in every
run. Scope lists are non-empty sets of scopes, times are natural numbers, `None` is none of
the values it stands beside, the provider's name holds no separator; `InputsAssumption` of
`Decisions` lets identifiers, sessions, directories, references and URLs be any.
`EventualReads` is a Boolean and no theorem assumes more of it: all hold for calls that overlap
and for stale reads.

- `TypeInv` = `TypeOK` and `CallsWellFormed`: the type alone is not inductive, since a step
  reads `arg[r].key` or `snap[r].refresh.grant`. The strengthening says which steps have an
  argument, a record in hand, and a refresh token in that record.
- `OwnerInv`: `TokensStayWithOwner` speaks of the connect call behind a token, whose argument
  would have to stay put. The strengthening says the grant of every stored or held token
  belongs to a connect call of the same key that has been *answered*, and that answered
  calls keep their arguments.
- `FreshInv`: what a calm call will write back, or is about to decrypt, is what the table has. A
  write makes every other running call of its key overtaken, a read of anything else makes its
  call misled, so calm calls behave as if they ran alone. It makes each write of a calm call a
  step of `ConnectionLifecycle`, and its token the one stored.
- `QuietInv`: under a key no call of which was misled, a quiet grant is nowhere, neither in the
  table nor in the hands of a call that will write it back. `Uncontended` establishes the
  second half at the disconnect; the first half keeps it, since later calls read what is stored.
- `RecordInv`: what a read may return or a call holds is `Sound`: revoked and empty, or active
  with an access token whose grant allows the record's scopes. It holds of copies as of the
  table because a written record is built from one copy and one call's argument; that the
  argument stays put once its call is over is `DoneStays`.
- `HandoffInv`: between its two reads the record of a calm call is as it was judged (`Judged`);
  the record it is about to decrypt has a token that is new or covers the scopes (`Servable`).
  Answers and the calls behind them are over, so an answer that was right stays so
  (`AnswerRight`). `handoff_race` shows that this fails for an overtaken call.
- `OneGrantOrReconnect`, a part of `Sound`: the two tokens of a record are of one grant, unless
  the access token is that of a reconnect that brought no refresh token. It holds of copies
  too, so `RefusalBlamesReconnect` needs no assumption on modes.
- `HolderInv`: Google's current token for a stored one is that token, none, or that of a call
  that is mending it or died (`TokenHeld`), under every key where no call that writes tokens was
  raced (`Muddled`). The strengthening says which calls Google may name: one that connects holds
  its own grant, one that was answered writes the grant it holds. Under a muddled key it fails:
  of two refreshes that run at once, the loser's write strands the connection.
- `RoutesInv`: the records a route listed are settled, whatever was written since, and of its
  user. `Foretold`: what was shown was true of the list at the time it was shown; since the
  clock only moves on and no record becomes available by waiting, it stays true of a
  record that is unchanged. `Chosen`: the account a route revokes is the one it listed.
- `FlowInv`: a pending state belongs to a started flow and sits in the container it was
  started in; an accepted callback's state is pending nowhere. Single use follows, because a
  callback can be accepted only while its state is pending. `CodesTaken`: a code that Google has
  exchanged is taken, by one callback, so no second connection comes of it.
- `AuditInv`: per callback, an event fixes the answer, and a connected callback is
  reporting or done.
- `ReplayInv`: a state that was handed out and is not pending where it was started was
  taken by an accepted or refused callback, or its container restarted (`Accounted`); hence each
  replay answer has its reason (`Explained`).

- `TypeInv` of `ProductSession`: an application is built before a container points to it, so it
  has an environment; a call has its argument, its handler and what it derived as far as it
  has come. `ExpiryInv`: a session is signed by a login that is over, so the token a request
  came with is never signed anew, and the expiry it holds is that of the token.
- `EdgeInv`: an application in use is never built again, so the list an edge token was looked
  up in is the one its request is judged by.
- `LogoutInv`: in a container that was not `rebuilt` every call is handled by its one
  application, which has all sessions logged out there among its revoked ones; a call that
  came late with one of them holds it as revoked when it is judged.
- `DirectoryOfLastEntry` is about a fold over a list. The proof guesses its result, entry by
  entry (`Seeded`: what the last of the first n entries says), shows that the guess satisfies the
  equation of the fold, and that nothing else does: the set of lengths at which the two differ
  would have a least member.
- `InputInv` of `Decisions` only says that the input is one of those offered. The work is in
  operators: a separator that is in neither of two identifiers is found in a joined key by its
  place alone (`SplitAtSeparator`, `PrefixAtSeparator`), so a key is read in one way, and two
  connections that share one have an id with a separator (`KeyCollisions`); a chain of
  checks answers with the first that fails (`RefusedAt`), which turns each of the five chains
  into the cases of its code (`DerivedCode`, `AuthorizedReferenceCode`, ...).

Every safety and action property of a passing run is proved. What overlaps break is kept by
`disconnect_race` and `handoff_race`.

Only model-checked: the liveness properties `EveryRequestAnswered` and
`EveryCallbackAnswered`, since temporal reasoning with fairness and ENABLED is outside TLAPS.
The violations are traces, and stay with TLC. No module declares a RECURSIVE operator.

## Findings

1. `handoff_scopes`. Scopes are compared only for a token that has not expired: an expired
   one is refreshed and handed out without the comparison. README.md:73 of the service
   promises it for every handoff.
2. `disconnect_race`. A connect or a refresh that read the record before a disconnect writes
   the removed tokens back as an active connection, since `upsert` is unconditional. The race
   is not the only way: a call that runs alone but is given the record before the disconnect by
   a read that is not consistent does the same. `LifecycleUnlessRaced` and
   `QuietDisconnectSticks` say that there is no third. The test quoted asserts the clearing for
   a disconnect with nothing beside it, and the service's documents promise nothing for others.
3. `handoff_race`. An access call whose record is disconnected between its two reads ends in
   a `TypeError` instead of reconnect metadata.
4. `flow_audit`. A callback with Google's error (and one with a bad signature, or of a user
   disabled meanwhile) is denied without an audit event.
5. `session_disabled`. The bootstrap activates the trusted user after the list of allowed
   users has been applied, so a user listed as disabled is served.

A sixth observation has no run of its own: two first requests can each build an application,
and sessions logged out in the first are good again in the second. It is why `LogoutSticks`
makes an exception for `rebuilt` containers.

A seventh has none either, being allowed by no document and excluded by none: an origin
configured with `?` or `#` at its end, alone or with slashes behind it, is accepted, and then a
redirect may end in a page that never sees the result as its query. It is the exception of
`TargetsCarryResult`.

## What is not modelled

- Signatures and ciphertexts are perfect: a state or session the service did not sign is
  refused; a ciphertext opens only under its context.
- An edge token is what it claims: its signature is the edge's to check, never the service's, so
  nothing is said of a token that somebody else made.
- Keys are pairs in `OAuthTokens`. `KeysDistinct` says when that is so: two connections share a
  key only where a tenant or user id holds its separator, which nothing in the code excludes
  (`allowed_users.py` checks only that ids are not empty); account ids may hold any.
- Which tokens Google still accepts when they are cleared: `_mark_google_reconnect_required`
  answers every failure of a refresh, a timeout included, by removing them. The model does so;
  no property forbids it, since the code means to.
- A listing of more than one page: `list_for_user` ignores `LastEvaluatedKey`, and a
  user would need a megabyte of records to meet it.
- Setup status answers a malformed session with 400 where a protected route answers 401;
  `SetupReportsRefusal` states it as the code has it.
- An `audit_sink` that is absent or raises. `Emit` assumes one that works; the application
  `create_app_from_env` builds installs none, and then there are no events to judge.
- Which settings are missing or blank: the configuration refuses them one by one.
- Roles, tenant status (every tenant is written active), request and correlation ids,
  error categories, wording, logging, JSON, routing and query strings: no property
  depends on them.
- The spelling of boolean settings, the splitting of list settings, and the metadata views
  of `runtime.py`; the JSON of the allowed users.
- The secret resolver and boto3 factory: I/O only. Of `errors.py` only codes and status are
  modelled; the guards of `validation.py` are those of their callers; `__init__.py` has no state.
- Whether the server runs requests of one container in threads is a matter of deployment;
  the models allow it. With one thread per container the double start of `ProductSession`
  goes away, the races on the table do not.

## Plan

Done: the models above with their abstract specifications, and a theorem for each of their
safety and action properties. What could follow:

1. A refinement without `RacedStep`: an abstract step for the write that brings a grant back, so
   that the abstract module says what the table still promises when calls are raced.
2. Listings of more than one page, if a user's connections may come to fill one.
