SPECIFICATION Spec
CONSTANTS
    None = None
    alice = alice
    bob = bob
    docsAccount = docsAccount
    r1 = r1
    r2 = r2
    r3 = r3
    docs = docs
    docsReadonly = docsReadonly
    Users = {alice}
    Members = {alice}
    Accounts = {docsAccount}
    Requests = {r1, r2, r3}
    Scopes = {docs, docsReadonly}
    DocsScope = docs
    DocsReadonlyScope = docsReadonly
    GrantedScopes <- MCBothScopes
    RequiredScopes <- MCBothScopes
    Lifetime = 1
    MaxTime = 1
    EventualReads = TRUE
CHECK_DEADLOCK FALSE
SYMMETRY Symmetry
INVARIANTS
    TypeOK
    RevokedHoldsNoTokens
    ScopesMatchToken
    RefusalBlamesReconnect
    ViewsAgree
    QuietDisconnectSticks
    StoredHandoffCoversScopes
    CalmAnswersTyped
    StrandedHasCause
PROPERTIES
    HandsOutStored
    CreatedAtKept
    LifecycleUnlessRaced
