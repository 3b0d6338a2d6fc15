SPECIFICATION RoutesSpec
CONSTANTS
    None = None
    alice = alice
    bob = bob
    carol = carol
    docsAccount = docsAccount
    otherAccount = otherAccount
    r1 = r1
    r2 = r2
    r3 = r3
    docs = docs
    docsReadonly = docsReadonly
    Users = {alice, bob, carol}
    Members = {alice, bob}
    Accounts = {docsAccount, otherAccount}
    Requests = {r1, r2, r3}
    Scopes = {docs, docsReadonly}
    DocsScope = docs
    DocsReadonlyScope = docsReadonly
    GrantedScopes <- MCDocsOnly
    RequiredScopes <- MCDocsOnly
    Lifetime = 1
    MaxTime = 1
    EventualReads = TRUE
CHECK_DEADLOCK FALSE
SYMMETRY Symmetry
INVARIANTS
    RoutesTypeOK
    TokensStayWithOwner
    ListingsStayWithOwner
    SetupPredictsHandoff
PROPERTIES
    UnnamedDisconnectEmpties
    RoutesImplementTokens
