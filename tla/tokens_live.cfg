SPECIFICATION FairSpec
CONSTANTS
    None = None
    alice = alice
    bob = bob
    docsAccount = docsAccount
    r1 = r1
    r2 = r2
    r3 = r3
    docs = docs
    docsReadonly = docsReadonly
    Users = {alice, bob}
    Members = {alice}
    Accounts = {docsAccount}
    Requests = {r1, r2, r3}
    Scopes = {docs, docsReadonly}
    DocsScope = docs
    DocsReadonlyScope = docsReadonly
    GrantedScopes <- MCDocsOnly
    RequiredScopes <- MCDocsOnly
    Lifetime = 1
    MaxTime = 1
    EventualReads = FALSE
CHECK_DEADLOCK FALSE
PROPERTIES
    EveryRequestAnswered
