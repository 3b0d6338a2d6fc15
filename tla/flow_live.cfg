SPECIFICATION FairSpec
CONSTANTS
    None = None
    f1 = f1
    f2 = f2
    c1 = c1
    c2 = c2
    alice = alice
    bob = bob
    k1 = k1
    k2 = k2
    app = app
    elsewhere = elsewhere
    Flows = {f1}
    Callbacks = {c1, c2}
    Users = {alice}
    Containers = {k1, k2}
    Targets = {app, elsewhere}
    AllowedTargets = {app}
    Ttl = 1
    MaxTime = 1
CHECK_DEADLOCK FALSE
PROPERTIES
    EveryCallbackAnswered
