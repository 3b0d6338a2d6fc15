SPECIFICATION Spec
CONSTANTS
    None = None
    k1 = k1
    k2 = k2
    r1 = r1
    r2 = r2
    r3 = r3
    tenant = tenant
    otherTenant = otherTenant
    owner = owner
    colleague = colleague
    cognitoA = cognitoA
    cognitoB = cognitoB
    Containers = {k1}
    Calls = {r1, r2}
    Subjects = {cognitoA, cognitoB}
    Tenants = {tenant, otherTenant}
    Users = {owner, colleague}
    Configs <- MCTrustedDisabled
    Ttl = 1
    MaxTime = 1
CHECK_DEADLOCK FALSE
SYMMETRY Symmetry
PROPERTIES
    DisabledNeverServed
