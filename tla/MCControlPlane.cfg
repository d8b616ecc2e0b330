CONSTANTS
    alice = alice
    bob = bob
    g1 = g1
    g2 = g2
    g3 = g3
    d1 = d1
    d2 = d2
    Principals <- MCPrincipals
    InitialRoles <- MCRoles
    InitialPolicies <- NoPolicies
    Grantable <- MCGrantable
    Governors <- MCGovernors
    Threshold = 2
    Signable <- MCSignable
    Documents <- MCDocuments
    MaxPending = 2
SPECIFICATION CPSpec
SYMMETRY MCSymmetry
INVARIANT CPTypeOK
PROPERTY RollbackNeedsQuorum
PROPERTY PoliciesImmutable
