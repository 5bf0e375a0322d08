CONSTANTS
    Mains = {m1, m2}
    None = None
SPECIFICATION FairSpec
INVARIANTS
    LeaderTypeOK
    AssertionsHold
PROPERTIES
    RoleFollowsKey
    Recovers
