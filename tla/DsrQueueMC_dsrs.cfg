SPECIFICATION FairSpec
CONSTANTS
    i1 = i1
    i2 = i2
    i3 = i3
    null = null
    nothing = nothing
    Interrupts = {i1, i2, i3}
    Null = null
    Nothing = nothing
    MaxPosts = 2
INVARIANTS
    ListsAgree
PROPERTIES
    DeliversDSRs
    PostedDsrIsCalled
