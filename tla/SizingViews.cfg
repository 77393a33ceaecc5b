SPECIFICATION Spec
CONSTANTS
    None = None
    Columns <- MCColumns
    StartRows <- MCStartRows
    MountNames = {m1, m2}
    MountStates <- MCMountStates
    FirstMount <- MCFirstMount
    MaxChanged = 2
INVARIANTS
    AxesFitTheirAction
    RootCauseExplains
    ViewsAgree
    VerdictsAreExplained
    SignalsAgree
    FullMountsSeen
PROPERTIES
    MoreLoadStaysShort
    FollowingSettles
CHECK_DEADLOCK FALSE
