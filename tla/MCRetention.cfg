\* Two deliveries and a native request or event, or four native requests or events.
SPECIFICATION Spec
CONSTANTS
    Images = {x, y}
    First = x
    None = None
    KeepFloor = 1
    KeepLimits = {0, 2}
    MaxWork = 8
\* Nothing is left to do once the bound is used up and all operations ended.
CHECK_DEADLOCK FALSE
INVARIANTS
    NewestAreKept
    UnsettledIsKept
    WayBackIsKept
    OriginalIsKept
