\* The documented meaning of keep_current, which the code does not implement.
SPECIFICATION Spec
CONSTANTS
    Images = {x, y}
    First = x
    None = None
    KeepFloor = 1
    KeepLimits = {0, 2}
    MaxWork = 6
\* Nothing is left to do once the bound is used up and all operations ended.
CHECK_DEADLOCK FALSE
INVARIANT
    LastAppliedIsKept
