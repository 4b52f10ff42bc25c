\* One image, its index and its signature; one tag; two observations.
SPECIFICATION RegistrySpec
CONSTANTS
    Objects <- Digests
    Kind <- Kinds
    Content <- Contents
    Subject <- Subjects
    Tags = {t}
    Absent = Absent
    MaxDepth = 2
    Timeout = 0
    Window = 0
    InitPresent <- Image
    InitKnown <- Root
    MaxTime = 1
    MaxObservations = 2
    MaxChanges = 2
CHECK_DEADLOCK FALSE
INVARIANTS
    CompleteIsTrue
    CurrentIsCurrent
PROPERTIES
    ClosureIsKept
