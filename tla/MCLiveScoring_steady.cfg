\* A feed in order and a first poll that is served all of it.
SPECIFICATION FairSteadySpec
CONSTANTS
    Events = {1, 2, 3, 4, 5}
    Stamp <- StampIsId
    Suspicious = {2}
    DemoEvents = {}
    Limit = 5
    WindowSize = 2
    NoEvent = NoEvent
INVARIANTS
    NothingSkipped
    FindingsPerEvent
PROPERTY EventuallyScored
