\* Late events, demo clears, more events than one poll serves, failures, restarts.
SPECIFICATION Spec
CONSTANTS
    Events = {1, 2, 3, 4}
    Stamp <- StampIsId
    Suspicious = {2}
    DemoEvents = {1, 2}
    Limit = 3
    WindowSize = 2
    NoEvent = NoEvent
INVARIANTS
    TypeOK
    WindowChronological
