\* An approval and a rejection of one recommendation overlap.
SPECIFICATION SpecNoClear
CONSTANTS
    r1 = r1
    r2 = r2
    d1 = d1
    d2 = d2
    demo = demo
    real = real
    f1 = f1
    f2 = f2
    t1 = t1
    t2 = t2
    Events = {}
    DemoEvents = {}
    Findings = {f1}
    Recommendations = {r1}
    Destinations = {d1}
    Targets <- SharedTarget
    Analysts = {a1}
    Threads = {t1, t2}
    NoRow = NoRow
INVARIANT RejectedNotEnforced
