\* One request at a time, every operation, demo clears and crashes.
SPECIFICATION Spec
CONSTANTS
    r1 = r1
    r2 = r2
    d1 = d1
    d2 = d2
    demo = demo
    real = real
    f1 = f1
    f2 = f2
    t1 = t1
    t2 = t2
    Events = {demo, real}
    DemoEvents = {demo}
    Findings = {f1, f2}
    Recommendations = {r1, r2}
    Destinations = {d1}
    Targets <- SharedTarget
    Analysts = {a1}
    Threads = {t1}
    NoRow = NoRow
INVARIANTS
    RuleBacked
SYMMETRY FindingSymmetry
PROPERTY LedgerImplemented
