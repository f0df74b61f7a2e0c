\* Two overlapping requests of any kind, a demo clear among them, and crashes.
SPECIFICATION Spec
CONSTANTS
    r1 = r1
    r2 = r2
    d1 = d1
    d2 = d2
    demo = demo
    real = real
    f1 = f1
    f2 = f2
    t1 = t1
    t2 = t2
    Events = {demo}
    DemoEvents = {demo}
    Findings = {f1}
    Recommendations = {r1}
    Destinations = {d1, d2}
    Targets <- AnyTargets
    Analysts = {a1}
    Threads = {t1, t2}
    NoRow = NoRow
SYMMETRY ThreadSymmetry
INVARIANTS
    TypeOK
    HumanApproved
    AtRestCommitted
