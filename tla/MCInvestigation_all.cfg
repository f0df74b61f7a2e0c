\* Everything that can happen, with overlapping starts of the same finding; fair
\* pool and client timeout.
SPECIFICATION FairSpec
CONSTANTS
    t1 = t1
    t2 = t2
    f1 = f1
    f2 = f2
    Findings = {f1, f2}
    Threads = {t1, t2}
    NoFinding = NoFinding
INVARIANTS
    TypeOK
    OnlyAgentCompletes
    RunningHasOwner
PROPERTY RunningSettles
