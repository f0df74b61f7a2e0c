\* Two trainings and a rollback, each of which may die or fail anywhere.
SPECIFICATION Spec
CONSTANTS
    Models <- Trainings
    Versions = {v1, v2}
    Trainers = {t1, t2}
    Operators = {o1}
    Absent = Absent
    Torn = Torn
INVARIANTS
    TypeOK
    RegistryIsGated
    PointerResolves
    CutoffBoundsFalseAlarms
SYMMETRY Interchangeable
