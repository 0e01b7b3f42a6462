SPECIFICATION FairSpec
CONSTANTS
    Evaluation = {e1, e2}
    Execution = {x1, x2}
    NoExecution = noexecution
    Bundle = {pinned, other}
    Pinned = pinned
    NoBundle = nobundle
    NoFile = nofile
INVARIANTS
    TypeOK
    VerdictIsGraded
    SuccessHasResult
PROPERTY
    DispatchEnds
