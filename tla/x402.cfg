SPECIFICATION FairSpec
CONSTANTS
    Request = {r1, r2}
    n1 = n1
    n2 = n2
    Id = {n1, n2}
    Payment <- MCPayment
    NoPayment = nopayment
    OddNumber = oddnumber
    Price = 1
    Deployment = {"unpriced", "verify only", "relayer"}
    MaxTime = 2
INVARIANTS
    TypeOK
    NoNonceGap
    SettledIsAccountedFor
PROPERTY RequestAnswered
\* Every request is served once and time is bounded.
CHECK_DEADLOCK FALSE
