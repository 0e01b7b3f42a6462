SPECIFICATION Spec
CONSTANTS
    Task = task
    first = first
    second = second
    Contract = {first, second}
    DeadlineOf <- MCDeadlineOf
    MaxTime = 1
    Reward = 2
    FeeAmount = 1
    a = a
    b = b
    p1 = p1
    p2 = p2
    Sha = {a, b}
    NoSha = nosha
    Prefix = {p1, p2}
    Delivery <- MCDelivery
    OneShot = fresh
    Tx <- MCTx
    NoTx = notx
    NoKey = nokey
    Manifest <- TwoContracts
    Stores = {"memory", "firestore"}
    NoDocument = nodocument
    NoReceipt = noreceipt
INVARIANTS
    TypeOK
    ProviderPaidOnPass
    SecondPayoutStraddlesDeadline
    StoredSettlementIsPaid
    ReceiptIsTrue
PROPERTY NothingForgotten
