SPECIFICATION Spec
CONSTANTS
    Task = task
    ContractHash = contract
    RetryHash = retry
    Deadline = 1
    MaxTime = 2
    Sha = {a, b}
    NoSha = nosha
    Delivery = {d1, d2}
    OneShot = fresh
    Tx = {t1, t2}
    NoTx = notx
    NoKey = nokey
    Reproducible = FALSE
    Manifest <- MCManifest
INVARIANT
    SettlesOnRecord
