SPECIFICATION Spec
CONSTANTS
    Task = task
    ContractHash = contract
    RetryHash = retry
    Deadline = 1
    a = a
    b = b
    d1 = d1
    d2 = d2
    d3 = d3
    Sha = {a, b}
    NoSha = nosha
    Delivery = {d1, d2, d3}
    OneShot = fresh
    Tx = {t1}
    NoTx = notx
    NoKey = nokey
    Manifest <- MCManifest
    Worker = {w1, w2}
    Event <- MCEvent
    WebhookEvent <- MCWebhookEvent
    NoEvent = noevent
    NoDoc = nodoc
    MaxAttempts = 2
INVARIANT PushIsDurable
