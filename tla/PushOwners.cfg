\* Three attempts: the outcome of the second claim is overwritten by the first.
SPECIFICATION Spec
CONSTANTS
    m1 = m1
    m2 = m2
    d1 = d1
    d2 = d2
    u1 = u1
    u2 = u2
    t1 = t1
    t2 = t2
    w1 = w1
    w2 = w2
    None = None
    Messages = {m1}
    Devices = {d1}
    Users = {u1}
    Tokens = {t1, t2}
    Workers = {w1, w2}
    AudienceOf <- ToEveryone
    KeyOf <- NoKeys
    DevicesAtStart <- OneDevice
    DeadAtStart = {}
    MaxAttempts = 3
    ClaimSize = 1
    BatchSize = 1
    MaxFanOut = 1
    MaxRounds = 2
    MaxReceiptRounds = 1
    MaxFaults = 0
    MaxChurn = 0
PROPERTY OwnersRecordsStand
SYMMETRY WorkersAlike
