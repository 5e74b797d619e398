\* A push is taken, its worker is slow, the row says that it was never sent.
SPECIFICATION Spec
CONSTANTS
    m1 = m1
    m2 = m2
    d1 = d1
    d2 = d2
    u1 = u1
    u2 = u2
    t1 = t1
    t2 = t2
    w1 = w1
    w2 = w2
    None = None
    Messages = {m1}
    Devices = {d1}
    Users = {u1}
    Tokens = {t1, t2}
    Workers = {w1, w2}
    AudienceOf <- ToEveryone
    KeyOf <- NoKeys
    DevicesAtStart <- OneDevice
    DeadAtStart = {}
    MaxAttempts = 2
    ClaimSize = 1
    BatchSize = 1
    MaxFanOut = 1
    MaxRounds = 1
    MaxReceiptRounds = 1
    MaxFaults = 1
    MaxChurn = 0
INVARIANT ExpiredMeansNotSent
SYMMETRY WorkersAlike
