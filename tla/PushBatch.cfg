\* Two workers, two phones, one fault: batches with two outcomes and the halves of a refused one.
SPECIFICATION Spec
CONSTANTS
    m1 = m1
    m2 = m2
    d1 = d1
    d2 = d2
    u1 = u1
    u2 = u2
    t1 = t1
    t2 = t2
    w1 = w1
    w2 = w2
    None = None
    Messages = {m1}
    Devices = {d1, d2}
    Users = {u1, u2}
    Tokens = {t1, t2}
    Workers = {w1, w2}
    AudienceOf <- ToEveryone
    KeyOf <- NoKeys
    DevicesAtStart <- TwoDevices
    DeadAtStart = {}
    MaxAttempts = 2
    ClaimSize = 2
    BatchSize = 2
    MaxFanOut = 1
    MaxRounds = 1
    MaxReceiptRounds = 0
    MaxFaults = 1
    MaxChurn = 0
PROPERTIES
    ClaimsAreAnsweredOnce
SYMMETRY WorkersAndPhonesAlike
