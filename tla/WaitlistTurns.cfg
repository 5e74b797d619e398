\* The devices of somebody change between two releases.
SPECIFICATION Spec
CONSTANTS
    u1 = u1
    u2 = u2
    u3 = u3
    r1 = r1
    r2 = r2
    s1 = s1
    None = None
    Users = {u1, u2, u3}
    Requests = {r1, r2}
    Schedulers = {s1}
    Ids = {1, 2, 3}
    MaxTrouble = 1
INVARIANTS
    OneTurnAtATime
SYMMETRY Alike
