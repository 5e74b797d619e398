\* Two requests and a scheduler on the queue of two users, while nothing goes wrong.
SPECIFICATION Spec
CONSTANTS
    u1 = u1
    u2 = u2
    u3 = u3
    r1 = r1
    r2 = r2
    s1 = s1
    None = None
    Users = {u1, u2}
    Requests = {r1, r2}
    Schedulers = {s1}
    Ids = {1, 2, 3}
    MaxTrouble = 0
INVARIANTS
    OneTurn
PROPERTIES
    KeepsTheLine
SYMMETRY Alike
