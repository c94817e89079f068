SPECIFICATION FairSpec
CONSTANTS
    p1 = p1
    p2 = p2
    A = A
    B = B
    k1 = k1
    k2 = k2
    d1 = d1
    d2 = d2
    None = None
    Procs = {p1, p2}
    Users = {A, B}
    Founders = {A}
    Impatient = {B}
    Flaky = {1}
    Names = {k1}
    Data = {d1}
    UUIDs = {1, 2}
INVARIANTS LockInv
PROPERTIES NoAccessLost LockReleased
