SPECIFICATION DaemonSpec
CONSTANTS
    p1 = p1
    p2 = p2
    A = A
    B = B
    k1 = k1
    k2 = k2
    d1 = d1
    None = None
    Procs = {p1, p2}
    Users = {A, B}
    Founders = {A}
    Impatient = {}
    Flaky = {}
    Names = {k1, k2}
    Data = {d1}
    UUIDs = {1, 2, 3}
SYMMETRY Symmetry
PROPERTIES NoResurrection
