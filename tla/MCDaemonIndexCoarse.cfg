SPECIFICATION Spec
CONSTANTS
    h1 = h1
    h2 = h2
    v1 = v1
    v2 = v2
    k1 = k1
    k2 = k2
    u1 = u1
    u2 = u2
    u3 = u3
    None = None
    Unborn = Unborn
    Gone = Gone
    Handlers = {h1, h2}
    Dirs = {v1}
    Names = {k1, k2}
    UUIDs = {u1, u2}
    Flaky = {}
    Coarse = {"daemon", "cli"}
    MaxClock = 3
SYMMETRY Symmetry
INVARIANT AnswersCurrent
