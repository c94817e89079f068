CONSTANTS
    db = db
    padded = padded
    Names <- MCNames
    Trimmed <- MCTrimmed
    Slots = {s1, s2}
    None = None
SPECIFICATION Spec
SYMMETRY Symmetry
INVARIANTS
    TypeOK
    WaitsForOneCall
    EditKeepsName
    NoOldValueShown
PROPERTIES
    CreatedIsListed
CHECK_DEADLOCK FALSE
