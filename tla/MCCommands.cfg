CONSTANTS
    Names <- MCNames
    Shared <- MCNames
    Contents <- MCContents
    MaxOthers = 1
    None = None
    Requests <- MCRequests
    FieldOrder <- MCFieldOrder
    Typed <- MCTyped
    TrimLeft <- MCTrimLeft
    TrimRight <- MCTrimRight
    Manifests <- MCManifests
    Normal <- MCNormal
    NoFile = NoFile
    Exports <- MCExports
    Limits <- MCLimits
    NumCPU = 1
SPECIFICATION Spec
INVARIANTS
    TypeOK
    ChildSeesOneMoment
    ImportCounts
    ImportKeeps
    NoValueLost
PROPERTIES
    SetStoresWhatIsMeant
    UntouchedEditKeeps
    CommandEnds
CHECK_DEADLOCK FALSE
