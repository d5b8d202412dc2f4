SPECIFICATION Spec
CONSTANTS
    Keys = {acme}
    Values <- Spellings
    Form <- NormalForm
    StaleDays = 1
    Runs = {r1, r2}
    Operator = operator
    Nobody = nobody
    Confs = {8, 10}
    MaxDay = 1
    MaxCommands = 1
SYMMETRY RunSymmetry
INVARIANTS
    PromotionKept
    NoSelfSupport
    RecallIsSound
PROPERTIES
    Serializable
    DisputeStands
CHECK_DEADLOCK FALSE
