CONSTANTS
    Numbers = {0}
    Symbols = {1}
    Tags = {"Num", "Var", "Add", "Mul", "Pow", "Fun"}
    Hash <- HashByTag
    IndexRange = 16
    None = None
    MaxArgs = 2
    MaxNodes = 3
    MaxPool = 5
    MaxFailures = 1
SPECIFICATION Spec
VIEW Store
INVARIANTS
    StoreInv
    EqualIffSameSlot
    TotalOrder
PROPERTIES
    ViewsNeverChange
    ImplementsTermBank
