CONSTANTS
    Numbers = {}
    Symbols = {1}
    Tags = {"Var", "Mul", "Pow", "Fun"}
    Hash <- HashByTag
    IndexRange = 16
    None = None
    MaxArgs = 2
    MaxNodes = 3
    MaxPool = 4
    MaxFailures = 0
    MaxCloneFailures = 1
SPECIFICATION BothSpec
VIEW Stores
INVARIANTS
    ClonesMeanTheSame
