SPECIFICATION Spec
CONSTANTS
    None = None
    Index = {acc}
    Value = {a, b}
    MaxInstance = 2
    MaxDepth = 3
    MinSize = 2
    MaxSize = 3
    MaxStack = 4
SYMMETRY Symmetric
CONSTRAINT StackBound
INVARIANTS TypeOK LogExact FreshIds OpenSessionsKept RestoreCannotFail MergeAssertions
PROPERTY ImplementsSnapshots
