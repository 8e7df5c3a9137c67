CONSTANTS
    Caller = {c1, c2}
    None = None
    Graph = {"g", "h"}
    DefaultGraph = ""
    Triple <- MCTriple
    Update <- MCUpdate
    Initial <- MCInitial
    MaxCopy = 1
    MaxNesting = 1
    MCLiterals = {"unbound", "any", "true", "false"}
    Computes <- MCExecute
    Observes <- MCObserved
    Deep <- MCTooDeep
    Reads <- MCReads
    ReadsOutside <- MCReadsOutside
    SilentOn <- MCSilence
    MayInsert <- MCCheckInserted
SPECIFICATION Spec
INVARIANTS
    TypeOK
PROPERTIES
    OnlyTheGrantedGraph
    ImplementsAtomicUpdate
SYMMETRY Symmetry
