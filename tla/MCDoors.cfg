CONSTANTS
    Graph = {"g", "h"}
    DefaultGraph = ""
    Literal <- MCLiterals
    MaxNesting = 1
    Scope = "g"
    MaxCopy = 3
    MaxLoad = 12
    Remote = "machine"
    RemoteTriples <- MCRemoteTriples
    IriOrder <- MCIriOrder
    Spellings <- MCSpellings
    Capabilities <- MCCapabilities
    Updates <- MCUpdates
    Queries <- MCQueries
    Documents <- MCDocuments
    Datasets <- MCDatasets
    MAX_JOIN_OPERANDS = 4
    MAX_ALGEBRA_NODES = 10
    Part <- MCParts
    Rank <- MCRank
    MaxSparqlBytes = 20
    MaxSparqlNesting = 3
    MaxRdfNesting = 2
    MaxScanBranches = 6
    Starts <- MCStarts
    Terms <- MCTerms
    Operators <- MCOperators
    Gaps <- MCGaps
    Escapes = {"(", "<", "'"}
    MaxTokens = 4
    Limit <- MCLimit
    TimeCeiling = 2
    HostBases <- MCHostBases
    HostCeilings <- MCHostCeilings
    Absent = Absent
    Callers <- MCCallers
    Stores <- MCStores
    Opening <- Bracket
    Closing <- Bracket
SPECIFICATION DoorsSpec
INVARIANTS
    FootprintIsFaithful
    NothingIsReadAsEmpty
    WriteOnlyLearnsNothing
    NothingGrowsTooDeep
    NothingUngrantedIsRead
    NoGraphIsAnsweredAsEmpty
    BindingAdviceWorks
    FingerprintSeesEveryChange
    TextsAreAdmittedByTheirNesting
    PlansStayWithinBounds
    AnswerIsWhole
    SizeRefusalsAreExact
