CONSTANTS
    Graph = {"g", "h"}
    DefaultGraph = ""
    Literal <- MCLiterals
    MaxNesting = 1
    Scope = "g"
    MaxCopy = 3
    MaxLoad = 12
    Remote = "machine"
    RemoteTriples <- MCRemoteTriples
    IriOrder <- MCIriOrder
    Spellings <- MCSpellings
    Capabilities <- MCCapabilities
    Updates <- MCListed
    Queries <- MCNone
    Documents <- MCNone
    Datasets <- MCListedDatasets
    Part <- MCListedParts
    Rank <- MCRank
SPECIFICATION Spec
INVARIANTS
    CopyIsEnough
