CONSTANTS
    d1 = d1
    d2 = d2
    NoDim = NoDim
    NotNum = NotNum
    BadKey = BadKey
    NoRel = NoRel
    None = None
    Datasets <- MCDatasets
    Stems <- MCStems
    Cols <- MCCols
    PCols <- MCPCols
    MaxDim = 1
    DimOf <- MCDimOf
    FactStem = "fact"
    DimStem <- MCDimStem
    KeyCol <- MCKeyCol
    Files <- MCFiles
    Calls <- MCCalls
SPECIFICATION Spec
INVARIANT TypeOK
INVARIANT SplitSchemaSound
INVARIANT ViewIsJoin
PROPERTY SplitResultCanonical
