CONSTANTS
    d1 = d1
    d2 = d2
    d3 = d3
    NoDim = NoDim
    NotNum = NotNum
    BadKey = BadKey
    NoRel = NoRel
    None = None
    Datasets <- MCDatasets
    Stems <- MCStems
    Cols <- MCCols
    PCols <- MCPCols
    MaxDim = 1
    DimOf <- MCDimOf
    FactStem = "fact"
    DimStem <- MCDimStem
    KeyCol <- MCKeyCol
    Files <- MCFiles
    Calls <- MCCalls
    NbCalls <- MCNbCalls
    MaxRuns = 4
    MaxFaults = 1
SPECIFICATION NbSpec
INVARIANT AnalysisSeesLoadedData
CHECK_DEADLOCK FALSE
