\* duckdb_loading_benchmark.py and pandas_loading_benchmark.py
CONSTANTS
    a1 = a1  a2 = a2  a3 = a3  b1 = b1  b2 = b2  c = c  d = d
    Files <- MCFiles
    Csv <- MCCsv
    LoadsDefault <- MCLoadsDefault
    LoadsFallback <- MCLoadsFallback
    HasFallback = TRUE
SPECIFICATION Spec
INVARIANT TypeOK
PROPERTY LoadsAndReports
CHECK_DEADLOCK FALSE
