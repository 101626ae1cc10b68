\* pyarrow_benchmark.py: no retry
CONSTANTS
    a1 = a1  a2 = a2  a3 = a3  b1 = b1  b2 = b2  c = c  d = d
    Files <- MCFiles
    Csv <- MCCsv
    LoadsDefault <- MCArrowLoads
    LoadsFallback <- MCLoadsFallback
    HasFallback = FALSE
SPECIFICATION Spec
PROPERTY LoadsSafely
CHECK_DEADLOCK FALSE
