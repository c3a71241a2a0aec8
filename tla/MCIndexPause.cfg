SPECIFICATION Spec
CONSTANTS
    p1 = p1  p2 = p2  p3 = p3 c1 = c1  c2 = c2  c3 = c3  a = a  b = b  m = m
    n1 = n1  n2 = n2  x1 = x1  x2 = x2
    None = None
    Handlers = {p1, p2, p3}
    ProcessOf <- MCProcessOf
    Commits = {c1, c2, c3}
    Ancestors <- MCAncestors
    Trees <- MCTrees
    Supported <- MCSupported
    Names = {n1, n2}
    Readable = {a, b}
    Bytes <- MCBytes
    Mode <- MCMode
    ConfigPath = "config"
    MAX_INDEXED_FILES = 2
    MAX_TOTAL_BYTES = 3
    MAX_INCREMENTAL_FILES = 2
    COMPARE_FILE_PAGE_LIMIT = 3
    Budgets <- MCOneMove
PROPERTY PauseSticks
CHECK_DEADLOCK FALSE
