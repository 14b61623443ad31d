CONSTANTS
    None = None
    MaxExec <- MCMaxExec
SPECIFICATION Spec
PROPERTIES
    NotedJobRetained
CHECK_DEADLOCK FALSE
