SPECIFICATION Spec
CONSTANTS
    e1 = e1  e2 = e2  e3 = e3  d1 = d1  d2 = d2  short = short  long = long
    NULL = NULL  NoClear = NoClear
    Entries = {e1, e2}
    Docs = {d1, d2}
    Values = {short, long}
    Paths <- MCPaths
    SdsLen <- MCSdsLen
    Configs <- MCSmallConfigs
    DefaultConfig <- MCSmallConfig
PROPERTIES ImplementsPathCache ClearTerminates
