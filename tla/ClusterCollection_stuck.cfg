\* Two processes whose refreshes may fail.
SPECIFICATION FairSpec
CONSTANTS
    Nodes = {n1, n2}
    NoNode = NoNode
    Dead = Dead
PROPERTIES
    OneSidecarRuns
