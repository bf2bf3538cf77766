\* Two processes hand over the lease, come and go; refreshes may fail.
SPECIFICATION FairSpec
CONSTANTS
    Nodes = {n1, n2}
    NoNode = NoNode
    Dead = Dead
INVARIANTS
    OneHolder
    OneRunner
    HolderServes
PROPERTIES
    OneSidecarRunsUnlessErred
