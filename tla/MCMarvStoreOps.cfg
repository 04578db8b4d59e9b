CONSTANTS
    Names <- MCNames
    Batches <- MCInterfaceBatches
    Sources <- MCSources
    MaxCommits = 3
    Workspaces = {}
    Nowhere = "nowhere"
SPECIFICATION Spec
INVARIANT FetchedCapabilityOps
