CONSTANTS
    Names <- MCNames
    Batches <- MCBatches
    Sources <- MCSources
    MaxCommits = 3
    Workspaces <- MCWorkspaces
    Nowhere = "nowhere"
SPECIFICATION Spec
INVARIANTS
    TypeOK
    LockClosed
    MerkleSound
    EdgesComplete
    UnsafeSitesAudited
    BuildsComplete
    CommitPathsAgree
PROPERTIES
    PinnedClosureStable
    CommittedIsBuilt
    BuildReproducible
