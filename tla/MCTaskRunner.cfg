SPECIFICATION FairSpec
CONSTANTS
    prepare = prepare
    build = build
    notify = notify
    misspelt = misspelt
    docker = docker
    Default = Default
    Unknown = Unknown
    Task <- MCTask
    Context = {docker}
    ContextOf <- MCContextOf
    Jobs <- MCJobs
    Tolerant = {build}
    Conditional = {build}
    HasBefore = {build}
    HasAfter = {prepare}
    HasArtifact = {build}
    Canceler = {cli}
    Signals = TRUE
INVARIANTS
    TypeOK
    ContextIsUp
    CleanupKnowsContext
    HooksEncloseTask
    SuccessIsGenuine
    PanicsOnlyAfterCancel
PROPERTIES
    RunEnds
    CancelIsAnswered
