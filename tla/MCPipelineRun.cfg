SPECIFICATION RunFairSpec
CONSTANTS
    fetch = fetch
    build = build
    compile = compile
    release = release
    image = image
    docker = docker
    NoGraph = NoGraph
    Root = Root
    Default = Default
    Unknown = Unknown
    Cli = Cli
    Stage <- ReleaseStage
    Graph = {release, image}
    Top = release
    GraphOf <- ReleaseGraphOf
    Sub <- ReleaseSub
    DependsOn <- ReleaseDependsOn
    AllowFailure = {fetch}
    HasCondition = {compile}
    UserCancels = FALSE
    Context = {docker}
    ContextOf <- ReleaseContextOf
    Jobs <- ReleaseJobs
    Tolerant = {}
    Conditional = {}
    HasBefore = {}
    HasAfter = {}
    HasArtifact = {fetch}
    Signals = TRUE
INVARIANTS
    DownAfterUse
    ArtifactIsReady
    StatusTellsResult
PROPERTY RunEnds
