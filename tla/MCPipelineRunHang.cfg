SPECIFICATION RunFairSpec
CONSTANTS
    fetch = fetch
    build = build
    compile = compile
    release = release
    image = image
    docker = docker
    NoGraph = NoGraph
    Root = Root
    Default = Default
    Unknown = Unknown
    Cli = Cli
    Stage <- FlatStage
    Graph = {release}
    Top = release
    GraphOf <- FlatGraphOf
    Sub <- FlatSub
    DependsOn <- FlatDependsOn
    AllowFailure = {fetch}
    HasCondition = {compile}
    UserCancels = FALSE
    Context = {docker}
    ContextOf <- FlatContextOf
    Jobs <- FlatJobs
    Tolerant = {}
    Conditional = {}
    HasBefore = {}
    HasAfter = {}
    HasArtifact = {fetch}
    Signals = FALSE
PROPERTIES
    ScheduleReturns
