SPECIFICATION FairSpec
CONSTANTS
    lint = lint
    test = test
    build = build
    compile = compile
    pack = pack
    deploy = deploy
    image = image
    NoGraph = NoGraph
    Root = Root
    Stage <- MCStage
    Graph <- MCGraph
    Top = deploy
    GraphOf <- MCGraphOf
    Sub <- MCSub
    DependsOn <- MCDependsOn
    AllowFailure <- MCAllowFailure
    HasCondition <- MCHasCondition
    UserCancels = TRUE
INVARIANTS
    TypeOK
    ReturnIsQuiet
    StartedBehindAParent
    CanceledHasCulprit
    VerdictIsComplete
    NestedDoneIsDone
PROPERTIES
    SettledForGood
    ImplementsExecution
    CancelStopsPasses
    Termination
