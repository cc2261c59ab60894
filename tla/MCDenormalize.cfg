SPECIFICATION DSpec
CONSTANTS
    lint = lint
    test = test
    full = full
    unit = unit
    all = all
    m = m
    deploy = deploy
    release = release
    checks = checks
    wrapper = wrapper
    delivery = delivery
    Root = root
    NoPipeline = NoPipeline
    Unset = Unset
    Own = Own
    Name <- MCName
    Dependable = {lint, test, full, root}
    MaxDepends = 2
    Top = release
    Pipeline <- MCPipeline
    StagesIn <- MCStagesIn
    Needs <- MCNeeds
    MayHold <- MCMayHold
    StartsWith <- MCStartsWith
    Setters <- MCSetters
    Owners <- MCOwners
INVARIANTS
    CycleIsFound
    EveryStageIsListed
    RebuiltIsComplete
    EnvHasSource
    PanicNeedsNesting
