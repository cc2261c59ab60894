SPECIFICATION DSpec
CONSTANTS
    lint = lint
    test = test
    full = full
    unit = unit
    all = all
    m = m
    deploy = deploy
    release = release
    checks = checks
    wrapper = wrapper
    delivery = delivery
    Root = root
    NoPipeline = NoPipeline
    Unset = Unset
    Own = Own
    Name = {test}
    Dependable = {}
    MaxDepends = 0
    Top = release
    Pipeline <- NestedPipeline
    StagesIn <- NestedStagesIn
    Needs <- NestedNeeds
    MayHold <- NestedMayHold
    StartsWith = {}
    Setters <- NestedSetters
    Owners = {{}}
INVARIANT NearestWins
