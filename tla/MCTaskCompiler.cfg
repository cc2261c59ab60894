SPECIFICATION Spec
CONSTANTS
    version = version
    image = image
    push = push
    scan = scan
    sign = sign
    docker = docker
    tag = tag
    label = label
    secret = secret
    token = token
    taskName = taskName
    Default = Default
    Unset = Unset
    Task <- MCTask
    Container = {docker}
    ContextOf <- MCContextOf
    Needs <- MCNeeds
    Key <- MCKey
    Name = taskName
    SetBy <- MCSetBy
    Variations <- MCVariations
    Resets = {version}
    Conditional = {image}
    HasBefore = {push}
    HasAfter = {version}
    Include <- MCInclude
    Exclude <- MCExclude
    Modify <- MCModify
INVARIANTS
    TypeOK
    EnvIsOwn
    SeesArtifacts
    FilterHolds
