SPECIFICATION Spec
CONSTANTS
    taskctl = taskctl
    tasks = tasks
    a = a
    b = b
    c = c
    conf = conf
    remote = remote
    Global = global
    Unset = Unset
    File = {global, taskctl, tasks, a, b, c}
    Url = {remote}
    Dir = {conf}
    Candidates <- MCCandidates
    MayRequest = {remote, tasks}
    Content <- MCContent
    Layouts <- MCLayouts
    Conditions <- MCConditions
    Definers <- MCDefiners
    Users <- MCUsers
INVARIANTS
    CirclesAreCut
    NothingLostSilently
    TaskIsMergedByField
