SPECIFICATION FairSpec
CONSTANTS
    docs = docs
    code = code
    saved = saved
    touched = touched
    built = built
    Default = Default
    Unknown = Unknown
    Cli = Cli
    Watcher = {docs}
    Event = {saved, touched, built}
    WatcherOf <- OneWatcherOf
    Watched = {saved, built}
    Tolerant = {docs}
    Conditional = {}
INVARIANTS
    NoOverlap
    RewrittenAfterFirstRun
    ExitsOnSignal
PROPERTIES
    CloseIsFinal
    SignalIsObeyed
    HandlerIsAnswered
