SPECIFICATION FairSpec
CONSTANTS
    docs = docs
    code = code
    saved = saved
    touched = touched
    built = built
    Default = Default
    Unknown = Unknown
    Cli = Cli
    Watcher = {docs, code}
    Event = {saved, touched, built}
    WatcherOf <- TwoWatcherOf
    Watched = {saved, built}
    Tolerant = {docs}
    Conditional = {code}
PROPERTY EventTriggersTask
