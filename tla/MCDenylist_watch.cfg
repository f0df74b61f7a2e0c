\* One watcher whose runs and reloads may fail, and a container that stops and starts.
SPECIFICATION FairSpec
CONSTANTS
    Rules <- NestedRules
    Hosts <- AskedHosts
    Workers = {w1}
    Watchers = {w1}
INVARIANTS
    SettledIsLoaded
    SquidAndHelperAgree
PROPERTIES
    DenialsStay
    RulesReachSquid
