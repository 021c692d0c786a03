SPECIFICATION FairSpec
CONSTANTS
    failure_threshold = 1
    success_threshold = 1
    max_half_open = 2
    timeout = 1
    Models = {1, 2, 3}
    Provider <- MCProvider
    Providers = {"a", "b"}
    Catalog <- MCCatalog
    Strategy <- MCStrategy
    Rules <- MCRules
    DefaultModel = 0
    fallback_depth = 2
    Requests = {r1, r2}
    Tasks <- MCTasks
    Overlays <- MCOverlays
    max_retries = 1
    MaxTokens = 9
CHECK_DEADLOCK FALSE
INVARIANTS
    BreakersSound
    CallsFollowPlan
PROPERTIES
    DeadlineEndsRequest
