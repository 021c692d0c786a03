SPECIFICATION FairSpec
CONSTANTS
    Messages = {1, 2}
    Producer <- OneProducer
    Blocking = {1}
    MessageKey <- FirstKeyed
    SendKey <- Unkeyed
    Target = "orders"
    Destinations = {"orders", "dlq"}
    Listeners <- MCListeners
    Dest <- MCDest
    Opts <- MCOpts
    Hash <- MCHash
    RoundRobinWrap = 2
CHECK_DEADLOCK FALSE
INVARIANTS
    
    HandlersWithinConcurrency
PROPERTIES
    MessagesSettle
