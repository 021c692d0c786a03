SPECIFICATION FairSpec
CONSTANTS
    Ids <- TwoIds
    Boot <- TwoBoot
    Tasks = {t1, t2}
    Ops <- Concurrent
    db = db
    cache = cache
    api = api
CHECK_DEADLOCK FALSE
INVARIANTS
    GraphSound
    TransientStatesOwned
PROPERTIES
    SweepsEnd
