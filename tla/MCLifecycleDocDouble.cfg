SPECIFICATION Spec
CONSTANTS
    Ids <- TwoIds
    Boot <- TwoBoot
    Tasks = {t1, t2, t3}
    Ops <- StartAndStop
    db = db
    cache = cache
    api = api
INVARIANTS
    NoDoubleStart
