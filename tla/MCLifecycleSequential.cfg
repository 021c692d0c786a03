SPECIFICATION Spec
CONSTANTS
    Ids <- ThreeIds
    Boot <- Chain
    Tasks = {t1}
    Ops <- Sequential
    db = db
    cache = cache
    api = api
PROPERTIES
    SweepsInOrder
