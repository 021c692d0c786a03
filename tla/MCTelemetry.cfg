SPECIFICATION Spec
CONSTANTS
  Threads = {t1, t2}
  Capacities = {0, 2}
  MaxCalls = 2
  Levels = {1, 2}
  SpanThreads = {t1, t2}
  SpanLevels = {1, 2}
  MaxSpans = 3
  MaxNotes = 1
  Exporters = {e1, e2}
  NoExporter = NoExporter
  BatchLimit = 2
  MaxExports = 3
  Observers = {t1, t2}
  Values = {1, 3}
  BoundLists <- BoundListsDef
  NaN = NaN
  MaxObservations = 1
  MaxScrapes = 2
CHECK_DEADLOCK FALSE

    
PROPERTIES
    
    SpansExported
    HistogramHonest
