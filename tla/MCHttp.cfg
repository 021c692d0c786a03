SPECIFICATION Spec
CONSTANTS
  r1 = r1
  r2 = r2
  Requests = {r1, r2}
  Connections = {c1, c2}
  NoOne = NoOne
  Traffic <- MCTraffic
  Responses <- MCResponses
  MaxIdlePerHost = 1
  MaxConnections = 2
  MaxKeepAliveRequests = 2
  Tls = TRUE
CHECK_DEADLOCK FALSE

    
PROPERTIES
    ExchangesEnd
    
