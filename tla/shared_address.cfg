SPECIFICATION FairSpec
CONSTANTS
  k1 = k1
  k2 = k2
  s1 = s1
  s2 = s2
  Keys = {k1, k2}
  Servers = {s1}
  Clients = {s1}
  Handles = {h1, h2, h3}
  Svcs = {o1, o2, o3}
  Workers = {}
  Updaters = {}
  Reactor = reactor
  Timer = timer
  None = none
  InitRoutes <- OneRoute
  RouterMaps <- NoRoutes
  DispatchKeys = {}
  DispatchServers = {}
  ReplyHandles = {}
  KeepConns = 1
PROPERTY SessionsTrimmed
