SPECIFICATION FairSpec
CONSTANTS
  k1 = k1
  k2 = k2
  s1 = s1
  s2 = s2
  Keys = {k1, k2}
  Servers = {s1}
  Clients = {}
  Handles = {h1, h2}
  Svcs = {o1, o2, o3, o4}
  Workers = {}
  Updaters = {}
  Reactor = reactor
  Timer = timer
  None = none
  InitRoutes <- OneRoute
  RouterMaps <- NoRoutes
  DispatchKeys = {}
  DispatchServers = {}
  ReplyHandles = {}
  KeepConns = 3
PROPERTY ServerComesBack
