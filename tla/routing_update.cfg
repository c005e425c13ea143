SPECIFICATION Spec
CONSTANTS
  k1 = k1
  k2 = k2
  s1 = s1
  s2 = s2
  Keys = {k1, k2}
  Servers = {s1, s2}
  Clients = {}
  Handles = {h1, h2}
  Svcs = {o1, o2, o3}
  Workers = {w1, w2}
  Updaters = {w1}
  Reactor = reactor
  Timer = timer
  None = none
  InitRoutes <- OneRoute
  RouterMaps <- StableMaps
  DispatchKeys = {k1}
  DispatchServers = {}
  ReplyHandles = {}
  KeepConns = 3
SYMMETRY Symmetric
INVARIANTS
  TypeOK
  RouteServerAgreement
  OneSessionPerServer
PROPERTY UpdateTakesEffect
