SPECIFICATION Spec
CONSTANTS
  k1 = k1
  k2 = k2
  s1 = s1
  s2 = s2
  Keys = {k1, k2}
  Servers = {s1}
  Clients = {c1, c2}
  Handles = {h1, h2}
  Svcs = {o1, o2, o3}
  Workers = {w1, w2}
  Updaters = {}
  Reactor = reactor
  Timer = timer
  None = none
  InitRoutes <- NoRoutes
  RouterMaps <- NoRoutes
  DispatchKeys = {k1}
  DispatchServers = {s1}
  ReplyHandles = {h1, h2}
  KeepConns = 3
INVARIANTS
  NoUseAfterDestroy
  ConnIsOpen
  OpenIsKnown
