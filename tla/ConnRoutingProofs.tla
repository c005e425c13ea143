-------------------------- MODULE ConnRoutingProofs --------------------------
(***************************************************************************)
(* Theorems about ConnRouting, for every set of servers, handles, handlers *)
(* and threads and every argument of onUpdateRouter.  The inductive        *)
(* invariant IInv says, of each thread and from the point where it is:     *)
(*   FrameOK   the fields of its frame that its next steps use;            *)
(*   InProxy   whether it holds the lock of ProxyMgr;                      *)
(*   RemoveOK  that the routes it is about to remove are still there;      *)
(*   OpenOK    that the session it is about to add will be the first;      *)
(* and, of the tables, RegisteredOK and SessionsOK.  UInv adds to it what  *)
(* an update of the routes has left to do, from the routes it was given.   *)
(***************************************************************************)
EXTENDS ConnRouting, FiniteSetTheorems, TLAPS

OpenPcs == {"open", "addr", "addsvr"}
ClosePcs == {"closing", "rmconn", "rmsvrconn", "destroy"}

\* A frame whose thread holds ProxyMgr::m_mutex.
InProxy(f) ==
  \/ f.pc \in {"connect", "insert", "prune", "closesvr", "rebuild", "trim", "trimrm"}
  \/ f.pc \in OpenPcs /\ f.job # "accept"
  \/ f.pc \in ClosePcs /\ f.job # "event"

\* A frame in addSvr, between SvrMgr::addSvr and the insertion of the route.
Adding(f) ==
  /\ f.pc \in OpenPcs \cup {"connect", "insert"}
  /\ f.job \in {"boot", "update"}

\* A frame in closeSvr or rmSvr for the server of a route to remove.
Removing(f) ==
  /\ f.pc \in ClosePcs \cup {"closesvr"}
  /\ f.job = "update"

JobOK(t, f) ==
  /\ f.job \in {"boot", "accept", "event", "finalize"} => t = Reactor
  /\ f.job = "rebuild" => t = Timer
  /\ f.job \in {"update", "dispatch", "reply"} => t \in Workers
  /\ f.job = "boot" => phase = "boot"
  /\ f.job = "finalize" => phase = "stop"
  /\ f.pc = "idle" => f.job = "none"
  /\ f.pc \in {"add", "insert"} => f.job \in {"boot", "update"}
  /\ f.pc = "connect" => f.job \in {"boot", "update", "rebuild"}
  /\ f.pc \in OpenPcs => f.job \in {"boot", "update", "rebuild", "accept"}
  /\ f.pc \in ClosePcs => f.job \in {"update", "finalize", "event"}
  /\ f.pc \in {"closesvr", "prune"} => f.job \in {"update", "finalize"}
  /\ f.pc \in {"due", "rebuild", "trim", "trimrm"} => f.job = "rebuild"
  /\ f.pc \in {"stopping", "ending"} => f.job = "finalize"
  /\ f.pc \in {"route", "getconn"} => f.job = "dispatch"
  /\ f.pc \in {"exist", "write", "send"} => f.job \in {"dispatch", "reply"}

FieldsOK(f) ==
  /\ f.pc \in {"open", "addr", "send"} \cup ClosePcs => f.obj \in Svcs
  /\ f.pc \in {"addr", "addsvr", "exist", "write", "trimrm"} => f.hnd \in Handles
  /\ f.pc = "trimrm" => f.excess > 0
  /\ f.pc \in {"connect", "insert", "trim", "trimrm", "getconn"} => f.svr \in Servers
  /\ f.pc \in OpenPcs /\ f.job # "accept" => f.svr \in Servers
  /\ f.pc \in ClosePcs \cup {"closesvr"} /\ f.job # "event" => f.svr \in Servers
  /\ Adding(f) \/ Removing(f) => f.key \in Keys

FrameOK(t, f) == JobOK(t, f) /\ FieldsOK(f)

RemoveOK(f) ==
  phase \in {"boot", "run"} =>
    /\ Removing(f) => <<f.key, f.svr>> \in m_mapProxy \ f.todo
    /\ Removing(f) \/ f.pc = "prune" => f.todo \subseteq m_mapProxy

Disjoint == Clients \cap Servers = {}

OpenOK(f) ==
  /\ f.pc \in OpenPcs \cup {"connect"} /\ f.job # "accept" =>
       sessions[f.svr] = {}
  /\ f.pc \in {"open", "addr"} /\ Live(f.obj) =>
       IF f.job = "accept" THEN peer[f.obj] \in Clients ELSE peer[f.obj] = f.svr
  /\ f.pc = "addsvr" =>
       IF f.job = "accept" THEN f.adr \in Clients ELSE f.adr = f.svr

ThreadOK(t, f) ==
  /\ FrameOK(t, f)
  /\ InProxy(f) <=> proxyLock = t
  /\ RemoveOK(f)
  /\ Disjoint => OpenOK(f)

ThreadsOK == \A t \in Threads : ThreadOK(t, th[t])

Routed(s) == \E k \in Keys : <<k, s>> \in m_mapProxy
BeingAdded(s) == \E t \in Threads : Adding(th[t]) /\ th[t].svr = s

RegisteredOK ==
  phase \in {"boot", "run"} =>
    /\ \A s \in Servers : s \in registered <=> Routed(s) \/ BeingAdded(s)
    /\ \A s \in Servers : ~(Routed(s) /\ BeingAdded(s))
    /\ \A j, k \in Keys, s \in Servers :
         <<j, s>> \in m_mapProxy /\ <<k, s>> \in m_mapProxy => j = k

SessionsOK ==
  /\ \A s \in Servers : s \notin registered => sessions[s] = {}
  /\ Disjoint => \A s \in Servers : \A h1, h2 \in sessions[s] : h1 = h2

IInv == TypeOK /\ ThreadsOK /\ RegisteredOK /\ SessionsOK

----------------------------------------------------------------------------
(* Facts about frames.                                                      *)

\* A thread that takes a new frame takes a well-typed one, and no other thread's
\* frame changes.
LEMMA GoType ==
  ASSUME th \in [Threads -> Frame], NEW t \in Threads, NEW f \in Frame, Go(t, f)
  PROVE  /\ th' \in [Threads -> Frame]
         /\ th'[t] = f
         /\ \A u \in Threads : u # t => th'[u] = th[u]
BY DEF Go

\* The reactor, the timer thread and the workers are different threads.
LEMMA ThreadsType ==
  /\ Reactor \in Threads /\ Timer \in Threads
  /\ \A w \in Workers : w \in Threads /\ w # Reactor /\ w # Timer
  /\ Reactor # Timer
  /\ None \notin Threads
BY ThreadsAssumption DEF Threads

\* The frame of a thread with nothing in hand is well-typed.
LEMMA IdleFrame == Idle \in Frame
BY DEF Idle, Frame, Pcs, Jobs

\* The fields of a frame have their types.
LEMMA FrameFields ==
  ASSUME NEW f \in Frame
  PROVE  /\ f.pc \in Pcs /\ f.job \in Jobs
         /\ f.obj \in Svcs \cup {None} /\ f.hnd \in Handles \cup {None}
         /\ f.adr \in Peers \cup {None}
         /\ f.key \in Keys \cup {None} /\ f.svr \in Servers \cup {None}
         /\ f.todo \in SUBSET Routes /\ f.want \in SUBSET Routes
         /\ f.hset \in SUBSET Handles /\ f.excess \in Nat
BY DEF Frame

\* A step of t that changes neither a table of servers or routes, nor which
\* handlers are alive, nor the lock of ProxyMgr, keeps the invariant if the
\* new frame of t satisfies it.
LEMMA QuietStep ==
  ASSUME IInv, NEW t \in Threads, NEW f \in Frame, Go(t, f),
         UNCHANGED <<sessionVars, m_mapProxy, fd, peer, proxyLock, phase, fault>>,
         m_mConn' \in [Handles -> Svcs \cup {None}],
         rmutex' \in Threads \cup {None}, readers' \subseteq Threads,
         ThreadOK(t, f), Adding(f) <=> Adding(th[t]),
         Adding(f) => f.svr = th[t].svr
  PROVE  IInv'
<1>1. /\ th' \in [Threads -> Frame]
      /\ th'[t] = f
      /\ \A u \in Threads : u # t => th'[u] = th[u]
  BY GoType DEF IInv, TypeOK
<1>2. TypeOK'
  BY <1>1 DEF IInv, TypeOK, SessionTypeOK, sessionVars
<1>3. ThreadsOK'
  <2> SUFFICES ASSUME NEW u \in Threads PROVE ThreadOK(u, th[u])'
    BY DEF ThreadsOK
  <2>1. ThreadOK(u, th'[u])
    BY <1>1 DEF IInv, ThreadsOK
  <2> QED
    BY <2>1 DEF ThreadOK, FrameOK, JobOK, FieldsOK, InProxy, RemoveOK, OpenOK,
                Adding, Removing, Live, sessionVars
<1>4. \A s \in Servers : BeingAdded(s)' <=> BeingAdded(s)
  BY <1>1 DEF BeingAdded, Adding
<1>5. RegisteredOK'
  BY <1>4 DEF IInv, RegisteredOK, Routed, sessionVars
<1>6. SessionsOK'
  BY DEF IInv, SessionsOK, sessionVars, Disjoint
<1> QED
  BY <1>2, <1>3, <1>5, <1>6 DEF IInv

\* Only the thread that holds the lock of ProxyMgr adds a server.
LEMMA OnlyHolderAdds ==
  ASSUME IInv, NEW u \in Threads, proxyLock # u
  PROVE  ~Adding(th[u])
BY DEF IInv, ThreadsOK, ThreadOK, InProxy, Adding, OpenPcs

----------------------------------------------------------------------------
(* Steps that only move a thread, or change m_mConn.                        *)

\* connectSvr returning false changes no table: the invariant is kept.
LEMMA ConnectFailStep ==
  ASSUME IInv, NEW t \in Threads, ConnectFail(t)
  PROVE  IInv'
<1> DEFINE f == AfterOpen(t)
<1>1. t \in Threads /\ th[t] \in Frame /\ ThreadOK(t, th[t])
  BY ThreadsType DEF IInv, TypeOK, ThreadsOK
<1>2. f \in Frame
  BY <1>1 DEF AfterOpen, Frame, Pcs, Jobs, Idle
<1>3. ThreadOK(t, f)
  BY <1>1, FrameFields, ThreadsType DEF ConnectFail, Move, At, Live, IInv, TypeOK,
         ThreadOK, FrameOK, JobOK, FieldsOK, InProxy, RemoveOK, OpenOK,
         Adding, Removing, OpenPcs, ClosePcs, Idle, Routes, AfterOpen, Idle
<1>4. (Adding(f) <=> Adding(th[t])) /\ (Adding(f) => f.svr = th[t].svr)
  BY <1>1 DEF ConnectFail, Move, At, Adding, Idle, OpenPcs, Frame, ThreadOK,
         FrameOK, JobOK, AfterOpen, Idle
<1> HIDE DEF f
<1>5. /\ Go(t, f)
      /\ UNCHANGED <<sessionVars, m_mapProxy, fd, peer, proxyLock, phase, fault>>
      /\ m_mConn' \in [Handles -> Svcs \cup {None}]
      /\ rmutex' \in Threads \cup {None} /\ readers' \subseteq Threads
  BY <1>1 DEF f, ConnectFail, Move, At, Live, connVars, lockVars, IInv, TypeOK,
         ThreadOK, FrameOK, FieldsOK, ClosePcs, AfterOpen, Idle
<1> QED
  BY <1>1, <1>2, <1>3, <1>4, <1>5, QuietStep

\* addConn registers a handle of a handler, which names a live one: kept.
LEMMA AddConnStep ==
  ASSUME IInv, NEW t \in Threads, AddConn(t)
  PROVE  IInv'
<1> DEFINE f == [th[t] EXCEPT !.pc = "addr", !.hnd = fd[th[t].obj]]
<1>1. t \in Threads /\ th[t] \in Frame /\ ThreadOK(t, th[t])
  BY ThreadsType DEF IInv, TypeOK, ThreadsOK
<1>2. f \in Frame
  <2>1. fd[th[t].obj] \in Handles
    BY <1>1 DEF AddConn, At, Live, IInv, TypeOK, ThreadOK, FrameOK,
           FieldsOK, ClosePcs
  <2> QED
    BY <1>1, <2>1 DEF Frame, Pcs, Jobs
<1>3. ThreadOK(t, f)
  BY <1>1, FrameFields, ThreadsType DEF AddConn, At, Live, IInv, TypeOK,
         ThreadOK, FrameOK, JobOK, FieldsOK, InProxy, RemoveOK, OpenOK,
         Adding, Removing, OpenPcs, ClosePcs, Idle, Routes
<1>4. (Adding(f) <=> Adding(th[t])) /\ (Adding(f) => f.svr = th[t].svr)
  BY <1>1 DEF AddConn, At, Adding, Idle, OpenPcs, Frame, ThreadOK, FrameOK,
         JobOK
<1> HIDE DEF f
<1>5. /\ Go(t, f)
      /\ UNCHANGED <<sessionVars, m_mapProxy, fd, peer, proxyLock, phase, fault>>
      /\ m_mConn' \in [Handles -> Svcs \cup {None}]
      /\ rmutex' \in Threads \cup {None} /\ readers' \subseteq Threads
  BY <1>1 DEF f, AddConn, At, Live, connVars, lockVars, IInv, TypeOK,
         ThreadOK, FrameOK, FieldsOK, ClosePcs
<1> QED
  BY <1>1, <1>2, <1>3, <1>4, <1>5, QuietStep

\* get_remote_addr reads the peer of a handler into the frame: kept.
LEMMA GetRemoteAddrStep ==
  ASSUME IInv, NEW t \in Threads, GetRemoteAddr(t)
  PROVE  IInv'
<1> DEFINE f == [th[t] EXCEPT !.pc = "addsvr", !.adr = peer[th[t].obj]]
<1>1. t \in Threads /\ th[t] \in Frame /\ ThreadOK(t, th[t])
  BY ThreadsType DEF IInv, TypeOK, ThreadsOK
<1>2. f \in Frame
  <2>1. peer[th[t].obj] \in Peers \cup {None}
    BY <1>1 DEF GetRemoteAddr, Move, At, Live, IInv, TypeOK, ThreadOK, FrameOK,
           FieldsOK, ClosePcs
  <2> QED
    BY <1>1, <2>1 DEF Frame, Pcs, Jobs
<1>3. ThreadOK(t, f)
  BY <1>1, FrameFields, ThreadsType DEF GetRemoteAddr, Move, At, Live, IInv,
         TypeOK, ThreadOK, FrameOK, JobOK, FieldsOK, InProxy, RemoveOK,
         OpenOK, Adding, Removing, OpenPcs, ClosePcs, Idle, Routes
<1>4. (Adding(f) <=> Adding(th[t])) /\ (Adding(f) => f.svr = th[t].svr)
  BY <1>1 DEF GetRemoteAddr, Move, At, Adding, Idle, OpenPcs, Frame, ThreadOK,
         FrameOK, JobOK
<1> HIDE DEF f
<1>5. /\ Go(t, f)
      /\ UNCHANGED <<sessionVars, m_mapProxy, fd, peer, proxyLock, phase, fault>>
      /\ m_mConn' \in [Handles -> Svcs \cup {None}]
      /\ rmutex' \in Threads \cup {None} /\ readers' \subseteq Threads
  BY <1>1 DEF f, GetRemoteAddr, Move, At, Live, connVars, lockVars, IInv, TypeOK,
         ThreadOK, FrameOK, FieldsOK, ClosePcs
<1> QED
  BY <1>1, <1>2, <1>3, <1>4, <1>5, QuietStep

\* The reactor entering handle_close of a registered handler: kept.
LEMMA HandleEventStep ==
  ASSUME IInv, NEW o \in Svcs, HandleEvent(o)
  PROVE  IInv'
<1> DEFINE f == [Idle EXCEPT !.pc = "closing", !.job = "event", !.obj = o]
<1>1. Reactor \in Threads /\ th[Reactor] \in Frame /\ ThreadOK(Reactor, th[Reactor])
  BY ThreadsType DEF IInv, TypeOK, ThreadsOK
<1>2. f \in Frame
  BY <1>1 DEF Frame, Pcs, Jobs, Idle
<1>3. ThreadOK(Reactor, f)
  BY <1>1, FrameFields, ThreadsType DEF HandleEvent, Move, At, Live, IInv, TypeOK,
         ThreadOK, FrameOK, JobOK, FieldsOK, InProxy, RemoveOK, OpenOK,
         Adding, Removing, OpenPcs, ClosePcs, Idle, Routes
<1>4. (Adding(f) <=> Adding(th[Reactor])) /\ (Adding(f) => f.svr = th[Reactor].svr)
  BY <1>1 DEF HandleEvent, Move, At, Adding, Idle, OpenPcs, Frame, ThreadOK,
         FrameOK, JobOK
<1> HIDE DEF f
<1>5. /\ Go(Reactor, f)
      /\ UNCHANGED <<sessionVars, m_mapProxy, fd, peer, proxyLock, phase, fault>>
      /\ m_mConn' \in [Handles -> Svcs \cup {None}]
      /\ rmutex' \in Threads \cup {None} /\ readers' \subseteq Threads
  BY <1>1 DEF f, HandleEvent, Move, At, Live, connVars, lockVars, IInv, TypeOK,
         ThreadOK, FrameOK, FieldsOK, ClosePcs
<1> QED
  BY <1>1, <1>2, <1>3, <1>4, <1>5, QuietStep

\* handle_close reading the handle and the peer of its handler: kept.
LEMMA HandleCloseStep ==
  ASSUME IInv, NEW t \in Threads, HandleClose(t)
  PROVE  IInv'
<1>0. PICK a \in Peers \cup {None} :
        Move(t, [th[t] EXCEPT !.pc = "rmconn", !.hnd = fd[th[t].obj], !.adr = a])
  BY DEF HandleClose
<1> DEFINE f == [th[t] EXCEPT !.pc = "rmconn", !.hnd = fd[th[t].obj], !.adr = a]
<1>1. t \in Threads /\ th[t] \in Frame /\ ThreadOK(t, th[t])
  BY ThreadsType DEF IInv, TypeOK, ThreadsOK
<1>2. f \in Frame
  <2>1. fd[th[t].obj] \in Handles
    BY <1>1 DEF HandleClose, Move, At, Live, IInv, TypeOK, ThreadOK, FrameOK,
           FieldsOK, ClosePcs
  <2> QED
    BY <1>1, <2>1 DEF Frame, Pcs, Jobs
<1>3. ThreadOK(t, f)
  BY <1>1, FrameFields, ThreadsType DEF HandleClose, Move, At, Live, IInv, TypeOK,
         ThreadOK, FrameOK, JobOK, FieldsOK, InProxy, RemoveOK, OpenOK,
         Adding, Removing, OpenPcs, ClosePcs, Idle, Routes
<1>4. (Adding(f) <=> Adding(th[t])) /\ (Adding(f) => f.svr = th[t].svr)
  BY <1>1 DEF HandleClose, Move, At, Adding, Idle, OpenPcs, Frame, ThreadOK,
         FrameOK, JobOK
<1> HIDE DEF f
<1>5. /\ Go(t, f)
      /\ UNCHANGED <<sessionVars, m_mapProxy, fd, peer, proxyLock, phase, fault>>
      /\ m_mConn' \in [Handles -> Svcs \cup {None}]
      /\ rmutex' \in Threads \cup {None} /\ readers' \subseteq Threads
  BY <1>0 DEF f, Move, connVars, lockVars, IInv, TypeOK,
         ThreadOK, FrameOK, FieldsOK, ClosePcs
<1> QED
  BY <1>1, <1>2, <1>3, <1>4, <1>5, QuietStep

\* rmConn takes a handle out of the connection table: kept.
LEMMA RmConnStep ==
  ASSUME IInv, NEW t \in Threads, RmConn(t)
  PROVE  IInv'
<1> DEFINE f == [th[t] EXCEPT !.pc = "rmsvrconn"]
<1>1. t \in Threads /\ th[t] \in Frame /\ ThreadOK(t, th[t])
  BY ThreadsType DEF IInv, TypeOK, ThreadsOK
<1>2. f \in Frame
  BY <1>1 DEF Frame, Pcs, Jobs
<1>3. ThreadOK(t, f)
  BY <1>1, FrameFields, ThreadsType DEF RmConn, At, Live, IInv, TypeOK,
         ThreadOK, FrameOK, JobOK, FieldsOK, InProxy, RemoveOK, OpenOK,
         Adding, Removing, OpenPcs, ClosePcs, Idle, Routes
<1>4. (Adding(f) <=> Adding(th[t])) /\ (Adding(f) => f.svr = th[t].svr)
  BY <1>1 DEF RmConn, At, Adding, Idle, OpenPcs, Frame, ThreadOK, FrameOK,
         JobOK
<1> HIDE DEF f
<1>5. /\ Go(t, f)
      /\ UNCHANGED <<sessionVars, m_mapProxy, fd, peer, proxyLock, phase, fault>>
      /\ m_mConn' \in [Handles -> Svcs \cup {None}]
      /\ rmutex' \in Threads \cup {None} /\ readers' \subseteq Threads
  BY <1>1 DEF f, RmConn, At, Live, connVars, lockVars, IInv, TypeOK,
         ThreadOK, FrameOK, FieldsOK, ClosePcs
<1> QED
  BY <1>1, <1>2, <1>3, <1>4, <1>5, QuietStep

\* closeConns closing one more handle of the set it copied: kept.
LEMMA CloseHandleStep ==
  ASSUME IInv, NEW t \in Threads, NEW h \in Handles, CloseHandle(t, h)
  PROVE  IInv'
<1> DEFINE f == IF m_mConn[h] = None THEN [th[t] EXCEPT !.hset = @ \ {h}]
             ELSE [th[t] EXCEPT !.pc = "closing", !.obj = m_mConn[h],
                                !.hset = @ \ {h}]
<1>1. t \in Threads /\ th[t] \in Frame /\ ThreadOK(t, th[t])
  BY ThreadsType DEF IInv, TypeOK, ThreadsOK
<1>2. f \in Frame
  <2>1. m_mConn[h] \in Svcs \cup {None}
    BY <1>1 DEF CloseHandle, IInv, TypeOK
  <2> QED
    BY <1>1, <2>1 DEF Frame, Pcs, Jobs
<1>3. ThreadOK(t, f)
  BY <1>1, FrameFields, ThreadsType DEF CloseHandle, At, Live, IInv, TypeOK,
         ThreadOK, FrameOK, JobOK, FieldsOK, InProxy, RemoveOK, OpenOK,
         Adding, Removing, OpenPcs, ClosePcs, Idle, Routes
<1>4. (Adding(f) <=> Adding(th[t])) /\ (Adding(f) => f.svr = th[t].svr)
  BY <1>1 DEF CloseHandle, At, Adding, Idle, OpenPcs, Frame, ThreadOK,
         FrameOK, JobOK
<1> HIDE DEF f
<1>5. /\ Go(t, f)
      /\ UNCHANGED <<sessionVars, m_mapProxy, fd, peer, proxyLock, phase, fault>>
      /\ m_mConn' \in [Handles -> Svcs \cup {None}]
      /\ rmutex' \in Threads \cup {None} /\ readers' \subseteq Threads
  BY <1>1 DEF f, CloseHandle, At, Live, connVars, lockVars, IInv, TypeOK,
         ThreadOK, FrameOK, FieldsOK, ClosePcs
<1> QED
  BY <1>1, <1>2, <1>3, <1>4, <1>5, QuietStep

\* A worker starting an update of the routes: only its frame changes.
LEMMA UpdateRouterStep ==
  ASSUME IInv, NEW w \in Workers, NEW m \in RouterMaps, UpdateRouter(w, m)
  PROVE  IInv'
<1> DEFINE f == [Idle EXCEPT !.pc = "add", !.job = "update", !.todo = m, !.want = m]
<1>1. w \in Threads /\ th[w] \in Frame /\ ThreadOK(w, th[w])
  BY ThreadsType DEF IInv, TypeOK, ThreadsOK
<1>2. f \in Frame
  <2>1. m \in SUBSET Routes
    BY <1>1, InputsAssumption
  <2> QED
    BY <1>1, <2>1 DEF Frame, Pcs, Jobs, Idle
<1>3. ThreadOK(w, f)
  BY <1>1, InputsAssumption, FrameFields, ThreadsType DEF UpdateRouter, Move, At,
         Live, IInv, TypeOK, ThreadOK, FrameOK, JobOK, FieldsOK, InProxy,
         RemoveOK, OpenOK, Adding, Removing, OpenPcs, ClosePcs, Idle, Routes
<1>4. (Adding(f) <=> Adding(th[w])) /\ (Adding(f) => f.svr = th[w].svr)
  BY <1>1 DEF UpdateRouter, Move, At, Adding, Idle, OpenPcs, Frame, ThreadOK,
         FrameOK, JobOK
<1> HIDE DEF f
<1>5. /\ Go(w, f)
      /\ UNCHANGED <<sessionVars, m_mapProxy, fd, peer, proxyLock, phase, fault>>
      /\ m_mConn' \in [Handles -> Svcs \cup {None}]
      /\ rmutex' \in Threads \cup {None} /\ readers' \subseteq Threads
  BY <1>1 DEF f, UpdateRouter, Move, At, Live, connVars, lockVars, IInv, TypeOK,
         ThreadOK, FrameOK, FieldsOK, ClosePcs
<1> QED
  BY <1>1, <1>2, <1>3, <1>4, <1>5, QuietStep

\* addSvr refusing a server that has a route: the frame skips it, no table changes.
LEMMA RefuseSvrStep ==
  ASSUME IInv, NEW t \in Threads, NEW r \in Routes, RefuseSvr(t, r)
  PROVE  IInv'
<1> DEFINE f == [th[t] EXCEPT !.todo = @ \ {r}]
<1>1. t \in Threads /\ th[t] \in Frame /\ ThreadOK(t, th[t])
  BY ThreadsType DEF IInv, TypeOK, ThreadsOK
<1>2. f \in Frame
  BY <1>1 DEF Frame, Pcs, Jobs
<1>3. ThreadOK(t, f)
  BY <1>1, FrameFields, ThreadsType DEF RefuseSvr, Move, At, Live, IInv, TypeOK,
         ThreadOK, FrameOK, JobOK, FieldsOK, InProxy, RemoveOK, OpenOK,
         Adding, Removing, OpenPcs, ClosePcs, Idle, Routes
<1>4. (Adding(f) <=> Adding(th[t])) /\ (Adding(f) => f.svr = th[t].svr)
  BY <1>1 DEF RefuseSvr, Move, At, Adding, Idle, OpenPcs, Frame, ThreadOK,
         FrameOK, JobOK
<1> HIDE DEF f
<1>5. /\ Go(t, f)
      /\ UNCHANGED <<sessionVars, m_mapProxy, fd, peer, proxyLock, phase, fault>>
      /\ m_mConn' \in [Handles -> Svcs \cup {None}]
      /\ rmutex' \in Threads \cup {None} /\ readers' \subseteq Threads
  BY <1>1 DEF f, RefuseSvr, Move, At, Live, connVars, lockVars, IInv, TypeOK,
         ThreadOK, FrameOK, FieldsOK, ClosePcs
<1> QED
  BY <1>1, <1>2, <1>3, <1>4, <1>5, QuietStep

\* The start of the removal of a route: only the frame changes.
LEMMA CloseSvrStep ==
  ASSUME IInv, NEW t \in Threads, NEW r \in Routes, CloseSvr(t, r)
  PROVE  IInv'
<1> DEFINE f == [th[t] EXCEPT !.pc = "closesvr", !.key = r[1], !.svr = r[2],
                            !.todo = @ \ {r}, !.hset = sessions[r[2]]]
<1>1. t \in Threads /\ th[t] \in Frame /\ ThreadOK(t, th[t])
  BY ThreadsType DEF IInv, TypeOK, ThreadsOK
<1>2. f \in Frame
  <2>1. r[1] \in Keys /\ r[2] \in Servers /\ sessions[r[2]] \in SUBSET Handles
    BY <1>1 DEF CloseSvr, Move, IInv, TypeOK, SessionTypeOK, Routes
  <2> QED
    BY <1>1, <2>1 DEF Frame, Pcs, Jobs
<1>3. ThreadOK(t, f)
  BY <1>1, FrameFields, ThreadsType DEF CloseSvr, Move, At, Live, IInv, TypeOK,
         ThreadOK, FrameOK, JobOK, FieldsOK, InProxy, RemoveOK, OpenOK,
         Adding, Removing, OpenPcs, ClosePcs, Idle, Routes
<1>4. (Adding(f) <=> Adding(th[t])) /\ (Adding(f) => f.svr = th[t].svr)
  BY <1>1 DEF CloseSvr, Move, At, Adding, Idle, OpenPcs, Frame, ThreadOK, FrameOK,
         JobOK
<1> HIDE DEF f
<1>5. /\ Go(t, f)
      /\ UNCHANGED <<sessionVars, m_mapProxy, fd, peer, proxyLock, phase, fault>>
      /\ m_mConn' \in [Handles -> Svcs \cup {None}]
      /\ rmutex' \in Threads \cup {None} /\ readers' \subseteq Threads
  BY <1>1 DEF f, CloseSvr, Move, At, Live, connVars, lockVars, IInv, TypeOK,
         ThreadOK, FrameOK, FieldsOK, ClosePcs
<1> QED
  BY <1>1, <1>2, <1>3, <1>4, <1>5, QuietStep

\* The rebuild of one route choosing to connect, to trim or to pass: kept.
LEMMA ReBuildSvrStep ==
  ASSUME IInv, NEW r \in Routes, ReBuildSvr(r)
  PROVE  IInv'
<1> DEFINE b == [th[Timer] EXCEPT !.todo = @ \ {r}]
           g == [b EXCEPT !.key = r[1], !.svr = r[2]]
           n == getHandleNum(r[2])
           c == [g EXCEPT !.pc = "connect"]
           d == [g EXCEPT !.pc = "trim", !.excess = n - KeepConns]
<1>1. Timer \in Threads /\ th[Timer] \in Frame /\ ThreadOK(Timer, th[Timer])
  BY ThreadsType DEF IInv, TypeOK, ThreadsOK
<1>2. /\ r[1] \in Keys /\ r[2] \in Servers
      /\ n = 0 => sessions[r[2]] = {}
      /\ n > KeepConns => n - KeepConns \in Nat
  <2>1. r[1] \in Keys /\ r[2] \in Servers /\ sessions[r[2]] \subseteq Handles
    BY DEF Routes, IInv, TypeOK, SessionTypeOK
  <2>2. IsFiniteSet(sessions[r[2]])
    BY <2>1, HandlesAssumption, FS_Subset
  <2>3. /\ Cardinality(sessions[r[2]]) \in Nat
        /\ Cardinality(sessions[r[2]]) = 0 => sessions[r[2]] = {}
    BY <2>2, FS_CardinalityType, FS_EmptySet
  <2> QED
    BY <2>1, <2>3, InputsAssumption DEF getHandleNum
<1>3. b \in Frame
  BY <1>1 DEF Frame
<1>4. g \in Frame
  BY <1>2, <1>3 DEF Frame
<1>5. c \in Frame
  BY <1>4 DEF Frame, Pcs
<1>6. ASSUME n > KeepConns PROVE d \in Frame
  BY <1>2, <1>4, <1>6 DEF Frame, Pcs
<1>7. th[Timer].job = "rebuild" /\ proxyLock = Timer
  BY <1>1 DEF ReBuildSvr, Move, At, ThreadOK, FrameOK, JobOK, InProxy
<1>8. \A f \in Frame :
        /\ f.job = "rebuild" /\ f.pc \in {"rebuild", "trim", "connect"}
        /\ f.pc \in {"trim", "connect"} => f.svr \in Servers
        /\ f.pc = "connect" => sessions[f.svr] = {}
        => ThreadOK(Timer, f)
  BY <1>7 DEF ThreadOK, FrameOK, JobOK, FieldsOK, InProxy, RemoveOK, OpenOK,
             Adding, Removing, OpenPcs, ClosePcs
<1>9. /\ b.job = "rebuild" /\ b.pc = "rebuild"
      /\ c.job = "rebuild" /\ c.pc = "connect" /\ c.svr = r[2]
      /\ d.job = "rebuild" /\ d.pc = "trim" /\ d.svr = r[2]
  BY <1>1, <1>7 DEF ReBuildSvr, Move, At, Frame
<1>10. ~Adding(th[Timer]) /\ ~Adding(b) /\ ~Adding(c) /\ ~Adding(d)
  BY <1>7, <1>9 DEF Adding
<1>11. /\ UNCHANGED <<sessionVars, m_mapProxy, fd, peer, proxyLock, phase, fault>>
       /\ m_mConn' \in [Handles -> Svcs \cup {None}]
       /\ rmutex' \in Threads \cup {None} /\ readers' \subseteq Threads
  BY DEF ReBuildSvr, Move, connVars, lockVars, IInv, TypeOK
<1>12. CASE n = 0
  <2>1. Go(Timer, c)
    BY <1>12, InputsAssumption DEF ReBuildSvr, Move
  <2>2. ThreadOK(Timer, c)
    BY <1>2, <1>5, <1>8, <1>9, <1>12
  <2> HIDE DEF c
  <2> QED
    BY <1>1, <1>5, <1>10, <1>11, <2>1, <2>2, QuietStep
<1>13. CASE n # 0 /\ n > KeepConns
  <2>1. Go(Timer, d)
    BY <1>13 DEF ReBuildSvr, Move
  <2>2. d \in Frame /\ ThreadOK(Timer, d)
    BY <1>2, <1>6, <1>8, <1>9, <1>13
  <2> HIDE DEF d
  <2> QED
    BY <1>1, <1>10, <1>11, <2>1, <2>2, QuietStep
<1>14. CASE n # 0 /\ ~(n > KeepConns)
  <2>1. Go(Timer, b)
    BY <1>14 DEF ReBuildSvr, Move
  <2>2. ThreadOK(Timer, b)
    BY <1>3, <1>8, <1>9
  <2> HIDE DEF b
  <2> QED
    BY <1>1, <1>3, <1>10, <1>11, <2>1, <2>2, QuietStep
<1> QED
  BY <1>12, <1>13, <1>14

\* The trim choosing a session to close: kept.
LEMMA TrimPickStep ==
  ASSUME IInv, NEW h \in Handles, TrimPick(h)
  PROVE  IInv'
<1> DEFINE f == [th[Timer] EXCEPT !.pc = "trimrm", !.hnd = h]
<1>1. Timer \in Threads /\ th[Timer] \in Frame /\ ThreadOK(Timer, th[Timer])
  BY ThreadsType DEF IInv, TypeOK, ThreadsOK
<1>2. f \in Frame
  BY <1>1 DEF Frame, Pcs, Jobs
<1>3. ThreadOK(Timer, f)
  BY <1>1, FrameFields, ThreadsType DEF TrimPick, Move, At, Live, IInv, TypeOK,
         ThreadOK, FrameOK, JobOK, FieldsOK, InProxy, RemoveOK, OpenOK,
         Adding, Removing, OpenPcs, ClosePcs, Idle, Routes
<1>4. (Adding(f) <=> Adding(th[Timer])) /\ (Adding(f) => f.svr = th[Timer].svr)
  BY <1>1 DEF TrimPick, Move, At, Adding, Idle, OpenPcs, Frame, ThreadOK, FrameOK,
         JobOK
<1> HIDE DEF f
<1>5. /\ Go(Timer, f)
      /\ UNCHANGED <<sessionVars, m_mapProxy, fd, peer, proxyLock, phase, fault>>
      /\ m_mConn' \in [Handles -> Svcs \cup {None}]
      /\ rmutex' \in Threads \cup {None} /\ readers' \subseteq Threads
  BY <1>1 DEF f, TrimPick, Move, At, Live, connVars, lockVars, IInv, TypeOK,
         ThreadOK, FrameOK, FieldsOK, ClosePcs
<1> QED
  BY <1>1, <1>2, <1>3, <1>4, <1>5, QuietStep

\* The trim finding no session left in the table: only the frame changes.
LEMMA TrimSkipStep ==
  ASSUME IInv, TrimSkip
  PROVE  IInv'
<1> DEFINE f == [th[Timer] EXCEPT !.excess = @ - 1]
<1>1. Timer \in Threads /\ th[Timer] \in Frame /\ ThreadOK(Timer, th[Timer])
  BY ThreadsType DEF IInv, TypeOK, ThreadsOK
<1>2. f \in Frame
  <2>1. th[Timer].excess - 1 \in Nat
    BY <1>1 DEF TrimSkip, Move, At, Frame
  <2> QED
    BY <1>1, <2>1 DEF Frame, Pcs, Jobs
<1>3. ThreadOK(Timer, f)
  BY <1>1, FrameFields, ThreadsType DEF TrimSkip, Move, At, Live, IInv, TypeOK,
         ThreadOK, FrameOK, JobOK, FieldsOK, InProxy, RemoveOK, OpenOK,
         Adding, Removing, OpenPcs, ClosePcs, Idle, Routes
<1>4. (Adding(f) <=> Adding(th[Timer])) /\ (Adding(f) => f.svr = th[Timer].svr)
  BY <1>1 DEF TrimSkip, Move, At, Adding, Idle, OpenPcs, Frame, ThreadOK, FrameOK,
         JobOK
<1> HIDE DEF f
<1>5. /\ Go(Timer, f)
      /\ UNCHANGED <<sessionVars, m_mapProxy, fd, peer, proxyLock, phase, fault>>
      /\ m_mConn' \in [Handles -> Svcs \cup {None}]
      /\ rmutex' \in Threads \cup {None} /\ readers' \subseteq Threads
  BY <1>1 DEF f, TrimSkip, Move, At, Live, connVars, lockVars, IInv, TypeOK,
         ThreadOK, FrameOK, FieldsOK, ClosePcs
<1> QED
  BY <1>1, <1>2, <1>3, <1>4, <1>5, QuietStep

\* The end of the trim of a server's sessions: kept.
LEMMA TrimEndStep ==
  ASSUME IInv, TrimEnd
  PROVE  IInv'
<1> DEFINE f == [th[Timer] EXCEPT !.pc = "rebuild", !.key = None, !.svr = None]
<1>1. Timer \in Threads /\ th[Timer] \in Frame /\ ThreadOK(Timer, th[Timer])
  BY ThreadsType DEF IInv, TypeOK, ThreadsOK
<1>2. f \in Frame
  BY <1>1 DEF Frame, Pcs, Jobs
<1>3. ThreadOK(Timer, f)
  BY <1>1, FrameFields, ThreadsType DEF TrimEnd, Move, At, Live, IInv, TypeOK,
         ThreadOK, FrameOK, JobOK, FieldsOK, InProxy, RemoveOK, OpenOK,
         Adding, Removing, OpenPcs, ClosePcs, Idle, Routes
<1>4. (Adding(f) <=> Adding(th[Timer])) /\ (Adding(f) => f.svr = th[Timer].svr)
  BY <1>1 DEF TrimEnd, Move, At, Adding, Idle, OpenPcs, Frame, ThreadOK, FrameOK,
         JobOK
<1> HIDE DEF f
<1>5. /\ Go(Timer, f)
      /\ UNCHANGED <<sessionVars, m_mapProxy, fd, peer, proxyLock, phase, fault>>
      /\ m_mConn' \in [Handles -> Svcs \cup {None}]
      /\ rmutex' \in Threads \cup {None} /\ readers' \subseteq Threads
  BY <1>1 DEF f, TrimEnd, Move, At, Live, connVars, lockVars, IInv, TypeOK,
         ThreadOK, FrameOK, FieldsOK, ClosePcs
<1> QED
  BY <1>1, <1>2, <1>3, <1>4, <1>5, QuietStep

\* The rebuild timer expiring: only the timer thread's frame changes.
LEMMA ExpireStep ==
  ASSUME IInv, Expire
  PROVE  IInv'
<1> DEFINE f == [Idle EXCEPT !.pc = "due", !.job = "rebuild"]
<1>1. Timer \in Threads /\ th[Timer] \in Frame /\ ThreadOK(Timer, th[Timer])
  BY ThreadsType DEF IInv, TypeOK, ThreadsOK
<1>2. f \in Frame
  BY <1>1 DEF Frame, Pcs, Jobs, Idle
<1>3. ThreadOK(Timer, f)
  BY <1>1, FrameFields, ThreadsType DEF Expire, Move, At, Live, IInv, TypeOK,
         ThreadOK, FrameOK, JobOK, FieldsOK, InProxy, RemoveOK, OpenOK,
         Adding, Removing, OpenPcs, ClosePcs, Idle, Routes
<1>4. (Adding(f) <=> Adding(th[Timer])) /\ (Adding(f) => f.svr = th[Timer].svr)
  BY <1>1 DEF Expire, Move, At, Adding, Idle, OpenPcs, Frame, ThreadOK, FrameOK,
         JobOK
<1> HIDE DEF f
<1>5. /\ Go(Timer, f)
      /\ UNCHANGED <<sessionVars, m_mapProxy, fd, peer, proxyLock, phase, fault>>
      /\ m_mConn' \in [Handles -> Svcs \cup {None}]
      /\ rmutex' \in Threads \cup {None} /\ readers' \subseteq Threads
  BY <1>1 DEF f, Expire, Move, At, Live, connVars, lockVars, IInv, TypeOK,
         ThreadOK, FrameOK, FieldsOK, ClosePcs
<1> QED
  BY <1>1, <1>2, <1>3, <1>4, <1>5, QuietStep

\* A dispatch by key entering the router: only its frame changes.
LEMMA OnDispatchStep ==
  ASSUME IInv, NEW w \in Workers, NEW k \in DispatchKeys, OnDispatch(w, k)
  PROVE  IInv'
<1> DEFINE f == [Idle EXCEPT !.pc = "route", !.job = "dispatch", !.key = k]
<1>1. w \in Threads /\ th[w] \in Frame /\ ThreadOK(w, th[w])
  BY ThreadsType DEF IInv, TypeOK, ThreadsOK
<1>2. f \in Frame
  <2>1. k \in Keys
    BY <1>1, InputsAssumption
  <2> QED
    BY <1>1, <2>1 DEF Frame, Pcs, Jobs, Idle
<1>3. ThreadOK(w, f)
  BY <1>1, InputsAssumption, FrameFields, ThreadsType DEF OnDispatch, Move, At,
         Live, IInv, TypeOK, ThreadOK, FrameOK, JobOK, FieldsOK, InProxy,
         RemoveOK, OpenOK, Adding, Removing, OpenPcs, ClosePcs, Idle, Routes
<1>4. (Adding(f) <=> Adding(th[w])) /\ (Adding(f) => f.svr = th[w].svr)
  BY <1>1 DEF OnDispatch, Move, At, Adding, Idle, OpenPcs, Frame, ThreadOK,
         FrameOK, JobOK
<1> HIDE DEF f
<1>5. /\ Go(w, f)
      /\ UNCHANGED <<sessionVars, m_mapProxy, fd, peer, proxyLock, phase, fault>>
      /\ m_mConn' \in [Handles -> Svcs \cup {None}]
      /\ rmutex' \in Threads \cup {None} /\ readers' \subseteq Threads
  BY <1>1 DEF f, OnDispatch, Move, At, Live, connVars, lockVars, IInv, TypeOK,
         ThreadOK, FrameOK, FieldsOK, ClosePcs
<1> QED
  BY <1>1, <1>2, <1>3, <1>4, <1>5, QuietStep

\* A dispatch to a named server: only its frame changes.
LEMMA OnDispatchToStep ==
  ASSUME IInv, NEW w \in Workers, NEW s \in DispatchServers, OnDispatchTo(w, s)
  PROVE  IInv'
<1> DEFINE f == [Idle EXCEPT !.pc = "getconn", !.job = "dispatch", !.svr = s]
<1>1. w \in Threads /\ th[w] \in Frame /\ ThreadOK(w, th[w])
  BY ThreadsType DEF IInv, TypeOK, ThreadsOK
<1>2. f \in Frame
  <2>1. s \in Servers
    BY <1>1, InputsAssumption
  <2> QED
    BY <1>1, <2>1 DEF Frame, Pcs, Jobs, Idle
<1>3. ThreadOK(w, f)
  BY <1>1, InputsAssumption, FrameFields, ThreadsType DEF OnDispatchTo, Move, At,
         Live, IInv, TypeOK, ThreadOK, FrameOK, JobOK, FieldsOK, InProxy,
         RemoveOK, OpenOK, Adding, Removing, OpenPcs, ClosePcs, Idle, Routes
<1>4. (Adding(f) <=> Adding(th[w])) /\ (Adding(f) => f.svr = th[w].svr)
  BY <1>1 DEF OnDispatchTo, Move, At, Adding, Idle, OpenPcs, Frame, ThreadOK,
         FrameOK, JobOK
<1> HIDE DEF f
<1>5. /\ Go(w, f)
      /\ UNCHANGED <<sessionVars, m_mapProxy, fd, peer, proxyLock, phase, fault>>
      /\ m_mConn' \in [Handles -> Svcs \cup {None}]
      /\ rmutex' \in Threads \cup {None} /\ readers' \subseteq Threads
  BY <1>1 DEF f, OnDispatchTo, Move, At, Live, connVars, lockVars, IInv, TypeOK,
         ThreadOK, FrameOK, FieldsOK, ClosePcs
<1> QED
  BY <1>1, <1>2, <1>3, <1>4, <1>5, QuietStep

\* A reply on a handle: only its frame changes.
LEMMA OnResponseStep ==
  ASSUME IInv, NEW w \in Workers, NEW h \in ReplyHandles, OnResponse(w, h)
  PROVE  IInv'
<1> DEFINE f == [Idle EXCEPT !.pc = "exist", !.job = "reply", !.hnd = h]
<1>1. w \in Threads /\ th[w] \in Frame /\ ThreadOK(w, th[w])
  BY ThreadsType DEF IInv, TypeOK, ThreadsOK
<1>2. f \in Frame
  <2>1. h \in Handles
    BY <1>1, InputsAssumption
  <2> QED
    BY <1>1, <2>1 DEF Frame, Pcs, Jobs, Idle
<1>3. ThreadOK(w, f)
  BY <1>1, InputsAssumption, FrameFields, ThreadsType DEF OnResponse, Move, At,
         Live, IInv, TypeOK, ThreadOK, FrameOK, JobOK, FieldsOK, InProxy,
         RemoveOK, OpenOK, Adding, Removing, OpenPcs, ClosePcs, Idle, Routes
<1>4. (Adding(f) <=> Adding(th[w])) /\ (Adding(f) => f.svr = th[w].svr)
  BY <1>1 DEF OnResponse, Move, At, Adding, Idle, OpenPcs, Frame, ThreadOK,
         FrameOK, JobOK
<1> HIDE DEF f
<1>5. /\ Go(w, f)
      /\ UNCHANGED <<sessionVars, m_mapProxy, fd, peer, proxyLock, phase, fault>>
      /\ m_mConn' \in [Handles -> Svcs \cup {None}]
      /\ rmutex' \in Threads \cup {None} /\ readers' \subseteq Threads
  BY <1>1 DEF f, OnResponse, Move, At, Live, connVars, lockVars, IInv, TypeOK,
         ThreadOK, FrameOK, FieldsOK, ClosePcs
<1> QED
  BY <1>1, <1>2, <1>3, <1>4, <1>5, QuietStep

\* A dispatch that found a route, about to ask for a connection: only its
\* frame changes.
LEMMA GetSvrConnStep ==
  ASSUME IInv, NEW w \in Workers, NEW s \in Servers, GetSvrConn(w, s)
  PROVE  IInv'
<1> DEFINE f == [th[w] EXCEPT !.pc = "getconn", !.svr = s]
<1>1. w \in Threads /\ th[w] \in Frame /\ ThreadOK(w, th[w])
  BY ThreadsType DEF IInv, TypeOK, ThreadsOK
<1>2. f \in Frame
  BY <1>1 DEF Frame, Pcs, Jobs
<1>3. ThreadOK(w, f)
  BY <1>1, FrameFields, ThreadsType DEF GetSvrConn, Move, At, Live, IInv, TypeOK,
         ThreadOK, FrameOK, JobOK, FieldsOK, InProxy, RemoveOK, OpenOK,
         Adding, Removing, OpenPcs, ClosePcs, Idle, Routes
<1>4. (Adding(f) <=> Adding(th[w])) /\ (Adding(f) => f.svr = th[w].svr)
  BY <1>1 DEF GetSvrConn, Move, At, Adding, Idle, OpenPcs, Frame, ThreadOK,
         FrameOK, JobOK
<1> HIDE DEF f
<1>5. /\ Go(w, f)
      /\ UNCHANGED <<sessionVars, m_mapProxy, fd, peer, proxyLock, phase, fault>>
      /\ m_mConn' \in [Handles -> Svcs \cup {None}]
      /\ rmutex' \in Threads \cup {None} /\ readers' \subseteq Threads
  BY <1>1 DEF f, GetSvrConn, Move, At, Live, connVars, lockVars, IInv, TypeOK,
         ThreadOK, FrameOK, FieldsOK, ClosePcs
<1> QED
  BY <1>1, <1>2, <1>3, <1>4, <1>5, QuietStep

\* A dispatch that found no route returns: only its frame changes.
LEMMA NoRouteStep ==
  ASSUME IInv, NEW w \in Workers, NoRoute(w)
  PROVE  IInv'
<1> DEFINE f == Idle
<1>1. w \in Threads /\ th[w] \in Frame /\ ThreadOK(w, th[w])
  BY ThreadsType DEF IInv, TypeOK, ThreadsOK
<1>2. f \in Frame
  BY <1>1 DEF Frame, Pcs, Jobs, Idle
<1>3. ThreadOK(w, f)
  BY <1>1, FrameFields, ThreadsType DEF NoRoute, Move, At, Live, IInv, TypeOK,
         ThreadOK, FrameOK, JobOK, FieldsOK, InProxy, RemoveOK, OpenOK,
         Adding, Removing, OpenPcs, ClosePcs, Idle, Routes
<1>4. (Adding(f) <=> Adding(th[w])) /\ (Adding(f) => f.svr = th[w].svr)
  BY <1>1 DEF NoRoute, Move, At, Adding, Idle, OpenPcs, Frame, ThreadOK, FrameOK,
         JobOK
<1> HIDE DEF f
<1>5. /\ Go(w, f)
      /\ UNCHANGED <<sessionVars, m_mapProxy, fd, peer, proxyLock, phase, fault>>
      /\ m_mConn' \in [Handles -> Svcs \cup {None}]
      /\ rmutex' \in Threads \cup {None} /\ readers' \subseteq Threads
  BY <1>1 DEF f, NoRoute, Move, At, Live, connVars, lockVars, IInv, TypeOK,
         ThreadOK, FrameOK, FieldsOK, ClosePcs
<1> QED
  BY <1>1, <1>2, <1>3, <1>4, <1>5, QuietStep

\* A dispatch that was given a handle: only its frame changes.
LEMMA GetConnStep ==
  ASSUME IInv, NEW w \in Workers, NEW h \in Handles, GetConn(w, h)
  PROVE  IInv'
<1> DEFINE f == [th[w] EXCEPT !.pc = "exist", !.hnd = h]
<1>1. w \in Threads /\ th[w] \in Frame /\ ThreadOK(w, th[w])
  BY ThreadsType DEF IInv, TypeOK, ThreadsOK
<1>2. f \in Frame
  BY <1>1 DEF Frame, Pcs, Jobs
<1>3. ThreadOK(w, f)
  BY <1>1, FrameFields, ThreadsType DEF GetConn, Move, At, Live, IInv, TypeOK,
         ThreadOK, FrameOK, JobOK, FieldsOK, InProxy, RemoveOK, OpenOK,
         Adding, Removing, OpenPcs, ClosePcs, Idle, Routes
<1>4. (Adding(f) <=> Adding(th[w])) /\ (Adding(f) => f.svr = th[w].svr)
  BY <1>1 DEF GetConn, Move, At, Adding, Idle, OpenPcs, Frame, ThreadOK, FrameOK,
         JobOK
<1> HIDE DEF f
<1>5. /\ Go(w, f)
      /\ UNCHANGED <<sessionVars, m_mapProxy, fd, peer, proxyLock, phase, fault>>
      /\ m_mConn' \in [Handles -> Svcs \cup {None}]
      /\ rmutex' \in Threads \cup {None} /\ readers' \subseteq Threads
  BY <1>1 DEF f, GetConn, Move, At, Live, connVars, lockVars, IInv, TypeOK,
         ThreadOK, FrameOK, FieldsOK, ClosePcs
<1> QED
  BY <1>1, <1>2, <1>3, <1>4, <1>5, QuietStep

\* A dispatch that was given no handle returns: only its frame changes.
LEMMA NoConnStep ==
  ASSUME IInv, NEW w \in Workers, NoConn(w)
  PROVE  IInv'
<1> DEFINE f == Idle
<1>1. w \in Threads /\ th[w] \in Frame /\ ThreadOK(w, th[w])
  BY ThreadsType DEF IInv, TypeOK, ThreadsOK
<1>2. f \in Frame
  BY <1>1 DEF Frame, Pcs, Jobs, Idle
<1>3. ThreadOK(w, f)
  BY <1>1, FrameFields, ThreadsType DEF NoConn, Move, At, Live, IInv, TypeOK,
         ThreadOK, FrameOK, JobOK, FieldsOK, InProxy, RemoveOK, OpenOK,
         Adding, Removing, OpenPcs, ClosePcs, Idle, Routes
<1>4. (Adding(f) <=> Adding(th[w])) /\ (Adding(f) => f.svr = th[w].svr)
  BY <1>1 DEF NoConn, Move, At, Adding, Idle, OpenPcs, Frame, ThreadOK, FrameOK,
         JobOK
<1> HIDE DEF f
<1>5. /\ Go(w, f)
      /\ UNCHANGED <<sessionVars, m_mapProxy, fd, peer, proxyLock, phase, fault>>
      /\ m_mConn' \in [Handles -> Svcs \cup {None}]
      /\ rmutex' \in Threads \cup {None} /\ readers' \subseteq Threads
  BY <1>1 DEF f, NoConn, Move, At, Live, connVars, lockVars, IInv, TypeOK,
         ThreadOK, FrameOK, FieldsOK, ClosePcs
<1> QED
  BY <1>1, <1>2, <1>3, <1>4, <1>5, QuietStep

\* A sender asking whether its handle is registered: only its frame changes.
LEMMA IsExistStep ==
  ASSUME IInv, NEW w \in Workers, IsExist(w)
  PROVE  IInv'
<1> DEFINE f == IF m_mConn[th[w].hnd] = None THEN Idle
                 ELSE [th[w] EXCEPT !.pc = "write"]
<1>1. w \in Threads /\ th[w] \in Frame /\ ThreadOK(w, th[w])
  BY ThreadsType DEF IInv, TypeOK, ThreadsOK
<1>2. f \in Frame
  BY <1>1 DEF Frame, Pcs, Jobs, Idle
<1>3. ThreadOK(w, f)
  BY <1>1, FrameFields, ThreadsType DEF IsExist, Move, At, Live, IInv, TypeOK,
         ThreadOK, FrameOK, JobOK, FieldsOK, InProxy, RemoveOK, OpenOK,
         Adding, Removing, OpenPcs, ClosePcs, Idle, Routes
<1>4. (Adding(f) <=> Adding(th[w])) /\ (Adding(f) => f.svr = th[w].svr)
  BY <1>1 DEF IsExist, Move, At, Adding, Idle, OpenPcs, Frame, ThreadOK, FrameOK,
         JobOK
<1> HIDE DEF f
<1>5. /\ Go(w, f)
      /\ UNCHANGED <<sessionVars, m_mapProxy, fd, peer, proxyLock, phase, fault>>
      /\ m_mConn' \in [Handles -> Svcs \cup {None}]
      /\ rmutex' \in Threads \cup {None} /\ readers' \subseteq Threads
  BY <1>1 DEF f, IsExist, Move, At, Live, connVars, lockVars, IInv, TypeOK,
         ThreadOK, FrameOK, FieldsOK, ClosePcs
<1> QED
  BY <1>1, <1>2, <1>3, <1>4, <1>5, QuietStep

\* A sender whose handle is gone at the second look: only its frame changes.
LEMMA WriteGoneStep ==
  ASSUME IInv, NEW w \in Workers, WriteGone(w)
  PROVE  IInv'
<1> DEFINE f == Idle
<1>1. w \in Threads /\ th[w] \in Frame /\ ThreadOK(w, th[w])
  BY ThreadsType DEF IInv, TypeOK, ThreadsOK
<1>2. f \in Frame
  BY <1>1 DEF Frame, Pcs, Jobs, Idle
<1>3. ThreadOK(w, f)
  BY <1>1, FrameFields, ThreadsType DEF WriteGone, Move, At, Live, IInv, TypeOK,
         ThreadOK, FrameOK, JobOK, FieldsOK, InProxy, RemoveOK, OpenOK,
         Adding, Removing, OpenPcs, ClosePcs, Idle, Routes
<1>4. (Adding(f) <=> Adding(th[w])) /\ (Adding(f) => f.svr = th[w].svr)
  BY <1>1 DEF WriteGone, Move, At, Adding, Idle, OpenPcs, Frame, ThreadOK,
         FrameOK, JobOK
<1> HIDE DEF f
<1>5. /\ Go(w, f)
      /\ UNCHANGED <<sessionVars, m_mapProxy, fd, peer, proxyLock, phase, fault>>
      /\ m_mConn' \in [Handles -> Svcs \cup {None}]
      /\ rmutex' \in Threads \cup {None} /\ readers' \subseteq Threads
  BY <1>1 DEF f, WriteGone, Move, At, Live, connVars, lockVars, IInv, TypeOK,
         ThreadOK, FrameOK, FieldsOK, ClosePcs
<1> QED
  BY <1>1, <1>2, <1>3, <1>4, <1>5, QuietStep

\* A sender taking the handler of its handle: only its frame changes.
LEMMA WriteStep ==
  ASSUME IInv, NEW w \in Workers, Write(w)
  PROVE  IInv'
<1> DEFINE f == [th[w] EXCEPT !.pc = "send", !.obj = m_mConn[th[w].hnd]]
<1>1. w \in Threads /\ th[w] \in Frame /\ ThreadOK(w, th[w])
  BY ThreadsType DEF IInv, TypeOK, ThreadsOK
<1>2. f \in Frame
  <2>1. m_mConn[th[w].hnd] \in Svcs
    BY <1>1 DEF Write, At, IInv, TypeOK, ThreadOK, FrameOK, FieldsOK, ClosePcs
  <2> QED
    BY <1>1, <2>1 DEF Frame, Pcs, Jobs
<1>3. ThreadOK(w, f)
  BY <1>1, FrameFields, ThreadsType DEF Write, At, Live, IInv, TypeOK,
         ThreadOK, FrameOK, JobOK, FieldsOK, InProxy, RemoveOK, OpenOK,
         Adding, Removing, OpenPcs, ClosePcs, Idle, Routes
<1>4. (Adding(f) <=> Adding(th[w])) /\ (Adding(f) => f.svr = th[w].svr)
  BY <1>1 DEF Write, At, Adding, Idle, OpenPcs, Frame, ThreadOK, FrameOK,
         JobOK
<1> HIDE DEF f
<1>5. /\ Go(w, f)
      /\ UNCHANGED <<sessionVars, m_mapProxy, fd, peer, proxyLock, phase, fault>>
      /\ m_mConn' \in [Handles -> Svcs \cup {None}]
      /\ rmutex' \in Threads \cup {None} /\ readers' \subseteq Threads
  BY <1>1 DEF f, Write, At, Live, connVars, lockVars, IInv, TypeOK,
         ThreadOK, FrameOK, FieldsOK, ClosePcs
<1> QED
  BY <1>1, <1>2, <1>3, <1>4, <1>5, QuietStep

\* A sender done with its handler: only its frame changes.
LEMMA SvcWriteStep ==
  ASSUME IInv, NEW w \in Workers, SvcWrite(w)
  PROVE  IInv'
<1> DEFINE f == Idle
<1>1. w \in Threads /\ th[w] \in Frame /\ ThreadOK(w, th[w])
  BY ThreadsType DEF IInv, TypeOK, ThreadsOK
<1>2. f \in Frame
  BY <1>1 DEF Frame, Pcs, Jobs, Idle
<1>3. ThreadOK(w, f)
  BY <1>1, FrameFields, ThreadsType DEF SvcWrite, At, Live, IInv, TypeOK,
         ThreadOK, FrameOK, JobOK, FieldsOK, InProxy, RemoveOK, OpenOK,
         Adding, Removing, OpenPcs, ClosePcs, Idle, Routes
<1>4. (Adding(f) <=> Adding(th[w])) /\ (Adding(f) => f.svr = th[w].svr)
  BY <1>1 DEF SvcWrite, At, Adding, Idle, OpenPcs, Frame, ThreadOK, FrameOK,
         JobOK
<1> HIDE DEF f
<1>5. /\ Go(w, f)
      /\ UNCHANGED <<sessionVars, m_mapProxy, fd, peer, proxyLock, phase, fault>>
      /\ m_mConn' \in [Handles -> Svcs \cup {None}]
      /\ rmutex' \in Threads \cup {None} /\ readers' \subseteq Threads
  BY <1>1 DEF f, SvcWrite, At, Live, connVars, lockVars, IInv, TypeOK,
         ThreadOK, FrameOK, FieldsOK, ClosePcs
<1> QED
  BY <1>1, <1>2, <1>3, <1>4, <1>5, QuietStep

----------------------------------------------------------------------------
(* Steps that change the tables, the handlers alive, the lock or the phase. *)

\* A connection made: a new handler with an open descriptor: kept.
LEMMA ConnectStep ==
  ASSUME IInv, NEW t \in Threads, NEW o \in Svcs, NEW h \in Handles, Connect(t, o, h)
  PROVE  IInv'
<1> DEFINE f == [th[t] EXCEPT !.pc = "open", !.obj = o]
<1>1. t \in Threads /\ th[t] \in Frame /\ ThreadOK(t, th[t])
  BY ThreadsType DEF IInv, TypeOK, ThreadsOK
<1>2. f \in Frame
  BY <1>1 DEF Frame, Pcs, Jobs
<1>3. /\ th' \in [Threads -> Frame]
      /\ th'[t] = f
      /\ \A u \in Threads : u # t => th'[u] = th[u]
  <2> HIDE DEF f
  <2>1. Go(t, f)
    BY DEF f, Connect
  <2> QED
    BY <1>1, <1>2, <2>1, GoType DEF IInv, TypeOK
<1>4. TypeOK'
  BY <1>1, <1>3, ThreadsType DEF Connect, At, NewSvc, Fresh, Live,
         sessionVars, connVars, lockVars, IInv, TypeOK, SessionTypeOK,
         ThreadOK, FrameOK, FieldsOK, JobOK, Routes, Peers, Adding,
         Removing, OpenPcs, ClosePcs
<1>5. ThreadOK(t, th[t])'
  BY <1>1, <1>3, FrameFields, ThreadsType DEF Connect, At, NewSvc, Fresh,
         Live, sessionVars, connVars, lockVars, IInv, TypeOK, SessionTypeOK,
         ThreadOK, FrameOK, JobOK, FieldsOK, InProxy, RemoveOK, OpenOK,
         Disjoint, Adding, Removing, OpenPcs, ClosePcs, Live, Routes,
         SessionsOK, RegisteredOK
<1>6. ASSUME NEW u \in Threads, u # t PROVE ThreadOK(u, th[u])'
  <2>1. th'[u] = th[u] /\ th[u] \in Frame /\ ThreadOK(u, th[u])
    BY <1>3, <1>6 DEF IInv, TypeOK, ThreadsOK
  <2> QED
    BY <1>1, <1>6, <2>1, FrameFields, ThreadsType DEF Connect, At, NewSvc,
           Fresh, Live, sessionVars, connVars, lockVars, IInv, TypeOK,
           SessionTypeOK, ThreadOK, FrameOK, JobOK, FieldsOK, InProxy,
           RemoveOK, OpenOK, Disjoint, Adding, Removing, OpenPcs, ClosePcs,
           Live, SessionsOK
<1>7. ThreadsOK'
  BY <1>5, <1>6 DEF ThreadsOK
<1>8. RegisteredOK'
  <2>1. /\ Adding(th'[t]) <=> Adding(th[t])
        /\ Adding(th[t]) => th'[t].svr = th[t].svr
    BY <1>1, <1>3 DEF Connect, At, NewSvc, Fresh, Live, Adding, ThreadOK,
           FrameOK, JobOK, OpenPcs, Frame
  <2>2. \A s \in Servers : BeingAdded(s)' <=> BeingAdded(s)
    <3> HIDE DEF f
    <3>1. \A u \in Threads : /\ Adding(th'[u]) <=> Adding(th[u])
                             /\ Adding(th[u]) => th'[u].svr = th[u].svr
      BY <1>3, <2>1
    <3> QED
      BY <3>1 DEF BeingAdded, Adding
  <2> QED
    BY <1>1, <2>2 DEF Connect, At, NewSvc, Fresh, Live, sessionVars,
           connVars, lockVars, IInv, RegisteredOK, Routed
<1>9. SessionsOK'
  BY <1>1, <1>3 DEF Connect, At, NewSvc, Fresh, Live, sessionVars, connVars,
         lockVars, IInv, TypeOK, SessionTypeOK, SessionsOK, ThreadOK,
         OpenOK, Disjoint, FrameOK, JobOK, FieldsOK, OpenPcs
<1> QED
  BY <1>4, <1>7, <1>8, <1>9 DEF IInv

\* A connection accepted by the reactor: a new handler: kept.
LEMMA AcceptStep ==
  ASSUME IInv, NEW o \in Svcs, NEW h \in Handles, NEW c \in Clients, Accept(o, h, c)
  PROVE  IInv'
<1> DEFINE f == [Idle EXCEPT !.pc = "open", !.job = "accept", !.obj = o]
<1>1. Reactor \in Threads /\ th[Reactor] \in Frame /\ ThreadOK(Reactor, th[Reactor])
  BY ThreadsType DEF IInv, TypeOK, ThreadsOK
<1>2. f \in Frame
  BY <1>1 DEF Frame, Pcs, Jobs, Idle
<1>3. /\ th' \in [Threads -> Frame]
      /\ th'[Reactor] = f
      /\ \A u \in Threads : u # Reactor => th'[u] = th[u]
  <2> HIDE DEF f
  <2>1. Go(Reactor, f)
    BY DEF f, Accept
  <2> QED
    BY <1>1, <1>2, <2>1, GoType DEF IInv, TypeOK
<1>4. TypeOK'
  BY <1>1, <1>3, ThreadsType DEF Accept, At, NewSvc, Fresh, Live,
         sessionVars, connVars, lockVars, IInv, TypeOK, SessionTypeOK,
         ThreadOK, FrameOK, FieldsOK, JobOK, Routes, Peers, Adding,
         Removing, OpenPcs, ClosePcs
<1>5. ThreadOK(Reactor, th[Reactor])'
  BY <1>1, <1>3, FrameFields, ThreadsType DEF Accept, At, NewSvc, Fresh,
         Live, sessionVars, connVars, lockVars, IInv, TypeOK, SessionTypeOK,
         ThreadOK, FrameOK, JobOK, FieldsOK, InProxy, RemoveOK, OpenOK,
         Disjoint, Adding, Removing, OpenPcs, ClosePcs, Live, Routes,
         SessionsOK, RegisteredOK, Idle
<1>6. ASSUME NEW u \in Threads, u # Reactor PROVE ThreadOK(u, th[u])'
  <2>1. th'[u] = th[u] /\ th[u] \in Frame /\ ThreadOK(u, th[u])
    BY <1>3, <1>6 DEF IInv, TypeOK, ThreadsOK
  <2> QED
    BY <1>1, <1>6, <2>1, FrameFields, ThreadsType DEF Accept, At, NewSvc,
           Fresh, Live, sessionVars, connVars, lockVars, IInv, TypeOK,
           SessionTypeOK, ThreadOK, FrameOK, JobOK, FieldsOK, InProxy,
           RemoveOK, OpenOK, Disjoint, Adding, Removing, OpenPcs, ClosePcs,
           Live, SessionsOK, Idle
<1>7. ThreadsOK'
  BY <1>5, <1>6 DEF ThreadsOK
<1>8. RegisteredOK'
  <2>1. /\ Adding(th'[Reactor]) <=> Adding(th[Reactor])
        /\ Adding(th[Reactor]) => th'[Reactor].svr = th[Reactor].svr
    BY <1>1, <1>3 DEF Accept, At, NewSvc, Fresh, Live, Adding, ThreadOK,
           FrameOK, JobOK, OpenPcs, Frame, Idle
  <2>2. \A s \in Servers : BeingAdded(s)' <=> BeingAdded(s)
    <3> HIDE DEF f
    <3>1. \A u \in Threads : /\ Adding(th'[u]) <=> Adding(th[u])
                             /\ Adding(th[u]) => th'[u].svr = th[u].svr
      BY <1>3, <2>1
    <3> QED
      BY <3>1 DEF BeingAdded, Adding
  <2> QED
    BY <1>1, <2>2 DEF Accept, At, NewSvc, Fresh, Live, sessionVars,
           connVars, lockVars, IInv, RegisteredOK, Routed
<1>9. SessionsOK'
  BY <1>1, <1>3 DEF Accept, At, NewSvc, Fresh, Live, sessionVars, connVars,
         lockVars, IInv, TypeOK, SessionTypeOK, SessionsOK, ThreadOK,
         OpenOK, Disjoint, FrameOK, JobOK, FieldsOK, OpenPcs
<1> QED
  BY <1>4, <1>7, <1>8, <1>9 DEF IInv

\* The handler deletes itself at the end of handle_close: kept.
LEMMA DestroyStep ==
  ASSUME IInv, NEW t \in Threads, Destroy(t)
  PROVE  IInv'
<1> DEFINE f == IF th[t].job = "event" THEN Idle
             ELSE [th[t] EXCEPT !.pc = "closesvr", !.obj = None]
<1>1. t \in Threads /\ th[t] \in Frame /\ ThreadOK(t, th[t])
  BY ThreadsType DEF IInv, TypeOK, ThreadsOK
<1>2. f \in Frame
  BY <1>1 DEF Frame, Pcs, Jobs, Idle
<1>3. /\ th' \in [Threads -> Frame]
      /\ th'[t] = f
      /\ \A u \in Threads : u # t => th'[u] = th[u]
  <2> HIDE DEF f
  <2>1. Go(t, f)
    BY DEF f, Destroy
  <2> QED
    BY <1>1, <1>2, <2>1, GoType DEF IInv, TypeOK
<1>4. TypeOK'
  BY <1>1, <1>3, ThreadsType DEF Destroy, At, Live, sessionVars, connVars,
         lockVars, IInv, TypeOK, SessionTypeOK, ThreadOK, FrameOK, FieldsOK,
         JobOK, Routes, Peers, Adding, Removing, OpenPcs, ClosePcs
<1>5. ThreadOK(t, th[t])'
  BY <1>1, <1>3, FrameFields, ThreadsType DEF Destroy, At, Live,
         sessionVars, connVars, lockVars, IInv, TypeOK, SessionTypeOK,
         ThreadOK, FrameOK, JobOK, FieldsOK, InProxy, RemoveOK, OpenOK,
         Disjoint, Adding, Removing, OpenPcs, ClosePcs, Live, Routes,
         SessionsOK, RegisteredOK, Idle
<1>6. ASSUME NEW u \in Threads, u # t PROVE ThreadOK(u, th[u])'
  <2>1. th'[u] = th[u] /\ th[u] \in Frame /\ ThreadOK(u, th[u])
    BY <1>3, <1>6 DEF IInv, TypeOK, ThreadsOK
  <2> QED
    BY <1>1, <1>6, <2>1, FrameFields, ThreadsType DEF Destroy, At, Live,
           sessionVars, connVars, lockVars, IInv, TypeOK, SessionTypeOK,
           ThreadOK, FrameOK, JobOK, FieldsOK, InProxy, RemoveOK, OpenOK,
           Disjoint, Adding, Removing, OpenPcs, ClosePcs, Live, SessionsOK,
           Idle
<1>7. ThreadsOK'
  BY <1>5, <1>6 DEF ThreadsOK
<1>8. RegisteredOK'
  <2>1. /\ Adding(th'[t]) <=> Adding(th[t])
        /\ Adding(th[t]) => th'[t].svr = th[t].svr
    BY <1>1, <1>3 DEF Destroy, At, Live, Adding, ThreadOK, FrameOK, JobOK,
           OpenPcs, Frame, Idle
  <2>2. \A s \in Servers : BeingAdded(s)' <=> BeingAdded(s)
    <3> HIDE DEF f
    <3>1. \A u \in Threads : /\ Adding(th'[u]) <=> Adding(th[u])
                             /\ Adding(th[u]) => th'[u].svr = th[u].svr
      BY <1>3, <2>1
    <3> QED
      BY <3>1 DEF BeingAdded, Adding
  <2> QED
    BY <1>1, <2>2 DEF Destroy, At, Live, sessionVars, connVars, lockVars,
           IInv, RegisteredOK, Routed
<1>9. SessionsOK'
  BY <1>1, <1>3 DEF Destroy, At, Live, sessionVars, connVars, lockVars,
         IInv, TypeOK, SessionTypeOK, SessionsOK, ThreadOK, OpenOK,
         Disjoint, FrameOK, JobOK, FieldsOK, OpenPcs
<1> QED
  BY <1>4, <1>7, <1>8, <1>9 DEF IInv

\* addConn of the server table adds a session to a server it knows: kept.
LEMMA AddSvrConnStep ==
  ASSUME IInv, NEW t \in Threads, AddSvrConn(t)
  PROVE  IInv'
<1> DEFINE f == AfterOpen(t)
<1>1. t \in Threads /\ th[t] \in Frame /\ ThreadOK(t, th[t])
  BY ThreadsType DEF IInv, TypeOK, ThreadsOK
<1>2. f \in Frame
  BY <1>1 DEF AfterOpen, Frame, Pcs, Jobs, Idle
<1>3. /\ th' \in [Threads -> Frame]
      /\ th'[t] = f
      /\ \A u \in Threads : u # t => th'[u] = th[u]
  <2> HIDE DEF f
  <2>1. Go(t, f)
    BY DEF f, AddSvrConn
  <2> QED
    BY <1>1, <1>2, <2>1, GoType DEF IInv, TypeOK
<1>4. TypeOK'
  BY <1>1, <1>3, ThreadsType DEF AddSvrConn, At, addSvrConn, AfterOpen,
         sessionVars, connVars, lockVars, IInv, TypeOK, SessionTypeOK,
         ThreadOK, FrameOK, FieldsOK, JobOK, Routes, Peers, Adding,
         Removing, OpenPcs, ClosePcs
<1>5. ThreadOK(t, th[t])'
  BY <1>1, <1>3, FrameFields, ThreadsType DEF AddSvrConn, At, addSvrConn,
         AfterOpen, sessionVars, connVars, lockVars, IInv, TypeOK,
         SessionTypeOK, ThreadOK, FrameOK, JobOK, FieldsOK, InProxy,
         RemoveOK, OpenOK, Disjoint, Adding, Removing, OpenPcs, ClosePcs,
         Live, Routes, SessionsOK, RegisteredOK, Idle
<1>6. ASSUME NEW u \in Threads, u # t PROVE ThreadOK(u, th[u])'
  <2>1. th'[u] = th[u] /\ th[u] \in Frame /\ ThreadOK(u, th[u])
    BY <1>3, <1>6 DEF IInv, TypeOK, ThreadsOK
  <2> QED
    BY <1>1, <1>6, <2>1, FrameFields, ThreadsType DEF AddSvrConn, At,
           addSvrConn, AfterOpen, sessionVars, connVars, lockVars, IInv,
           TypeOK, SessionTypeOK, ThreadOK, FrameOK, JobOK, FieldsOK,
           InProxy, RemoveOK, OpenOK, Disjoint, Adding, Removing, OpenPcs,
           ClosePcs, Live, SessionsOK, Idle
<1>7. ThreadsOK'
  BY <1>5, <1>6 DEF ThreadsOK
<1>8. RegisteredOK'
  <2>1. /\ Adding(th'[t]) <=> Adding(th[t])
        /\ Adding(th[t]) => th'[t].svr = th[t].svr
    BY <1>1, <1>3 DEF AddSvrConn, At, addSvrConn, AfterOpen, Adding,
           ThreadOK, FrameOK, JobOK, OpenPcs, Frame, Idle
  <2>2. \A s \in Servers : BeingAdded(s)' <=> BeingAdded(s)
    <3> HIDE DEF f
    <3>1. \A u \in Threads : /\ Adding(th'[u]) <=> Adding(th[u])
                             /\ Adding(th[u]) => th'[u].svr = th[u].svr
      BY <1>3, <2>1
    <3> QED
      BY <3>1 DEF BeingAdded, Adding
  <2> QED
    BY <1>1, <2>2 DEF AddSvrConn, At, addSvrConn, AfterOpen, sessionVars,
           connVars, lockVars, IInv, RegisteredOK, Routed
<1>9. SessionsOK'
  BY <1>1, <1>3 DEF AddSvrConn, At, addSvrConn, AfterOpen, sessionVars,
         connVars, lockVars, IInv, TypeOK, SessionTypeOK, SessionsOK,
         ThreadOK, OpenOK, Disjoint, FrameOK, JobOK, FieldsOK, OpenPcs
<1> QED
  BY <1>4, <1>7, <1>8, <1>9 DEF IInv

\* rmConn of the server table takes a session away: kept.
LEMMA RmSvrConnStep ==
  ASSUME IInv, NEW t \in Threads, RmSvrConn(t)
  PROVE  IInv'
<1> DEFINE f == [th[t] EXCEPT !.pc = "destroy", !.hnd = None, !.adr = None]
<1>1. t \in Threads /\ th[t] \in Frame /\ ThreadOK(t, th[t])
  BY ThreadsType DEF IInv, TypeOK, ThreadsOK
<1>2. f \in Frame
  BY <1>1 DEF Frame, Pcs, Jobs
<1>3. /\ th' \in [Threads -> Frame]
      /\ th'[t] = f
      /\ \A u \in Threads : u # t => th'[u] = th[u]
  <2> HIDE DEF f
  <2>1. Go(t, f)
    BY DEF f, RmSvrConn
  <2> QED
    BY <1>1, <1>2, <2>1, GoType DEF IInv, TypeOK
<1>4. TypeOK'
  BY <1>1, <1>3, ThreadsType DEF RmSvrConn, At, rmSvrConn, sessionVars,
         connVars, lockVars, IInv, TypeOK, SessionTypeOK, ThreadOK, FrameOK,
         FieldsOK, JobOK, Routes, Peers, Adding, Removing, OpenPcs, ClosePcs
<1>5. ThreadOK(t, th[t])'
  BY <1>1, <1>3, FrameFields, ThreadsType DEF RmSvrConn, At, rmSvrConn,
         sessionVars, connVars, lockVars, IInv, TypeOK, SessionTypeOK,
         ThreadOK, FrameOK, JobOK, FieldsOK, InProxy, RemoveOK, OpenOK,
         Disjoint, Adding, Removing, OpenPcs, ClosePcs, Live, Routes,
         SessionsOK, RegisteredOK
<1>6. ASSUME NEW u \in Threads, u # t PROVE ThreadOK(u, th[u])'
  <2>1. th'[u] = th[u] /\ th[u] \in Frame /\ ThreadOK(u, th[u])
    BY <1>3, <1>6 DEF IInv, TypeOK, ThreadsOK
  <2> QED
    BY <1>1, <1>6, <2>1, FrameFields, ThreadsType DEF RmSvrConn, At,
           rmSvrConn, sessionVars, connVars, lockVars, IInv, TypeOK,
           SessionTypeOK, ThreadOK, FrameOK, JobOK, FieldsOK, InProxy,
           RemoveOK, OpenOK, Disjoint, Adding, Removing, OpenPcs, ClosePcs,
           Live, SessionsOK
<1>7. ThreadsOK'
  BY <1>5, <1>6 DEF ThreadsOK
<1>8. RegisteredOK'
  <2>1. /\ Adding(th'[t]) <=> Adding(th[t])
        /\ Adding(th[t]) => th'[t].svr = th[t].svr
    BY <1>1, <1>3 DEF RmSvrConn, At, rmSvrConn, Adding, ThreadOK, FrameOK,
           JobOK, OpenPcs, Frame
  <2>2. \A s \in Servers : BeingAdded(s)' <=> BeingAdded(s)
    <3> HIDE DEF f
    <3>1. \A u \in Threads : /\ Adding(th'[u]) <=> Adding(th[u])
                             /\ Adding(th[u]) => th'[u].svr = th[u].svr
      BY <1>3, <2>1
    <3> QED
      BY <3>1 DEF BeingAdded, Adding
  <2> QED
    BY <1>1, <2>2 DEF RmSvrConn, At, rmSvrConn, sessionVars, connVars,
           lockVars, IInv, RegisteredOK, Routed
<1>9. SessionsOK'
  BY <1>1, <1>3 DEF RmSvrConn, At, rmSvrConn, sessionVars, connVars,
         lockVars, IInv, TypeOK, SessionTypeOK, SessionsOK, ThreadOK,
         OpenOK, Disjoint, FrameOK, JobOK, FieldsOK, OpenPcs
<1> QED
  BY <1>4, <1>7, <1>8, <1>9 DEF IInv

\* The trim taking its session out of the server table: kept.
LEMMA TrimRmStep ==
  ASSUME IInv, TrimRm
  PROVE  IInv'
<1> DEFINE f == [th[Timer] EXCEPT !.pc = "trim", !.hnd = None, !.excess = @ - 1]
<1>1. Timer \in Threads /\ th[Timer] \in Frame /\ ThreadOK(Timer, th[Timer])
  BY ThreadsType DEF IInv, TypeOK, ThreadsOK
<1>2. f \in Frame
  <2>1. th[Timer].excess - 1 \in Nat
    BY <1>1 DEF TrimRm, At, Frame, ThreadOK, FrameOK, FieldsOK
  <2> QED
    BY <1>1, <2>1 DEF Frame, Pcs, Jobs
<1>3. /\ th' \in [Threads -> Frame]
      /\ th'[Timer] = f
      /\ \A u \in Threads : u # Timer => th'[u] = th[u]
  <2> HIDE DEF f
  <2>1. Go(Timer, f)
    BY DEF f, TrimRm
  <2> QED
    BY <1>1, <1>2, <2>1, GoType DEF IInv, TypeOK
<1>4. TypeOK'
  BY <1>1, <1>3, ThreadsType DEF TrimRm, At, rmSvrConn, sessionVars,
         connVars, lockVars, IInv, TypeOK, SessionTypeOK, ThreadOK, FrameOK,
         FieldsOK, JobOK, Routes, Peers, Adding, Removing, OpenPcs, ClosePcs
<1>5. ThreadOK(Timer, th[Timer])'
  BY <1>1, <1>3, FrameFields, ThreadsType DEF TrimRm, At, rmSvrConn,
         sessionVars, connVars, lockVars, IInv, TypeOK, SessionTypeOK,
         ThreadOK, FrameOK, JobOK, FieldsOK, InProxy, RemoveOK, OpenOK,
         Disjoint, Adding, Removing, OpenPcs, ClosePcs, Live, Routes,
         SessionsOK, RegisteredOK
<1>6. ASSUME NEW u \in Threads, u # Timer PROVE ThreadOK(u, th[u])'
  <2>1. th'[u] = th[u] /\ th[u] \in Frame /\ ThreadOK(u, th[u])
    BY <1>3, <1>6 DEF IInv, TypeOK, ThreadsOK
  <2> QED
    BY <1>1, <1>6, <2>1, FrameFields, ThreadsType DEF TrimRm, At, rmSvrConn,
           sessionVars, connVars, lockVars, IInv, TypeOK, SessionTypeOK,
           ThreadOK, FrameOK, JobOK, FieldsOK, InProxy, RemoveOK, OpenOK,
           Disjoint, Adding, Removing, OpenPcs, ClosePcs, Live, SessionsOK
<1>7. ThreadsOK'
  BY <1>5, <1>6 DEF ThreadsOK
<1>8. RegisteredOK'
  <2>1. /\ Adding(th'[Timer]) <=> Adding(th[Timer])
        /\ Adding(th[Timer]) => th'[Timer].svr = th[Timer].svr
    BY <1>1, <1>3 DEF TrimRm, At, rmSvrConn, Adding, ThreadOK, FrameOK,
           JobOK, OpenPcs, Frame
  <2>2. \A s \in Servers : BeingAdded(s)' <=> BeingAdded(s)
    <3> HIDE DEF f
    <3>1. \A u \in Threads : /\ Adding(th'[u]) <=> Adding(th[u])
                             /\ Adding(th[u]) => th'[u].svr = th[u].svr
      BY <1>3, <2>1
    <3> QED
      BY <3>1 DEF BeingAdded, Adding
  <2> QED
    BY <1>1, <2>2 DEF TrimRm, At, rmSvrConn, sessionVars, connVars,
           lockVars, IInv, RegisteredOK, Routed
<1>9. SessionsOK'
  BY <1>1, <1>3 DEF TrimRm, At, rmSvrConn, sessionVars, connVars, lockVars,
         IInv, TypeOK, SessionTypeOK, SessionsOK, ThreadOK, OpenOK,
         Disjoint, FrameOK, JobOK, FieldsOK, OpenPcs
<1> QED
  BY <1>4, <1>7, <1>8, <1>9 DEF IInv

\* addSvr, by the thread that holds the lock of ProxyMgr: the server is in
\* flight to its route, which is what the strengthening allows.
LEMMA AddSvrStep ==
  ASSUME IInv, NEW t \in Threads, NEW r \in Routes, AddSvr(t, r)
  PROVE  IInv'
<1> DEFINE f == [th[t] EXCEPT !.pc = "connect", !.key = r[1], !.svr = r[2],
                            !.todo = @ \ {r}]
<1>1. t \in Threads /\ th[t] \in Frame /\ ThreadOK(t, th[t])
  BY ThreadsType DEF IInv, TypeOK, ThreadsOK
<1>2. f \in Frame
  <2>1. r[1] \in Keys /\ r[2] \in Servers
    BY <1>1 DEF AddSvr, Routes
  <2> QED
    BY <1>1, <2>1 DEF Frame, Pcs, Jobs
<1>3. /\ th' \in [Threads -> Frame]
      /\ th'[t] = f
      /\ \A u \in Threads : u # t => th'[u] = th[u]
  <2> HIDE DEF f
  <2>1. Go(t, f)
    BY DEF f, AddSvr
  <2> QED
    BY <1>1, <1>2, <2>1, GoType DEF IInv, TypeOK
<1>4. TypeOK'
  BY <1>1, <1>3, ThreadsType DEF AddSvr, At, addSvr, isSvrExist,
         sessionVars, connVars, lockVars, IInv, TypeOK, SessionTypeOK,
         ThreadOK, FrameOK, FieldsOK, JobOK, Routes, Peers, Adding,
         Removing, OpenPcs, ClosePcs
<1>5. ThreadOK(t, th[t])'
  BY <1>1, <1>3, FrameFields, ThreadsType DEF AddSvr, At, addSvr,
         isSvrExist, sessionVars, connVars, lockVars, IInv, TypeOK,
         SessionTypeOK, ThreadOK, FrameOK, JobOK, FieldsOK, InProxy,
         RemoveOK, OpenOK, Disjoint, Adding, Removing, OpenPcs, ClosePcs,
         Live, Routes, SessionsOK, RegisteredOK
<1>6. ASSUME NEW u \in Threads, u # t PROVE ThreadOK(u, th[u])'
  <2>1. th'[u] = th[u] /\ th[u] \in Frame /\ ThreadOK(u, th[u])
    BY <1>3, <1>6 DEF IInv, TypeOK, ThreadsOK
  <2> QED
    BY <1>1, <1>6, <2>1, FrameFields, ThreadsType DEF AddSvr, At, addSvr,
           isSvrExist, sessionVars, connVars, lockVars, IInv, TypeOK,
           SessionTypeOK, ThreadOK, FrameOK, JobOK, FieldsOK, InProxy,
           RemoveOK, OpenOK, Disjoint, Adding, Removing, OpenPcs, ClosePcs,
           Live, SessionsOK
<1>7. ThreadsOK'
  BY <1>5, <1>6 DEF ThreadsOK
<1>8. RegisteredOK'
  <2>1. ~Adding(th[t]) /\ Adding(th'[t]) /\ th'[t].svr = r[2]
    BY <1>1, <1>3, <1>5 DEF AddSvr, At, Adding, OpenPcs, Frame, ThreadOK, FrameOK,
         JobOK
  <2>2. \A s \in Servers : ~BeingAdded(s) /\ (BeingAdded(s)' <=> s = r[2])
    <3>1. \A u \in Threads : ~Adding(th[u])
      BY OnlyHolderAdds, ThreadsType DEF AddSvr
    <3>2. \A u \in Threads : Adding(th'[u]) <=> u = t
      BY <1>3, <2>1, <3>1
    <3> QED
      BY <1>1, <2>1, <3>1, <3>2 DEF BeingAdded, Adding
  <2> QED
    BY <2>2 DEF AddSvr, addSvr, isSvrExist, connVars, IInv, RegisteredOK, Routed
<1>9. SessionsOK'
  BY <1>1, <1>3 DEF AddSvr, At, addSvr, isSvrExist, sessionVars, connVars,
         lockVars, IInv, TypeOK, SessionTypeOK, SessionsOK, ThreadOK,
         OpenOK, Disjoint, FrameOK, JobOK, FieldsOK, OpenPcs
<1> QED
  BY <1>4, <1>7, <1>8, <1>9 DEF IInv

\* rmSvr, in one critical section with its route unless the destructor does it: kept.
LEMMA RmSvrStep ==
  ASSUME IInv, NEW t \in Threads, RmSvr(t)
  PROVE  IInv'
<1> DEFINE f == [th[t] EXCEPT !.pc = "prune", !.key = None, !.svr = None]
<1>1. t \in Threads /\ th[t] \in Frame /\ ThreadOK(t, th[t])
  BY ThreadsType DEF IInv, TypeOK, ThreadsOK
<1>2. f \in Frame
  BY <1>1 DEF Frame, Pcs, Jobs
<1>3. /\ th' \in [Threads -> Frame]
      /\ th'[t] = f
      /\ \A u \in Threads : u # t => th'[u] = th[u]
  <2> HIDE DEF f
  <2>1. Go(t, f)
    BY DEF f, RmSvr
  <2> QED
    BY <1>1, <1>2, <2>1, GoType DEF IInv, TypeOK
<1>4. TypeOK'
  BY <1>1, <1>3, ThreadsType DEF RmSvr, At, rmSvr, sessionVars, connVars,
         lockVars, IInv, TypeOK, SessionTypeOK, ThreadOK, FrameOK, FieldsOK,
         JobOK, Routes, Peers, Adding, Removing, OpenPcs, ClosePcs
<1>5. ThreadOK(t, th[t])'
  BY <1>1, <1>3, FrameFields, ThreadsType DEF RmSvr, At, rmSvr, sessionVars,
         connVars, lockVars, IInv, TypeOK, SessionTypeOK, ThreadOK, FrameOK,
         JobOK, FieldsOK, InProxy, RemoveOK, OpenOK, Disjoint, Adding,
         Removing, OpenPcs, ClosePcs, Live, Routes, SessionsOK, RegisteredOK
<1>6. ASSUME NEW u \in Threads, u # t PROVE ThreadOK(u, th[u])'
  <2>1. th'[u] = th[u] /\ th[u] \in Frame /\ ThreadOK(u, th[u])
    BY <1>3, <1>6 DEF IInv, TypeOK, ThreadsOK
  <2> QED
    BY <1>1, <1>6, <2>1, FrameFields, ThreadsType DEF RmSvr, At, rmSvr,
           sessionVars, connVars, lockVars, IInv, TypeOK, SessionTypeOK,
           ThreadOK, FrameOK, JobOK, FieldsOK, InProxy, RemoveOK, OpenOK,
           Disjoint, Adding, Removing, OpenPcs, ClosePcs, Live, SessionsOK
<1>7. ThreadsOK'
  BY <1>5, <1>6 DEF ThreadsOK
<1>8. RegisteredOK'
  <2>1. proxyLock = t /\ ~Adding(th[t]) /\ ~Adding(th'[t])
    BY <1>1, <1>3 DEF RmSvr, At, Adding, OpenPcs, Frame, ThreadOK, FrameOK, JobOK,
         InProxy
  <2>2. \A s \in Servers : ~BeingAdded(s) /\ ~BeingAdded(s)'
    <3>1. \A u \in Threads : ~Adding(th[u])
      BY <2>1, OnlyHolderAdds
    <3>2. \A u \in Threads : ~Adding(th'[u])
      BY <1>3, <2>1, <3>1
    <3> QED
      BY <3>1, <3>2 DEF BeingAdded, Adding
  <2>3. phase \in {"boot", "run"} =>
          /\ th[t].job = "update" /\ th[t].key \in Keys /\ th[t].svr \in Servers
          /\ <<th[t].key, th[t].svr>> \in m_mapProxy
    BY <1>1 DEF RmSvr, At, ThreadOK, FrameOK, JobOK, FieldsOK, RemoveOK, Removing
  <2>4. \A j, k \in Keys, s \in Servers :
          phase \in {"boot", "run"} /\ <<j, s>> \in m_mapProxy /\ <<k, s>> \in m_mapProxy
            => j = k
    BY DEF IInv, RegisteredOK
  <2>5. ASSUME NEW s \in Servers, phase \in {"boot", "run"}
        PROVE  Routed(s)' <=> Routed(s) /\ s # th[t].svr
    BY <2>3, <2>4, <2>5 DEF RmSvr, Routed
  <2>6. phase' = phase /\ registered' = registered \ {th[t].svr}
    BY DEF RmSvr, rmSvr
  <2>7. phase \in {"boot", "run"} =>
          \A s \in Servers : s \in registered <=> Routed(s) \/ BeingAdded(s)
    BY DEF IInv, RegisteredOK
  <2>8. m_mapProxy' \subseteq m_mapProxy
    BY DEF RmSvr
  <2> QED
    BY <2>2, <2>4, <2>5, <2>6, <2>7, <2>8 DEF RegisteredOK
<1>9. SessionsOK'
  BY <1>1, <1>3 DEF RmSvr, At, rmSvr, sessionVars, connVars, lockVars, IInv,
         TypeOK, SessionTypeOK, SessionsOK, ThreadOK, OpenOK, Disjoint,
         FrameOK, JobOK, FieldsOK, OpenPcs
<1> QED
  BY <1>4, <1>7, <1>8, <1>9 DEF IInv

\* The route of the server that was just added enters the map: in flight no more.
LEMMA InsertRouteStep ==
  ASSUME IInv, NEW t \in Threads, InsertRoute(t)
  PROVE  IInv'
<1> DEFINE f == [th[t] EXCEPT !.pc = "add", !.key = None, !.svr = None]
<1>1. t \in Threads /\ th[t] \in Frame /\ ThreadOK(t, th[t])
  BY ThreadsType DEF IInv, TypeOK, ThreadsOK
<1>2. f \in Frame
  BY <1>1 DEF Frame, Pcs, Jobs
<1>3. /\ th' \in [Threads -> Frame]
      /\ th'[t] = f
      /\ \A u \in Threads : u # t => th'[u] = th[u]
  <2> HIDE DEF f
  <2>1. Go(t, f)
    BY DEF f, InsertRoute
  <2> QED
    BY <1>1, <1>2, <2>1, GoType DEF IInv, TypeOK
<1>4. TypeOK'
  BY <1>1, <1>3, ThreadsType DEF InsertRoute, At, sessionVars, connVars,
         lockVars, IInv, TypeOK, SessionTypeOK, ThreadOK, FrameOK, FieldsOK,
         JobOK, Routes, Peers, Adding, Removing, OpenPcs, ClosePcs
<1>5. ThreadOK(t, th[t])'
  BY <1>1, <1>3, FrameFields, ThreadsType DEF InsertRoute, At, sessionVars,
         connVars, lockVars, IInv, TypeOK, SessionTypeOK, ThreadOK, FrameOK,
         JobOK, FieldsOK, InProxy, RemoveOK, OpenOK, Disjoint, Adding,
         Removing, OpenPcs, ClosePcs, Live, Routes, SessionsOK, RegisteredOK
<1>6. ASSUME NEW u \in Threads, u # t PROVE ThreadOK(u, th[u])'
  <2>1. th'[u] = th[u] /\ th[u] \in Frame /\ ThreadOK(u, th[u])
    BY <1>3, <1>6 DEF IInv, TypeOK, ThreadsOK
  <2> QED
    BY <1>1, <1>6, <2>1, FrameFields, ThreadsType DEF InsertRoute, At,
           sessionVars, connVars, lockVars, IInv, TypeOK, SessionTypeOK,
           ThreadOK, FrameOK, JobOK, FieldsOK, InProxy, RemoveOK, OpenOK,
           Disjoint, Adding, Removing, OpenPcs, ClosePcs, Live, SessionsOK
<1>7. ThreadsOK'
  BY <1>5, <1>6 DEF ThreadsOK
<1>8. RegisteredOK'
  <2>1. Adding(th[t]) /\ ~Adding(th'[t]) /\ proxyLock = t
    BY <1>1, <1>3 DEF InsertRoute, At, Adding, OpenPcs, Frame, ThreadOK, FrameOK,
         JobOK, InProxy
  <2>2. \A s \in Servers : ~BeingAdded(s)' /\ (BeingAdded(s) <=> s = th[t].svr)
    <3>1. \A u \in Threads : Adding(th[u]) <=> u = t
      BY <2>1, OnlyHolderAdds
    <3>2. \A u \in Threads : ~Adding(th'[u])
      BY <1>3, <2>1, <3>1
    <3> QED
      BY <1>1, <3>1, <3>2 DEF BeingAdded, Adding
  <2>3. th[t].key \in Keys /\ th[t].svr \in Servers
    BY <1>1, <2>1 DEF InsertRoute, At, ThreadOK, FrameOK, FieldsOK
  <2> QED
    BY <2>2, <2>3 DEF InsertRoute, sessionVars, IInv, RegisteredOK, Routed
<1>9. SessionsOK'
  BY <1>1, <1>3 DEF InsertRoute, At, sessionVars, connVars, lockVars, IInv,
         TypeOK, SessionTypeOK, SessionsOK, ThreadOK, OpenOK, Disjoint,
         FrameOK, JobOK, FieldsOK, OpenPcs
<1> QED
  BY <1>4, <1>7, <1>8, <1>9 DEF IInv

\* The update taking the lock to remove the routes its map does not have: kept.
LEMMA PruneBeginStep ==
  ASSUME IInv, NEW w \in Workers, PruneBegin(w)
  PROVE  IInv'
<1> DEFINE f == [th[w] EXCEPT !.pc = "prune", !.todo = m_mapProxy \ th[w].want]
<1>1. w \in Threads /\ th[w] \in Frame /\ ThreadOK(w, th[w])
  BY ThreadsType DEF IInv, TypeOK, ThreadsOK
<1>2. f \in Frame
  <2>1. m_mapProxy \ th[w].want \in SUBSET Routes
    BY <1>1 DEF PruneBegin, IInv, TypeOK
  <2> QED
    BY <1>1, <2>1 DEF Frame, Pcs, Jobs
<1>3. /\ th' \in [Threads -> Frame]
      /\ th'[w] = f
      /\ \A u \in Threads : u # w => th'[u] = th[u]
  <2> HIDE DEF f
  <2>1. Go(w, f)
    BY DEF f, PruneBegin
  <2> QED
    BY <1>1, <1>2, <2>1, GoType DEF IInv, TypeOK
<1>4. TypeOK'
  BY <1>1, <1>3, ThreadsType DEF PruneBegin, At, sessionVars, connVars,
         lockVars, IInv, TypeOK, SessionTypeOK, ThreadOK, FrameOK, FieldsOK,
         JobOK, Routes, Peers, Adding, Removing, OpenPcs, ClosePcs
<1>5. ThreadOK(w, th[w])'
  BY <1>1, <1>3, FrameFields, ThreadsType DEF PruneBegin, At, sessionVars,
         connVars, lockVars, IInv, TypeOK, SessionTypeOK, ThreadOK, FrameOK,
         JobOK, FieldsOK, InProxy, RemoveOK, OpenOK, Disjoint, Adding,
         Removing, OpenPcs, ClosePcs, Live, Routes, SessionsOK, RegisteredOK
<1>6. ASSUME NEW u \in Threads, u # w PROVE ThreadOK(u, th[u])'
  <2>1. th'[u] = th[u] /\ th[u] \in Frame /\ ThreadOK(u, th[u])
    BY <1>3, <1>6 DEF IInv, TypeOK, ThreadsOK
  <2> QED
    BY <1>1, <1>6, <2>1, FrameFields, ThreadsType DEF PruneBegin, At,
           sessionVars, connVars, lockVars, IInv, TypeOK, SessionTypeOK,
           ThreadOK, FrameOK, JobOK, FieldsOK, InProxy, RemoveOK, OpenOK,
           Disjoint, Adding, Removing, OpenPcs, ClosePcs, Live, SessionsOK
<1>7. ThreadsOK'
  BY <1>5, <1>6 DEF ThreadsOK
<1>8. RegisteredOK'
  <2>1. /\ Adding(th'[w]) <=> Adding(th[w])
        /\ Adding(th[w]) => th'[w].svr = th[w].svr
    BY <1>1, <1>3 DEF PruneBegin, At, Adding, ThreadOK, FrameOK, JobOK,
           OpenPcs, Frame
  <2>2. \A s \in Servers : BeingAdded(s)' <=> BeingAdded(s)
    <3> HIDE DEF f
    <3>1. \A u \in Threads : /\ Adding(th'[u]) <=> Adding(th[u])
                             /\ Adding(th[u]) => th'[u].svr = th[u].svr
      BY <1>3, <2>1
    <3> QED
      BY <3>1 DEF BeingAdded, Adding
  <2> QED
    BY <1>1, <2>2 DEF PruneBegin, At, sessionVars, connVars, lockVars, IInv,
           RegisteredOK, Routed
<1>9. SessionsOK'
  BY <1>1, <1>3 DEF PruneBegin, At, sessionVars, connVars, lockVars, IInv,
         TypeOK, SessionTypeOK, SessionsOK, ThreadOK, OpenOK, Disjoint,
         FrameOK, JobOK, FieldsOK, OpenPcs
<1> QED
  BY <1>4, <1>7, <1>8, <1>9 DEF IInv

\* The end of an update, or of the destructor's removals: the lock is given
\* back with nothing in flight.
LEMMA PruneEndStep ==
  ASSUME IInv, NEW t \in Threads, PruneEnd(t)
  PROVE  IInv'
<1> DEFINE f == IF th[t].job = "finalize"
                  THEN [Idle EXCEPT !.pc = "ending", !.job = "finalize"]
                  ELSE Idle
<1>1. t \in Threads /\ th[t] \in Frame /\ ThreadOK(t, th[t])
  BY ThreadsType DEF IInv, TypeOK, ThreadsOK
<1>2. f \in Frame
  BY <1>1 DEF Frame, Pcs, Jobs, Idle
<1>3. /\ th' \in [Threads -> Frame]
      /\ th'[t] = f
      /\ \A u \in Threads : u # t => th'[u] = th[u]
  <2> HIDE DEF f
  <2>1. Go(t, f)
    BY DEF f, PruneEnd
  <2> QED
    BY <1>1, <1>2, <2>1, GoType DEF IInv, TypeOK
<1>4. TypeOK'
  BY <1>1, <1>3, ThreadsType DEF PruneEnd, At, sessionVars, connVars,
         lockVars, IInv, TypeOK, SessionTypeOK, ThreadOK, FrameOK, FieldsOK,
         JobOK, Routes, Peers, Adding, Removing, OpenPcs, ClosePcs
<1>5. ThreadOK(t, th[t])'
  BY <1>1, <1>3, FrameFields, ThreadsType DEF PruneEnd, At, sessionVars,
         connVars, lockVars, IInv, TypeOK, SessionTypeOK, ThreadOK, FrameOK,
         JobOK, FieldsOK, InProxy, RemoveOK, OpenOK, Disjoint, Adding,
         Removing, OpenPcs, ClosePcs, Live, Routes, SessionsOK,
         RegisteredOK, Idle
<1>6. ASSUME NEW u \in Threads, u # t PROVE ThreadOK(u, th[u])'
  <2>1. th'[u] = th[u] /\ th[u] \in Frame /\ ThreadOK(u, th[u])
    BY <1>3, <1>6 DEF IInv, TypeOK, ThreadsOK
  <2> QED
    BY <1>1, <1>6, <2>1, FrameFields, ThreadsType DEF PruneEnd, At,
           sessionVars, connVars, lockVars, IInv, TypeOK, SessionTypeOK,
           ThreadOK, FrameOK, JobOK, FieldsOK, InProxy, RemoveOK, OpenOK,
           Disjoint, Adding, Removing, OpenPcs, ClosePcs, Live, SessionsOK,
           Idle
<1>7. ThreadsOK'
  BY <1>5, <1>6 DEF ThreadsOK
<1>8. RegisteredOK'
  <2>1. /\ Adding(th'[t]) <=> Adding(th[t])
        /\ Adding(th[t]) => th'[t].svr = th[t].svr
    BY <1>1, <1>3 DEF PruneEnd, At, Adding, ThreadOK, FrameOK, JobOK,
           OpenPcs, Frame, Idle
  <2>2. \A s \in Servers : BeingAdded(s)' <=> BeingAdded(s)
    <3> HIDE DEF f
    <3>1. \A u \in Threads : /\ Adding(th'[u]) <=> Adding(th[u])
                             /\ Adding(th[u]) => th'[u].svr = th[u].svr
      BY <1>3, <2>1
    <3> QED
      BY <3>1 DEF BeingAdded, Adding
  <2> QED
    BY <1>1, <2>2 DEF PruneEnd, At, sessionVars, connVars, lockVars, IInv,
           RegisteredOK, Routed
<1>9. SessionsOK'
  BY <1>1, <1>3 DEF PruneEnd, At, sessionVars, connVars, lockVars, IInv,
         TypeOK, SessionTypeOK, SessionsOK, ThreadOK, OpenOK, Disjoint,
         FrameOK, JobOK, FieldsOK, OpenPcs
<1> QED
  BY <1>4, <1>7, <1>8, <1>9 DEF IInv

\* The rebuild taking the lock and the routes there are: kept.
LEMMA ReBuildStep ==
  ASSUME IInv, ReBuild
  PROVE  IInv'
<1> DEFINE f == [Idle EXCEPT !.pc = "rebuild", !.job = "rebuild",
                           !.todo = m_mapProxy]
<1>1. Timer \in Threads /\ th[Timer] \in Frame /\ ThreadOK(Timer, th[Timer])
  BY ThreadsType DEF IInv, TypeOK, ThreadsOK
<1>2. f \in Frame
  <2>1. m_mapProxy \in SUBSET Routes
    BY <1>1 DEF ReBuild, IInv, TypeOK
  <2> QED
    BY <1>1, <2>1 DEF Frame, Pcs, Jobs, Idle
<1>3. /\ th' \in [Threads -> Frame]
      /\ th'[Timer] = f
      /\ \A u \in Threads : u # Timer => th'[u] = th[u]
  <2> HIDE DEF f
  <2>1. Go(Timer, f)
    BY DEF f, ReBuild
  <2> QED
    BY <1>1, <1>2, <2>1, GoType DEF IInv, TypeOK
<1>4. TypeOK'
  BY <1>1, <1>3, ThreadsType DEF ReBuild, At, sessionVars, connVars,
         lockVars, IInv, TypeOK, SessionTypeOK, ThreadOK, FrameOK, FieldsOK,
         JobOK, Routes, Peers, Adding, Removing, OpenPcs, ClosePcs
<1>5. ThreadOK(Timer, th[Timer])'
  BY <1>1, <1>3, FrameFields, ThreadsType DEF ReBuild, At, sessionVars,
         connVars, lockVars, IInv, TypeOK, SessionTypeOK, ThreadOK, FrameOK,
         JobOK, FieldsOK, InProxy, RemoveOK, OpenOK, Disjoint, Adding,
         Removing, OpenPcs, ClosePcs, Live, Routes, SessionsOK,
         RegisteredOK, Idle
<1>6. ASSUME NEW u \in Threads, u # Timer PROVE ThreadOK(u, th[u])'
  <2>1. th'[u] = th[u] /\ th[u] \in Frame /\ ThreadOK(u, th[u])
    BY <1>3, <1>6 DEF IInv, TypeOK, ThreadsOK
  <2> QED
    BY <1>1, <1>6, <2>1, FrameFields, ThreadsType DEF ReBuild, At,
           sessionVars, connVars, lockVars, IInv, TypeOK, SessionTypeOK,
           ThreadOK, FrameOK, JobOK, FieldsOK, InProxy, RemoveOK, OpenOK,
           Disjoint, Adding, Removing, OpenPcs, ClosePcs, Live, SessionsOK,
           Idle
<1>7. ThreadsOK'
  BY <1>5, <1>6 DEF ThreadsOK
<1>8. RegisteredOK'
  <2>1. /\ Adding(th'[Timer]) <=> Adding(th[Timer])
        /\ Adding(th[Timer]) => th'[Timer].svr = th[Timer].svr
    BY <1>1, <1>3 DEF ReBuild, At, Adding, ThreadOK, FrameOK, JobOK,
           OpenPcs, Frame, Idle
  <2>2. \A s \in Servers : BeingAdded(s)' <=> BeingAdded(s)
    <3> HIDE DEF f
    <3>1. \A u \in Threads : /\ Adding(th'[u]) <=> Adding(th[u])
                             /\ Adding(th[u]) => th'[u].svr = th[u].svr
      BY <1>3, <2>1
    <3> QED
      BY <3>1 DEF BeingAdded, Adding
  <2> QED
    BY <1>1, <2>2 DEF ReBuild, At, sessionVars, connVars, lockVars, IInv,
           RegisteredOK, Routed
<1>9. SessionsOK'
  BY <1>1, <1>3 DEF ReBuild, At, sessionVars, connVars, lockVars, IInv,
         TypeOK, SessionTypeOK, SessionsOK, ThreadOK, OpenOK, Disjoint,
         FrameOK, JobOK, FieldsOK, OpenPcs
<1> QED
  BY <1>4, <1>7, <1>8, <1>9 DEF IInv

\* The end of a rebuild: the lock is given back with nothing in flight.
LEMMA ReBuildEndStep ==
  ASSUME IInv, ReBuildEnd
  PROVE  IInv'
<1> DEFINE f == Idle
<1>1. Timer \in Threads /\ th[Timer] \in Frame /\ ThreadOK(Timer, th[Timer])
  BY ThreadsType DEF IInv, TypeOK, ThreadsOK
<1>2. f \in Frame
  BY <1>1 DEF Frame, Pcs, Jobs, Idle
<1>3. /\ th' \in [Threads -> Frame]
      /\ th'[Timer] = f
      /\ \A u \in Threads : u # Timer => th'[u] = th[u]
  <2> HIDE DEF f
  <2>1. Go(Timer, f)
    BY DEF f, ReBuildEnd
  <2> QED
    BY <1>1, <1>2, <2>1, GoType DEF IInv, TypeOK
<1>4. TypeOK'
  BY <1>1, <1>3, ThreadsType DEF ReBuildEnd, At, sessionVars, connVars,
         lockVars, IInv, TypeOK, SessionTypeOK, ThreadOK, FrameOK, FieldsOK,
         JobOK, Routes, Peers, Adding, Removing, OpenPcs, ClosePcs
<1>5. ThreadOK(Timer, th[Timer])'
  BY <1>1, <1>3, FrameFields, ThreadsType DEF ReBuildEnd, At, sessionVars,
         connVars, lockVars, IInv, TypeOK, SessionTypeOK, ThreadOK, FrameOK,
         JobOK, FieldsOK, InProxy, RemoveOK, OpenOK, Disjoint, Adding,
         Removing, OpenPcs, ClosePcs, Live, Routes, SessionsOK,
         RegisteredOK, Idle
<1>6. ASSUME NEW u \in Threads, u # Timer PROVE ThreadOK(u, th[u])'
  <2>1. th'[u] = th[u] /\ th[u] \in Frame /\ ThreadOK(u, th[u])
    BY <1>3, <1>6 DEF IInv, TypeOK, ThreadsOK
  <2> QED
    BY <1>1, <1>6, <2>1, FrameFields, ThreadsType DEF ReBuildEnd, At,
           sessionVars, connVars, lockVars, IInv, TypeOK, SessionTypeOK,
           ThreadOK, FrameOK, JobOK, FieldsOK, InProxy, RemoveOK, OpenOK,
           Disjoint, Adding, Removing, OpenPcs, ClosePcs, Live, SessionsOK,
           Idle
<1>7. ThreadsOK'
  BY <1>5, <1>6 DEF ThreadsOK
<1>8. RegisteredOK'
  <2>1. /\ Adding(th'[Timer]) <=> Adding(th[Timer])
        /\ Adding(th[Timer]) => th'[Timer].svr = th[Timer].svr
    BY <1>1, <1>3 DEF ReBuildEnd, At, Adding, ThreadOK, FrameOK, JobOK,
           OpenPcs, Frame, Idle
  <2>2. \A s \in Servers : BeingAdded(s)' <=> BeingAdded(s)
    <3> HIDE DEF f
    <3>1. \A u \in Threads : /\ Adding(th'[u]) <=> Adding(th[u])
                             /\ Adding(th[u]) => th'[u].svr = th[u].svr
      BY <1>3, <2>1
    <3> QED
      BY <3>1 DEF BeingAdded, Adding
  <2> QED
    BY <1>1, <2>2 DEF ReBuildEnd, At, sessionVars, connVars, lockVars, IInv,
           RegisteredOK, Routed
<1>9. SessionsOK'
  BY <1>1, <1>3 DEF ReBuildEnd, At, sessionVars, connVars, lockVars, IInv,
         TypeOK, SessionTypeOK, SessionsOK, ThreadOK, OpenOK, Disjoint,
         FrameOK, JobOK, FieldsOK, OpenPcs
<1> QED
  BY <1>4, <1>7, <1>8, <1>9 DEF IInv

\* The destructor of ProxyMgr starting to remove the routes: kept.
LEMMA FinalizeStep ==
  ASSUME IInv, Finalize
  PROVE  IInv'
<1> DEFINE f == [th[Reactor] EXCEPT !.pc = "prune", !.todo = m_mapProxy]
<1>1. Reactor \in Threads /\ th[Reactor] \in Frame /\ ThreadOK(Reactor, th[Reactor])
  BY ThreadsType DEF IInv, TypeOK, ThreadsOK
<1>2. f \in Frame
  <2>1. m_mapProxy \in SUBSET Routes
    BY <1>1 DEF Finalize, IInv, TypeOK
  <2> QED
    BY <1>1, <2>1 DEF Frame, Pcs, Jobs
<1>3. /\ th' \in [Threads -> Frame]
      /\ th'[Reactor] = f
      /\ \A u \in Threads : u # Reactor => th'[u] = th[u]
  <2> HIDE DEF f
  <2>1. Go(Reactor, f)
    BY DEF f, Finalize
  <2> QED
    BY <1>1, <1>2, <2>1, GoType DEF IInv, TypeOK
<1>4. TypeOK'
  BY <1>1, <1>3, ThreadsType DEF Finalize, At, sessionVars, connVars,
         lockVars, IInv, TypeOK, SessionTypeOK, ThreadOK, FrameOK, FieldsOK,
         JobOK, Routes, Peers, Adding, Removing, OpenPcs, ClosePcs
<1>5. ThreadOK(Reactor, th[Reactor])'
  BY <1>1, <1>3, FrameFields, ThreadsType DEF Finalize, At, sessionVars,
         connVars, lockVars, IInv, TypeOK, SessionTypeOK, ThreadOK, FrameOK,
         JobOK, FieldsOK, InProxy, RemoveOK, OpenOK, Disjoint, Adding,
         Removing, OpenPcs, ClosePcs, Live, Routes, SessionsOK, RegisteredOK
<1>6. ASSUME NEW u \in Threads, u # Reactor PROVE ThreadOK(u, th[u])'
  <2>1. th'[u] = th[u] /\ th[u] \in Frame /\ ThreadOK(u, th[u])
    BY <1>3, <1>6 DEF IInv, TypeOK, ThreadsOK
  <2> QED
    BY <1>1, <1>6, <2>1, FrameFields, ThreadsType DEF Finalize, At,
           sessionVars, connVars, lockVars, IInv, TypeOK, SessionTypeOK,
           ThreadOK, FrameOK, JobOK, FieldsOK, InProxy, RemoveOK, OpenOK,
           Disjoint, Adding, Removing, OpenPcs, ClosePcs, Live, SessionsOK
<1>7. ThreadsOK'
  BY <1>5, <1>6 DEF ThreadsOK
<1>8. RegisteredOK'
  <2>1. /\ Adding(th'[Reactor]) <=> Adding(th[Reactor])
        /\ Adding(th[Reactor]) => th'[Reactor].svr = th[Reactor].svr
    BY <1>1, <1>3 DEF Finalize, At, Adding, ThreadOK, FrameOK, JobOK,
           OpenPcs, Frame
  <2>2. \A s \in Servers : BeingAdded(s)' <=> BeingAdded(s)
    <3> HIDE DEF f
    <3>1. \A u \in Threads : /\ Adding(th'[u]) <=> Adding(th[u])
                             /\ Adding(th[u]) => th'[u].svr = th[u].svr
      BY <1>3, <2>1
    <3> QED
      BY <3>1 DEF BeingAdded, Adding
  <2> QED
    BY <1>1, <2>2 DEF Finalize, At, sessionVars, connVars, lockVars, IInv,
           RegisteredOK, Routed
<1>9. SessionsOK'
  BY <1>1, <1>3 DEF Finalize, At, sessionVars, connVars, lockVars, IInv,
         TypeOK, SessionTypeOK, SessionsOK, ThreadOK, OpenOK, Disjoint,
         FrameOK, JobOK, FieldsOK, OpenPcs
<1> QED
  BY <1>4, <1>7, <1>8, <1>9 DEF IInv

\* The end of the constructor: the reactor goes on with nothing in hand.
LEMMA BootEndStep ==
  ASSUME IInv, BootEnd
  PROVE  IInv'
<1> DEFINE f == Idle
<1>1. Reactor \in Threads /\ th[Reactor] \in Frame /\ ThreadOK(Reactor, th[Reactor])
  BY ThreadsType DEF IInv, TypeOK, ThreadsOK
<1>2. f \in Frame
  BY <1>1 DEF Frame, Pcs, Jobs, Idle
<1>3. /\ th' \in [Threads -> Frame]
      /\ th'[Reactor] = f
      /\ \A u \in Threads : u # Reactor => th'[u] = th[u]
  <2> HIDE DEF f
  <2>1. Go(Reactor, f)
    BY DEF f, BootEnd
  <2> QED
    BY <1>1, <1>2, <2>1, GoType DEF IInv, TypeOK
<1>4. TypeOK'
  BY <1>1, <1>3, ThreadsType DEF BootEnd, At, sessionVars, connVars,
         lockVars, IInv, TypeOK, SessionTypeOK, ThreadOK, FrameOK, FieldsOK,
         JobOK, Routes, Peers, Adding, Removing, OpenPcs, ClosePcs
<1>5. ThreadOK(Reactor, th[Reactor])'
  BY <1>1, <1>3, FrameFields, ThreadsType DEF BootEnd, At, sessionVars,
         connVars, lockVars, IInv, TypeOK, SessionTypeOK, ThreadOK, FrameOK,
         JobOK, FieldsOK, InProxy, RemoveOK, OpenOK, Disjoint, Adding,
         Removing, OpenPcs, ClosePcs, Live, Routes, SessionsOK,
         RegisteredOK, Idle
<1>6. ASSUME NEW u \in Threads, u # Reactor PROVE ThreadOK(u, th[u])'
  <2>1. th'[u] = th[u] /\ th[u] \in Frame /\ ThreadOK(u, th[u])
    BY <1>3, <1>6 DEF IInv, TypeOK, ThreadsOK
  <2> QED
    BY <1>1, <1>6, <2>1, FrameFields, ThreadsType DEF BootEnd, At,
           sessionVars, connVars, lockVars, IInv, TypeOK, SessionTypeOK,
           ThreadOK, FrameOK, JobOK, FieldsOK, InProxy, RemoveOK, OpenOK,
           Disjoint, Adding, Removing, OpenPcs, ClosePcs, Live, SessionsOK,
           Idle
<1>7. ThreadsOK'
  BY <1>5, <1>6 DEF ThreadsOK
<1>8. RegisteredOK'
  <2>1. /\ Adding(th'[Reactor]) <=> Adding(th[Reactor])
        /\ Adding(th[Reactor]) => th'[Reactor].svr = th[Reactor].svr
    BY <1>1, <1>3 DEF BootEnd, At, Adding, ThreadOK, FrameOK, JobOK,
           OpenPcs, Frame, Idle
  <2>2. \A s \in Servers : BeingAdded(s)' <=> BeingAdded(s)
    <3> HIDE DEF f
    <3>1. \A u \in Threads : /\ Adding(th'[u]) <=> Adding(th[u])
                             /\ Adding(th[u]) => th'[u].svr = th[u].svr
      BY <1>3, <2>1
    <3> QED
      BY <3>1 DEF BeingAdded, Adding
  <2> QED
    BY <1>1, <2>2, ThreadsType DEF BootEnd, At, sessionVars, connVars,
           lockVars, IInv, RegisteredOK, Routed, ThreadOK, FrameOK, JobOK
<1>9. SessionsOK'
  BY <1>1, <1>3 DEF BootEnd, At, sessionVars, connVars, lockVars, IInv,
         TypeOK, SessionTypeOK, SessionsOK, ThreadOK, OpenOK, Disjoint,
         FrameOK, JobOK, FieldsOK, OpenPcs
<1> QED
  BY <1>4, <1>7, <1>8, <1>9 DEF IInv

\* The process asked to stop: only the reactor's frame changes.
LEMMA StopStep ==
  ASSUME IInv, Stop
  PROVE  IInv'
<1> DEFINE f == [Idle EXCEPT !.pc = "stopping", !.job = "finalize"]
<1>1. Reactor \in Threads /\ th[Reactor] \in Frame /\ ThreadOK(Reactor, th[Reactor])
  BY ThreadsType DEF IInv, TypeOK, ThreadsOK
<1>2. f \in Frame
  BY <1>1 DEF Frame, Pcs, Jobs, Idle
<1>3. /\ th' \in [Threads -> Frame]
      /\ th'[Reactor] = f
      /\ \A u \in Threads : u # Reactor => th'[u] = th[u]
  <2> HIDE DEF f
  <2>1. Go(Reactor, f)
    BY DEF f, Stop
  <2> QED
    BY <1>1, <1>2, <2>1, GoType DEF IInv, TypeOK
<1>4. TypeOK'
  BY <1>1, <1>3, ThreadsType DEF Stop, At, sessionVars, connVars, lockVars,
         IInv, TypeOK, SessionTypeOK, ThreadOK, FrameOK, FieldsOK, JobOK,
         Routes, Peers, Adding, Removing, OpenPcs, ClosePcs
<1>5. ThreadOK(Reactor, th[Reactor])'
  BY <1>1, <1>3, FrameFields, ThreadsType DEF Stop, At, sessionVars,
         connVars, lockVars, IInv, TypeOK, SessionTypeOK, ThreadOK, FrameOK,
         JobOK, FieldsOK, InProxy, RemoveOK, OpenOK, Disjoint, Adding,
         Removing, OpenPcs, ClosePcs, Live, Routes, SessionsOK,
         RegisteredOK, Idle
<1>6. ASSUME NEW u \in Threads, u # Reactor PROVE ThreadOK(u, th[u])'
  <2>1. th'[u] = th[u] /\ th[u] \in Frame /\ ThreadOK(u, th[u])
    BY <1>3, <1>6 DEF IInv, TypeOK, ThreadsOK
  <2> QED
    BY <1>1, <1>6, <2>1, FrameFields, ThreadsType DEF Stop, At, sessionVars,
           connVars, lockVars, IInv, TypeOK, SessionTypeOK, ThreadOK,
           FrameOK, JobOK, FieldsOK, InProxy, RemoveOK, OpenOK, Disjoint,
           Adding, Removing, OpenPcs, ClosePcs, Live, SessionsOK, Idle
<1>7. ThreadsOK'
  BY <1>5, <1>6 DEF ThreadsOK
<1>8. RegisteredOK'
  <2>1. /\ Adding(th'[Reactor]) <=> Adding(th[Reactor])
        /\ Adding(th[Reactor]) => th'[Reactor].svr = th[Reactor].svr
    BY <1>1, <1>3 DEF Stop, At, Adding, ThreadOK, FrameOK, JobOK, OpenPcs,
           Frame, Idle
  <2>2. \A s \in Servers : BeingAdded(s)' <=> BeingAdded(s)
    <3> HIDE DEF f
    <3>1. \A u \in Threads : /\ Adding(th'[u]) <=> Adding(th[u])
                             /\ Adding(th[u]) => th'[u].svr = th[u].svr
      BY <1>3, <2>1
    <3> QED
      BY <3>1 DEF BeingAdded, Adding
  <2> QED
    BY <1>1, <2>2 DEF Stop, At, sessionVars, connVars, lockVars, IInv,
           RegisteredOK, Routed
<1>9. SessionsOK'
  BY <1>1, <1>3 DEF Stop, At, sessionVars, connVars, lockVars, IInv, TypeOK,
         SessionTypeOK, SessionsOK, ThreadOK, OpenOK, Disjoint, FrameOK,
         JobOK, FieldsOK, OpenPcs
<1> QED
  BY <1>4, <1>7, <1>8, <1>9 DEF IInv

\* The destructor going on to clear g_run: kept.
LEMMA StopThreadsStep ==
  ASSUME IInv, StopThreads
  PROVE  IInv'
<1> DEFINE f == Idle
<1>1. Reactor \in Threads /\ th[Reactor] \in Frame /\ ThreadOK(Reactor, th[Reactor])
  BY ThreadsType DEF IInv, TypeOK, ThreadsOK
<1>2. f \in Frame
  BY <1>1 DEF Frame, Pcs, Jobs, Idle
<1>3. /\ th' \in [Threads -> Frame]
      /\ th'[Reactor] = f
      /\ \A u \in Threads : u # Reactor => th'[u] = th[u]
  <2> HIDE DEF f
  <2>1. Go(Reactor, f)
    BY DEF f, StopThreads
  <2> QED
    BY <1>1, <1>2, <2>1, GoType DEF IInv, TypeOK
<1>4. TypeOK'
  BY <1>1, <1>3, ThreadsType DEF StopThreads, At, sessionVars, connVars, lockVars,
         IInv, TypeOK, SessionTypeOK, ThreadOK, FrameOK, FieldsOK, JobOK,
         Routes, Peers, Adding, Removing, OpenPcs, ClosePcs
<1>5. ThreadOK(Reactor, th[Reactor])'
  BY <1>1, <1>3, FrameFields, ThreadsType DEF StopThreads, At, sessionVars,
         connVars, lockVars, IInv, TypeOK, SessionTypeOK, ThreadOK, FrameOK,
         JobOK, FieldsOK, InProxy, RemoveOK, OpenOK, Disjoint, Adding,
         Removing, OpenPcs, ClosePcs, Live, Routes, SessionsOK,
         RegisteredOK, Idle
<1>6. ASSUME NEW u \in Threads, u # Reactor PROVE ThreadOK(u, th[u])'
  <2>1. th'[u] = th[u] /\ th[u] \in Frame /\ ThreadOK(u, th[u])
    BY <1>3, <1>6 DEF IInv, TypeOK, ThreadsOK
  <2> QED
    BY <1>1, <1>6, <2>1, FrameFields, ThreadsType DEF StopThreads, At, sessionVars,
           connVars, lockVars, IInv, TypeOK, SessionTypeOK, ThreadOK,
           FrameOK, JobOK, FieldsOK, InProxy, RemoveOK, OpenOK, Disjoint,
           Adding, Removing, OpenPcs, ClosePcs, Live, SessionsOK, Idle
<1>7. ThreadsOK'
  BY <1>5, <1>6 DEF ThreadsOK
<1>8. RegisteredOK'
  <2>1. /\ Adding(th'[Reactor]) <=> Adding(th[Reactor])
        /\ Adding(th[Reactor]) => th'[Reactor].svr = th[Reactor].svr
    BY <1>1, <1>3 DEF StopThreads, At, Adding, ThreadOK, FrameOK, JobOK, OpenPcs,
           Frame, Idle
  <2>2. \A s \in Servers : BeingAdded(s)' <=> BeingAdded(s)
    <3> HIDE DEF f
    <3>1. \A u \in Threads : /\ Adding(th'[u]) <=> Adding(th[u])
                             /\ Adding(th[u]) => th'[u].svr = th[u].svr
      BY <1>3, <2>1
    <3> QED
      BY <3>1 DEF BeingAdded, Adding
  <2> QED
    BY <1>1, <2>2 DEF StopThreads, At, sessionVars, connVars, lockVars, IInv,
           RegisteredOK, Routed
<1>9. SessionsOK'
  BY <1>1, <1>3 DEF StopThreads, At, sessionVars, connVars, lockVars, IInv, TypeOK,
         SessionTypeOK, SessionsOK, ThreadOK, OpenOK, Disjoint, FrameOK,
         JobOK, FieldsOK, OpenPcs
<1> QED
  BY <1>4, <1>7, <1>8, <1>9 DEF IInv

----------------------------------------------------------------------------
(* The invariant holds at first, and every step keeps it.                   *)

\* The strengthened invariant holds before the constructor of SVCMgr runs.
LEMMA InitInv == Init => IInv
<1> SUFFICES ASSUME Init PROVE IInv
  OBVIOUS
<1>1. TypeOK
  BY IdleFrame, InputsAssumption
     DEF Init, TypeOK, SessionInit, SessionTypeOK, Idle, Frame, Pcs, Jobs
<1>2. ThreadsOK
  BY ThreadsType DEF Init, Idle, ThreadsOK, ThreadOK, FrameOK, JobOK, FieldsOK,
     InProxy, RemoveOK, OpenOK, Adding, Removing, OpenPcs, ClosePcs
<1>3. RegisteredOK
  BY DEF Init, SessionInit, Idle, RegisteredOK, Routed, BeingAdded, Adding, OpenPcs
<1>4. SessionsOK
  BY DEF Init, SessionInit, SessionsOK
<1> QED
  BY <1>1, <1>2, <1>3, <1>4 DEF IInv

\* A step that ends the execution, or the last one repeated.
LEMMA EndStep ==
  ASSUME IInv, UNCHANGED <<sessionVars, m_mapProxy, connVars, lockVars, phase, th>>,
         fault' \in {"none", "destroyed", "uninitialised", "race"}
  PROVE  IInv'
<1>1. TypeOK'
  BY DEF IInv, TypeOK, SessionTypeOK, sessionVars, connVars, lockVars
<1>2. ThreadsOK'
  <2> SUFFICES ASSUME NEW t \in Threads PROVE ThreadOK(t, th[t])'
    BY DEF ThreadsOK
  <2>1. ThreadOK(t, th[t]) /\ th'[t] = th[t]
    BY DEF IInv, ThreadsOK
  <2> QED
    BY <2>1 DEF ThreadOK, FrameOK, JobOK, FieldsOK, InProxy, RemoveOK, OpenOK,
                Adding, Removing, Live, sessionVars, connVars, lockVars
<1>3. RegisteredOK' /\ SessionsOK'
  BY DEF IInv, RegisteredOK, SessionsOK, Routed, BeingAdded, sessionVars
<1> QED
  BY <1>1, <1>2, <1>3 DEF IInv

\* Every step of every thread keeps the strengthened invariant.
LEMMA StepInv == IInv /\ [Next]_vars => IInv'
<1> SUFFICES ASSUME IInv, [Next]_vars PROVE IInv'
  OBVIOUS
<1>1. ASSUME NEW t \in Threads, ThreadStep(t) PROVE IInv'
  <2>1. ASSUME UseDestroyed(t) PROVE IInv'
    BY <2>1, EndStep DEF UseDestroyed
  <2>2. ASSUME UseUninitialised(t) PROVE IInv'
    BY <2>2, EndStep DEF UseUninitialised
  <2> QED
    BY <1>1, <2>1, <2>2, ConnectStep, ConnectFailStep, AddConnStep, GetRemoteAddrStep,
       AddSvrConnStep, HandleCloseStep, RmConnStep, RmSvrConnStep, DestroyStep,
       CloseHandleStep, RefuseSvrStep, AddSvrStep, CloseSvrStep, InsertRouteStep,
       RmSvrStep, PruneEndStep
    DEF ThreadStep
<1>2. ASSUME ReactorStep PROVE IInv'
  BY <1>2, AcceptStep, HandleEventStep, BootEndStep, StopStep, FinalizeStep,
     StopThreadsStep
  DEF ReactorStep
<1>3. ASSUME TimerStep PROVE IInv'
  BY <1>3, ExpireStep, ReBuildStep, ReBuildSvrStep, TrimPickStep, TrimSkipStep, TrimRmStep,
     TrimEndStep, ReBuildEndStep
  DEF TimerStep
<1>4. ASSUME NEW w \in Workers, WorkerStep(w) PROVE IInv'
  <2>1. ASSUME RouteRace(w) PROVE IInv'
    BY <2>1, EndStep DEF RouteRace
  <2> QED
    BY <1>4, <2>1, UpdateRouterStep, PruneBeginStep, OnDispatchStep,
       OnDispatchToStep, OnResponseStep,
       GetSvrConnStep, NoRouteStep, GetConnStep, NoConnStep, IsExistStep,
       WriteGoneStep, WriteStep, SvcWriteStep
    DEF WorkerStep
<1>5. ASSUME UNCHANGED vars PROVE IInv'
  BY <1>5, EndStep DEF vars, IInv, TypeOK
<1> QED
  BY <1>1, <1>2, <1>3, <1>4, <1>5 DEF Next, Running, Ended

\* Every step of every thread keeps IInv: it holds in all reachable states.
THEOREM InductiveInvariant == Spec => []IInv
BY InitInv, StepInv, PTL DEF Spec

----------------------------------------------------------------------------
(* The theorems.                                                            *)

\* Every variable and every frame has its type.
THEOREM Typing == Spec => []TypeOK
<1>1. IInv => TypeOK
  BY DEF IInv
<1> QED
  BY <1>1, InductiveInvariant, PTL

\* Whoever takes the lock of ProxyMgr before finalize finds the registered
\* servers to be those of the routes, each in one route, for any number of
\* threads that update the routes while connections open and close.
THEOREM RoutesAgree == Spec => []RouteServerAgreement
<1>1. IInv => RouteServerAgreement
  <2> SUFFICES ASSUME IInv, proxyLock = None, phase \in {"boot", "run"}
               PROVE  /\ registered = RoutedServers
                      /\ \A r1, r2 \in m_mapProxy : r1[2] = r2[2] => r1 = r2
    BY DEF RouteServerAgreement
  <2>1. \A s \in Servers : ~BeingAdded(s)
    <3>1. \A u \in Threads : ~Adding(th[u])
      BY OnlyHolderAdds, ThreadsType
    <3> QED
      BY <3>1 DEF BeingAdded
  <2>2. \A s \in Servers : s \in registered <=> Routed(s)
    BY <2>1 DEF IInv, RegisteredOK
  <2>3. registered \subseteq Servers /\ m_mapProxy \subseteq Keys \X Servers
    BY DEF IInv, TypeOK, SessionTypeOK, Routes
  <2>4. registered \subseteq RoutedServers
    <3> SUFFICES ASSUME NEW s \in registered PROVE s \in RoutedServers
      OBVIOUS
    <3>1. PICK k \in Keys : <<k, s>> \in m_mapProxy
      BY <2>2, <2>3 DEF Routed
    <3> QED
      BY <3>1 DEF RoutedServers
  <2>5. RoutedServers \subseteq registered
    <3> SUFFICES ASSUME NEW r \in m_mapProxy PROVE r[2] \in registered
      BY DEF RoutedServers
    <3>1. r[1] \in Keys /\ r[2] \in Servers /\ r = <<r[1], r[2]>>
      BY <2>3
    <3> QED
      BY <2>2, <3>1 DEF Routed
  <2>6. ASSUME NEW r1 \in m_mapProxy, NEW r2 \in m_mapProxy, r1[2] = r2[2]
        PROVE  r1 = r2
    <3>1. /\ r1[1] \in Keys /\ r1[2] \in Servers /\ r1 = <<r1[1], r1[2]>>
          /\ r2[1] \in Keys /\ r2 = <<r2[1], r1[2]>>
      BY <2>3, <2>6
    <3>2. r1[1] = r2[1]
      BY <3>1 DEF IInv, RegisteredOK
    <3> QED
      BY <3>1, <3>2
  <2> QED
    BY <2>4, <2>5, <2>6
<1> QED
  BY <1>1, InductiveInvariant, PTL

\* However reBuild, updates and connections that come and go interleave, a
\* server has at most one session, when no inbound connection has its address.
THEOREM OneSession == Spec => []OneSessionPerServer
<1>1. IInv => OneSessionPerServer
  BY DEF IInv, SessionsOK, Disjoint, OneSessionPerServer
<1> QED
  BY <1>1, InductiveInvariant, PTL

----------------------------------------------------------------------------
(* What an update leaves: UInv, on top of IInv.                             *)

\* The routes a loop over routes is not done with: those to come, and the one
\* in hand.
InHand(f) == IF Adding(f) \/ Removing(f) THEN {<<f.key, f.svr>>} ELSE {}
Left(f) == f.todo \cup InHand(f)

\* While an update adds, its routes are there or still to add, if nobody else
\* removes any; while it removes, what is there is wanted or still to remove.
UpdateOK(t, f) ==
  /\ f.job = "boot" => Left(f) \subseteq InitRoutes
  /\ f.job = "update" => t \in Updaters /\ f.want \in RouterMaps
  /\ f.job = "update" /\ (f.pc = "add" \/ Adding(f)) =>
       /\ Left(f) \subseteq f.want
       /\ StableRoutes /\ Updaters = {t} => f.want \subseteq m_mapProxy \cup Left(f)
  /\ f.job = "update" /\ (f.pc = "prune" \/ Removing(f)) =>
       /\ Left(f) \cap f.want = {}
       /\ m_mapProxy \subseteq f.want \cup Left(f)
       /\ StableRoutes /\ Updaters = {t} => f.want \subseteq m_mapProxy
UpdatesOK == \A t \in Threads : UpdateOK(t, th[t])

\* Routes come from the configuration or from an update.
GivenRoutes == InitRoutes \cup UNION RouterMaps
GivenOK == m_mapProxy \subseteq GivenRoutes

\* A registered server has a route, or is about to get one, also after finalize.
KnownOK == \A s \in registered : Routed(s) \/ BeingAdded(s)

UInv == UpdatesOK /\ GivenOK /\ KnownOK

\* The new frame of t is f, and no other thread moves.
LEMMA OneMoves ==
  ASSUME IInv, NEW t \in Threads, NEW f, Go(t, f)
  PROVE  /\ th'[t] = f
         /\ \A u \in Threads : u # t => th'[u] = th[u]
BY DEF Go, IInv, TypeOK

\* A step that changes no route and registers nothing keeps UInv, if the new
\* frame is in order and a thread that was adding a server still is.
LEMMA SameRoutes ==
  ASSUME UInv, NEW t \in Threads, \A u \in Threads : u # t => th'[u] = th[u],
         m_mapProxy' = m_mapProxy, registered' \subseteq registered,
         UpdateOK(t, th'[t]),
         Adding(th[t]) => (Adding(th'[t]) /\ th'[t].svr = th[t].svr)
  PROVE  UInv'
<1>1. UpdatesOK'
  <2> SUFFICES ASSUME NEW u \in Threads PROVE UpdateOK(u, th[u])'
    BY DEF UpdatesOK
  <2>1. UpdateOK(u, th'[u])
    BY DEF UInv, UpdatesOK
  <2> QED
    BY <2>1 DEF UpdateOK, Left, InHand, Adding, Removing, StableRoutes
<1>2. GivenOK'
  BY DEF UInv, GivenOK, GivenRoutes
<1>3. KnownOK'
  <2> SUFFICES ASSUME NEW s \in registered PROVE Routed(s)' \/ BeingAdded(s)'
    BY DEF KnownOK
  <2>1. Routed(s) => Routed(s)'
    BY DEF Routed
  <2>2. ASSUME NEW u \in Threads, Adding(th[u]), th[u].svr = s
        PROVE  Adding(th'[u]) /\ th'[u].svr = s
    BY <2>2
  <2>3. BeingAdded(s) => BeingAdded(s)'
    BY <2>2 DEF BeingAdded, Adding
  <2> QED
    BY <2>1, <2>3 DEF UInv, KnownOK
<1> QED
  BY <1>1, <1>2, <1>3 DEF UInv

\* A thread that has no route in hand to add goes on outside of an addition.
LEMMA OtherLoop ==
  ASSUME IInv, UInv, NEW t \in Threads, NEW f, Go(t, f),
         m_mapProxy' = m_mapProxy, registered' \subseteq registered,
         ~Adding(th[t]), f.job \notin {"boot", "update"}
  PROVE  UInv'
<1>1. th'[t] = f /\ \A u \in Threads : u # t => th'[u] = th[u]
  BY OneMoves
<1>2. UpdateOK(t, f)
  BY DEF UpdateOK
<1> QED
  BY <1>1, <1>2, SameRoutes

\* A thread goes on with the route it has in hand.
LEMMA SameRoute ==
  ASSUME IInv, UInv, NEW t \in Threads, NEW f, Go(t, f),
         m_mapProxy' = m_mapProxy, registered' = registered,
         f.job = th[t].job, f.key = th[t].key, f.svr = th[t].svr,
         f.todo = th[t].todo, f.want = th[t].want,
         \/ Adding(th[t]) /\ Adding(f)
         \/ Removing(th[t]) /\ Removing(f)
         \/ f.job \notin {"boot", "update"}
  PROVE  UInv'
<1>1. th'[t] = f /\ \A u \in Threads : u # t => th'[u] = th[u]
  BY OneMoves
<1>2. UpdateOK(t, th[t])
  BY DEF UInv, UpdatesOK
<1>3. UpdateOK(t, f)
  BY <1>2 DEF UpdateOK, Left, InHand, Adding, Removing, OpenPcs, ClosePcs
<1>4. Adding(th[t]) => Adding(f) /\ f.svr = th[t].svr
  BY DEF Adding, Removing, OpenPcs, ClosePcs
<1> QED
  BY <1>1, <1>3, <1>4, SameRoutes

\* Opening and closing connections leaves the routes and what is in hand alone.
LEMMA ConnStepsU ==
  ASSUME IInv, UInv, NEW t \in Threads
  PROVE  /\ (\E o \in Svcs, h \in Handles : Connect(t, o, h)) => UInv'
         /\ ConnectFail(t) => UInv'
         /\ AddConn(t) => UInv'
         /\ GetRemoteAddr(t) => UInv'
         /\ AddSvrConn(t) => UInv'
         /\ HandleClose(t) => UInv'
         /\ RmConn(t) => UInv'
         /\ RmSvrConn(t) => UInv'
         /\ Destroy(t) => UInv'
         /\ (\E h \in Handles : CloseHandle(t, h)) => UInv'
<1>1. th[t] \in Frame /\ FrameOK(t, th[t])
  BY DEF IInv, TypeOK, ThreadsOK, ThreadOK
<1>2. ASSUME NEW o \in Svcs, NEW h \in Handles, Connect(t, o, h) PROVE UInv'
  <2> DEFINE f == [th[t] EXCEPT !.pc = "open", !.obj = o]
  <2>1. Go(t, f) /\ m_mapProxy' = m_mapProxy /\ registered' = registered
    BY <1>2 DEF Connect, sessionVars
  <2>2. /\ f.job = th[t].job /\ f.key = th[t].key /\ f.svr = th[t].svr
        /\ f.todo = th[t].todo /\ f.want = th[t].want
        /\ \/ Adding(th[t]) /\ Adding(f)
           \/ f.job \notin {"boot", "update"}
    BY <1>1, <1>2 DEF Connect, At, Frame, FrameOK, JobOK, Adding, OpenPcs
  <2> HIDE DEF f
  <2> QED
    BY <2>1, <2>2, SameRoute
<1>3. ASSUME th[t].pc \in {"connect", "addsvr"}, Go(t, AfterOpen(t)),
             m_mapProxy' = m_mapProxy, registered' = registered
      PROVE  UInv'
  <2> DEFINE f == AfterOpen(t)
  <2>1. CASE th[t].job \in {"boot", "update"}
    <3>1. /\ f.job = th[t].job /\ f.key = th[t].key /\ f.svr = th[t].svr
          /\ f.todo = th[t].todo /\ f.want = th[t].want
          /\ Adding(th[t]) /\ Adding(f)
      BY <1>1, <1>3, <2>1 DEF AfterOpen, Frame, Adding, OpenPcs
    <3> HIDE DEF f
    <3>2. Go(t, f)
      BY <1>3 DEF f
    <3> QED
      BY <1>3, <3>1, <3>2, SameRoute
  <2>2. CASE th[t].job \in {"accept", "rebuild"}
    <3>1. ~Adding(th[t]) /\ f.job \notin {"boot", "update"}
      BY <1>1, <2>2 DEF AfterOpen, Frame, Adding, OpenPcs, Idle
    <3> HIDE DEF f
    <3>2. Go(t, f)
      BY <1>3 DEF f
    <3> QED
      BY <1>3, <3>1, <3>2, OtherLoop
  <2> QED
    BY <1>1, <1>3, <2>1, <2>2 DEF FrameOK, JobOK, OpenPcs
<1>4. ConnectFail(t) => UInv'
  BY <1>3 DEF ConnectFail, Move, At, sessionVars
<1>5. AddSvrConn(t) => UInv'
  BY <1>3 DEF AddSvrConn, addSvrConn, At
<1>6. ASSUME NEW f, Go(t, f), m_mapProxy' = m_mapProxy, registered' = registered,
             /\ f.job = th[t].job /\ f.key = th[t].key /\ f.svr = th[t].svr
             /\ f.todo = th[t].todo /\ f.want = th[t].want,
             \/ th[t].pc \in OpenPcs /\ f.pc \in OpenPcs
             \/ /\ th[t].pc \in ClosePcs \cup {"closesvr"}
                /\ f.pc \in ClosePcs \cup {"closesvr"}
      PROVE  UInv'
  <2>1. \/ Adding(th[t]) /\ Adding(f)
        \/ Removing(th[t]) /\ Removing(f)
        \/ f.job \notin {"boot", "update"}
    BY <1>1, <1>6 DEF FrameOK, JobOK, Adding, Removing, OpenPcs, ClosePcs
  <2> QED
    BY <1>6, <2>1, SameRoute
<1>7. ASSUME AddConn(t) PROVE UInv'
  BY <1>1, <1>6, <1>7 DEF AddConn, At, Frame, sessionVars, OpenPcs
<1>8. ASSUME GetRemoteAddr(t) PROVE UInv'
  BY <1>1, <1>6, <1>8 DEF GetRemoteAddr, Move, At, Frame, sessionVars, OpenPcs
<1>9. ASSUME HandleClose(t) PROVE UInv'
  BY <1>1, <1>6, <1>9 DEF HandleClose, Move, At, Frame, sessionVars, ClosePcs
<1>10. ASSUME RmConn(t) PROVE UInv'
  BY <1>1, <1>6, <1>10 DEF RmConn, At, Frame, sessionVars, ClosePcs
<1>11. ASSUME RmSvrConn(t) PROVE UInv'
  BY <1>1, <1>6, <1>11 DEF RmSvrConn, rmSvrConn, At, Frame, ClosePcs
<1>12. ASSUME Destroy(t) PROVE UInv'
  <2>1. CASE th[t].job = "event"
    <3>1. ~Adding(th[t]) /\ Idle.job \notin {"boot", "update"}
      BY <2>1 DEF Adding, Idle
    <3>2. Go(t, Idle) /\ m_mapProxy' = m_mapProxy /\ registered' = registered
      BY <1>12, <2>1 DEF Destroy, sessionVars
    <3> QED
      BY <3>1, <3>2, OtherLoop
  <2>2. CASE th[t].job # "event"
    BY <1>1, <1>6, <1>12, <2>2 DEF Destroy, At, Frame, sessionVars, ClosePcs
  <2> QED
    BY <2>1, <2>2
<1>13. ASSUME NEW h \in Handles, CloseHandle(t, h) PROVE UInv'
  <2>1. CASE m_mConn[h] = None
    BY <1>1, <1>6, <1>13, <2>1 DEF CloseHandle, At, Frame, sessionVars, ClosePcs
  <2>2. CASE m_mConn[h] # None
    BY <1>1, <1>6, <1>13, <2>2 DEF CloseHandle, At, Frame, sessionVars, ClosePcs
  <2> QED
    BY <2>1, <2>2
<1> QED
  BY <1>2, <1>4, <1>5, <1>7, <1>8, <1>9, <1>10, <1>11, <1>12, <1>13

\* updateProxy, addSvr, finalize: what a step does to the routes in hand.
LEMMA RouteStepsU ==
  ASSUME IInv, UInv
  PROVE  /\ \A w \in Updaters, m \in RouterMaps : UpdateRouter(w, m) => UInv'
         /\ \A t \in Threads, r \in Routes : RefuseSvr(t, r) => UInv'
         /\ \A t \in Threads, r \in Routes : AddSvr(t, r) => UInv'
         /\ \A t \in Threads, r \in Routes : CloseSvr(t, r) => UInv'
         /\ \A w \in Workers : PruneBegin(w) => UInv'
         /\ \A t \in Threads : PruneEnd(t) => UInv'
<1>1. ASSUME NEW t \in Threads
      PROVE  th[t] \in Frame /\ FrameOK(t, th[t]) /\ UpdateOK(t, th[t])
  BY DEF IInv, TypeOK, ThreadsOK, ThreadOK, UInv, UpdatesOK
<1>2. ASSUME NEW w \in Updaters, NEW m \in RouterMaps, UpdateRouter(w, m)
      PROVE  UInv'
  <2> DEFINE f == [Idle EXCEPT !.pc = "add", !.job = "update", !.todo = m, !.want = m]
  <2>1. w \in Threads /\ ~Adding(th[w])
    BY <1>1, <1>2, InputsAssumption, ThreadsType
       DEF UpdateRouter, At, FrameOK, JobOK, Adding
  <2>2. UpdateOK(w, f)
    BY <1>2 DEF Idle, UpdateOK, Left, InHand, Adding, Removing, OpenPcs, ClosePcs
  <2> HIDE DEF f
  <2>3. Go(w, f) /\ m_mapProxy' = m_mapProxy /\ registered' = registered
    BY <1>2 DEF f, UpdateRouter, Move, sessionVars
  <2> QED
    BY <2>1, <2>2, <2>3, OneMoves, SameRoutes
<1>3. ASSUME NEW t \in Threads, NEW r \in Routes, RefuseSvr(t, r) PROVE UInv'
  <2> DEFINE f == [th[t] EXCEPT !.todo = @ \ {r}]
  <2>1. /\ f.pc = "add" /\ f.job = th[t].job /\ f.want = th[t].want
        /\ ~Adding(th[t]) /\ ~Removing(th[t]) /\ ~Adding(f) /\ ~Removing(f)
        /\ f.todo = th[t].todo \ {r} /\ th[t].pc = "add"
    BY <1>1, <1>3 DEF RefuseSvr, At, Frame, Adding, Removing, OpenPcs, ClosePcs
  <2> HIDE DEF f
  <2>2. Go(t, f) /\ m_mapProxy' = m_mapProxy /\ registered' = registered
    BY <1>3 DEF f, RefuseSvr, Move, sessionVars
  <2>3. ASSUME th[t].job = "update", StableRoutes PROVE r \in m_mapProxy
    <3>1. CASE r \in m_mapProxy
      BY <3>1
    <3>2. CASE isSvrExist(r[2])
      <4>1. \A u \in Threads : ~Adding(th[u])
        BY <1>3, OnlyHolderAdds, ThreadsType DEF RefuseSvr
      <4>2. PICK k \in Keys : <<k, r[2]>> \in m_mapProxy
        BY <3>2, <4>1 DEF isSvrExist, UInv, KnownOK, BeingAdded, Routed
      <4>3. r \in GivenRoutes
        BY <1>1, <1>3, <2>1, <2>3 DEF RefuseSvr, UpdateOK, Left, GivenRoutes
      <4>4. <<k, r[2]>> \in GivenRoutes
        BY <4>2 DEF UInv, GivenOK
      <4>5. r = <<k, r[2]>>
        BY <2>3, <4>3, <4>4 DEF StableRoutes, GivenRoutes
      <4> QED
        BY <4>2, <4>5
    <3> QED
      BY <1>3, <3>1, <3>2 DEF RefuseSvr
  <2>4. UpdateOK(t, f)
    BY <1>1, <2>1, <2>3 DEF UpdateOK, Left, InHand
  <2> QED
    BY <2>1, <2>2, <2>4, OneMoves, SameRoutes
<1>4. ASSUME NEW t \in Threads, NEW r \in Routes, AddSvr(t, r) PROVE UInv'
  <2> DEFINE f == [th[t] EXCEPT !.pc = "connect", !.key = r[1], !.svr = r[2],
                                !.todo = @ \ {r}]
  <2>1. /\ f.job = th[t].job /\ f.want = th[t].want /\ f.pc = "connect"
        /\ f.key = r[1] /\ f.svr = r[2]
        /\ f.todo = th[t].todo \ {r} /\ th[t].pc = "add"
    BY <1>1, <1>4 DEF AddSvr, At, Frame, Routes
  <2>2. Adding(f) /\ ~Removing(f) /\ ~Adding(th[t]) /\ ~Removing(th[t])
    BY <1>1, <2>1 DEF FrameOK, JobOK, Adding, Removing, OpenPcs, ClosePcs
  <2> HIDE DEF f
  <2>3. Left(f) = Left(th[t])
    <3>1. r = <<r[1], r[2]>> /\ r \in th[t].todo
      BY <1>4 DEF Routes, AddSvr
    <3> QED
      BY <2>1, <2>2, <3>1 DEF Left, InHand
  <2>4. UpdateOK(t, f)
    BY <1>1, <2>1, <2>2, <2>3 DEF UpdateOK
  <2>5. /\ th'[t] = f
        /\ \A u \in Threads : u # t => th'[u] = th[u]
    BY <1>4, OneMoves DEF AddSvr, f
  <2>6. m_mapProxy' = m_mapProxy /\ registered' = registered \cup {r[2]}
    BY <1>4 DEF AddSvr, addSvr
  <2>7. UpdatesOK'
    <3> SUFFICES ASSUME NEW u \in Threads PROVE UpdateOK(u, th[u])'
      BY DEF UpdatesOK
    <3>1. UpdateOK(u, th'[u])
      BY <1>1, <2>4, <2>5
    <3> QED
      BY <2>6, <3>1 DEF UpdateOK, Left, InHand, Adding, Removing, StableRoutes
  <2>8. GivenOK'
    BY <2>6 DEF UInv, GivenOK, GivenRoutes
  <2>9. KnownOK'
    <3> SUFFICES ASSUME NEW s \in registered' PROVE Routed(s)' \/ BeingAdded(s)'
      BY DEF KnownOK
    <3>1. CASE s = r[2]
      BY <2>1, <2>2, <2>5, <3>1 DEF BeingAdded, Adding
    <3>2. CASE s \in registered
      <4>1. \A u \in Threads : ~Adding(th[u])
        BY <1>4, OnlyHolderAdds, ThreadsType DEF AddSvr
      <4>2. Routed(s)
        BY <3>2, <4>1 DEF UInv, KnownOK, BeingAdded
      <4> QED
        BY <2>6, <4>2 DEF Routed
    <3> QED
      BY <2>6, <3>1, <3>2
  <2> QED
    BY <2>7, <2>8, <2>9 DEF UInv
<1>5. ASSUME NEW t \in Threads, NEW r \in Routes, CloseSvr(t, r) PROVE UInv'
  <2> DEFINE f == [th[t] EXCEPT !.pc = "closesvr", !.key = r[1], !.svr = r[2],
                                !.todo = @ \ {r}, !.hset = sessions[r[2]]]
  <2>1. /\ f.job = th[t].job /\ f.want = th[t].want /\ f.pc = "closesvr"
        /\ f.key = r[1] /\ f.svr = r[2]
        /\ f.todo = th[t].todo \ {r} /\ th[t].pc = "prune"
    BY <1>1, <1>5 DEF CloseSvr, At, Frame, Routes
  <2>2. /\ ~Adding(f) /\ ~Adding(th[t]) /\ ~Removing(th[t])
        /\ f.job = "update" => Removing(f)
        /\ f.job # "boot"
    BY <1>1, <2>1 DEF FrameOK, JobOK, Adding, Removing, OpenPcs, ClosePcs
  <2> HIDE DEF f
  <2>3. f.job = "update" => Left(f) = Left(th[t])
    <3>1. r = <<r[1], r[2]>> /\ r \in th[t].todo
      BY <1>5 DEF Routes, CloseSvr
    <3> QED
      BY <2>1, <2>2, <3>1 DEF Left, InHand
  <2>4. UpdateOK(t, f)
    BY <1>1, <2>1, <2>2, <2>3 DEF UpdateOK
  <2>5. Go(t, f) /\ m_mapProxy' = m_mapProxy /\ registered' = registered
    BY <1>5 DEF f, CloseSvr, Move, sessionVars
  <2> QED
    BY <2>2, <2>4, <2>5, OneMoves, SameRoutes
<1>6. ASSUME NEW w \in Workers, PruneBegin(w) PROVE UInv'
  <2> DEFINE f == [th[w] EXCEPT !.pc = "prune", !.todo = m_mapProxy \ th[w].want]
  <2>1. /\ w \in Threads
        /\ f.job = "update" /\ f.want = th[w].want /\ f.pc = "prune"
        /\ f.todo = m_mapProxy \ th[w].want
        /\ th[w].pc = "add" /\ th[w].job = "update" /\ th[w].todo = {}
    BY <1>1, <1>6, ThreadsType DEF PruneBegin, At, Frame
  <2>2. ~Adding(f) /\ ~Removing(f) /\ ~Adding(th[w]) /\ ~Removing(th[w])
    BY <2>1 DEF Adding, Removing, OpenPcs, ClosePcs
  <2> HIDE DEF f
  <2>3. UpdateOK(w, f)
    BY <1>1, <2>1, <2>2 DEF UpdateOK, Left, InHand
  <2>4. Go(w, f) /\ m_mapProxy' = m_mapProxy /\ registered' = registered
    BY <1>6 DEF f, PruneBegin, sessionVars
  <2> QED
    BY <2>1, <2>2, <2>3, <2>4, OneMoves, SameRoutes
<1>7. ASSUME NEW t \in Threads, PruneEnd(t) PROVE UInv'
  <2> DEFINE f == IF th[t].job = "finalize"
                    THEN [Idle EXCEPT !.pc = "ending", !.job = "finalize"] ELSE Idle
  <2>1. ~Adding(th[t]) /\ f.job \notin {"boot", "update"}
    BY <1>7 DEF PruneEnd, At, Adding, OpenPcs, Idle
  <2> HIDE DEF f
  <2>2. Go(t, f) /\ m_mapProxy' = m_mapProxy /\ registered' = registered
    BY <1>7 DEF f, PruneEnd, sessionVars
  <2> QED
    BY <2>1, <2>2, OtherLoop
<1> QED
  BY <1>2, <1>3, <1>4, <1>5, <1>6, <1>7

\* The route of a server that was added is inserted.
LEMMA InsertRouteU ==
  ASSUME IInv, UInv, NEW t \in Threads, InsertRoute(t)
  PROVE  UInv'
<1> DEFINE f == [th[t] EXCEPT !.pc = "add", !.key = None, !.svr = None]
           r == <<th[t].key, th[t].svr>>
<1>1. th[t] \in Frame /\ ThreadOK(t, th[t]) /\ UpdateOK(t, th[t])
  BY DEF IInv, TypeOK, ThreadsOK, UInv, UpdatesOK
<1>2. /\ f.job = th[t].job /\ f.want = th[t].want /\ f.pc = "add"
      /\ f.todo = th[t].todo /\ th[t].pc = "insert"
  BY <1>1 DEF InsertRoute, At, Frame
<1>3. /\ Adding(th[t]) /\ ~Removing(th[t]) /\ ~Adding(f) /\ ~Removing(f)
      /\ th[t].job \in {"boot", "update"} /\ proxyLock = t
  BY <1>1, <1>2 DEF ThreadOK, FrameOK, JobOK, InProxy, Adding, Removing, OpenPcs,
         ClosePcs
<1>4. /\ th'[t] = f
      /\ \A u \in Threads : u # t => th'[u] = th[u]
  BY OneMoves DEF InsertRoute
<1> HIDE DEF f
<1>5. m_mapProxy' = m_mapProxy \cup {r} /\ registered' = registered
  BY DEF InsertRoute, sessionVars
<1>6. Left(th[t]) = Left(f) \cup {r}
  BY <1>2, <1>3 DEF Left, InHand
<1> HIDE DEF r
<1>7. UpdateOK(t, th[t])'
  BY <1>1, <1>2, <1>3, <1>4, <1>5, <1>6
     DEF UpdateOK, Left, InHand, Adding, Removing, StableRoutes
<1>8. ASSUME NEW u \in Threads, u # t PROVE UpdateOK(u, th[u])'
  <2>1. UpdateOK(u, th[u]) /\ ThreadOK(u, th[u]) /\ th'[u] = th[u]
    BY <1>4, <1>8 DEF UInv, UpdatesOK, IInv, ThreadsOK
  <2>2. th[u].job = "update" => ~(th[u].pc = "prune" \/ Removing(th[u]))
    BY <1>3, <1>8, <2>1 DEF ThreadOK, InProxy, Removing
  <2> QED
    BY <1>5, <2>1, <2>2 DEF UpdateOK, Left, InHand, Adding, Removing, StableRoutes
<1>9. UpdatesOK'
  BY <1>4, <1>7, <1>8 DEF UpdatesOK
<1>10. GivenOK'
  BY <1>1, <1>3, <1>5, <1>6 DEF UInv, GivenOK, GivenRoutes, UpdateOK
<1>11. KnownOK'
  <2> SUFFICES ASSUME NEW s \in registered PROVE Routed(s)'
    BY <1>5 DEF KnownOK
  <2>1. CASE Routed(s)
    BY <1>5, <2>1 DEF Routed
  <2>2. CASE BeingAdded(s)
    <3>1. s = th[t].svr
      BY <1>3, <2>2, OnlyHolderAdds DEF BeingAdded
    <3> QED
      BY <1>1, <1>3, <1>5, <3>1 DEF r, Routed, ThreadOK, FrameOK, FieldsOK
  <2> QED
    BY <2>1, <2>2 DEF UInv, KnownOK
<1> QED
  BY <1>9, <1>10, <1>11 DEF UInv

\* A server is removed, and, but for finalize, the route to it.
LEMMA RmSvrU ==
  ASSUME IInv, UInv, NEW t \in Threads, RmSvr(t)
  PROVE  UInv'
<1> DEFINE f == [th[t] EXCEPT !.pc = "prune", !.key = None, !.svr = None]
           r == <<th[t].key, th[t].svr>>
<1>1. th[t] \in Frame /\ ThreadOK(t, th[t]) /\ UpdateOK(t, th[t])
  BY DEF IInv, TypeOK, ThreadsOK, UInv, UpdatesOK
<1>2. /\ f.job = th[t].job /\ f.want = th[t].want /\ f.pc = "prune"
      /\ f.todo = th[t].todo /\ th[t].pc = "closesvr"
  BY <1>1 DEF RmSvr, At, Frame
<1>3. /\ ~Adding(th[t]) /\ ~Adding(f) /\ ~Removing(f) /\ proxyLock = t
      /\ th[t].job \in {"update", "finalize"}
      /\ th[t].job = "update" => Removing(th[t])
  BY <1>1, <1>2 DEF ThreadOK, FrameOK, JobOK, InProxy, Adding, Removing, OpenPcs,
         ClosePcs
<1>4. /\ th'[t] = f
      /\ \A u \in Threads : u # t => th'[u] = th[u]
  BY OneMoves DEF RmSvr
<1> HIDE DEF f
<1>5. /\ registered' = registered \ {th[t].svr}
      /\ m_mapProxy' = IF th[t].job = "finalize" THEN m_mapProxy
                       ELSE m_mapProxy \ {r}
  BY DEF RmSvr, rmSvr
<1>6. th[t].job = "update" => Left(th[t]) = Left(f) \cup {r}
  BY <1>2, <1>3 DEF Left, InHand
<1>7. th[t].job = "update" => r \notin th[t].want
  BY <1>1, <1>3, <1>6 DEF UpdateOK
<1>8. UpdateOK(t, th[t])'
  <2>1. CASE th[t].job = "update"
    <3>1. m_mapProxy' = m_mapProxy \ {r}
      BY <1>5, <2>1
    <3> HIDE DEF r
    <3> QED
      BY <1>1, <1>2, <1>3, <1>4, <1>6, <1>7, <2>1, <3>1
         DEF UpdateOK, Left, InHand, Adding, Removing, StableRoutes
  <2>2. CASE th[t].job = "finalize"
    BY <1>2, <1>4, <2>2 DEF UpdateOK
  <2> QED
    BY <1>3, <2>1, <2>2
<1>9. ASSUME NEW u \in Threads, u # t PROVE UpdateOK(u, th[u])'
  <2>1. UpdateOK(u, th[u]) /\ ThreadOK(u, th[u]) /\ th'[u] = th[u]
    BY <1>4, <1>9 DEF UInv, UpdatesOK, IInv, ThreadsOK
  <2>2. th[u].job = "update" => ~(th[u].pc = "prune" \/ Removing(th[u]))
    BY <1>3, <1>9, <2>1 DEF ThreadOK, InProxy, Removing
  <2>3. Updaters = {u} => m_mapProxy' = m_mapProxy
    <3>1. th[t].job = "update" => t \in Updaters
      BY <1>1 DEF UpdateOK
    <3> QED
      BY <1>3, <1>5, <1>9, <3>1
  <2> QED
    BY <2>1, <2>2, <2>3 DEF UpdateOK, Left, InHand, Adding, Removing, StableRoutes
<1>10. UpdatesOK'
  BY <1>4, <1>8, <1>9 DEF UpdatesOK
<1>11. GivenOK'
  BY <1>5 DEF UInv, GivenOK, GivenRoutes
<1>12. KnownOK'
  <2> SUFFICES ASSUME NEW s \in registered, s # th[t].svr PROVE Routed(s)'
    BY <1>5 DEF KnownOK
  <2>1. ~BeingAdded(s)
    BY <1>3, OnlyHolderAdds DEF BeingAdded
  <2>2. PICK k \in Keys : <<k, s>> \in m_mapProxy
    BY <2>1 DEF UInv, KnownOK, Routed
  <2> QED
    BY <1>5, <2>2 DEF Routed
<1> QED
  BY <1>10, <1>11, <1>12 DEF UInv

\* What the reactor, the timer thread and the other calls of the application do
\* leaves the routes alone.
LEMMA OtherStepsU ==
  ASSUME IInv, UInv
  PROVE  /\ ReactorStep => UInv'
         /\ TimerStep => UInv'
         /\ \A w \in Workers : WorkerStep(w) => UInv'
<1>1. ASSUME NEW t \in Threads
      PROVE  th[t] \in Frame /\ FrameOK(t, th[t])
  BY DEF IInv, TypeOK, ThreadsOK, ThreadOK
<1>2. ASSUME NEW t \in Threads, NEW f, Go(t, f),
             m_mapProxy' = m_mapProxy, registered' = registered,
             th[t].pc \notin OpenPcs \cup {"connect", "insert"},
             f.job \notin {"boot", "update"}
      PROVE  UInv'
  BY <1>2, OtherLoop DEF Adding
<1>3. ReactorStep => UInv'
  <2>1. ASSUME NEW o \in Svcs, NEW h \in Handles, NEW c \in Clients, Accept(o, h, c) PROVE UInv'
    BY <1>1, <1>2, <2>1, ThreadsType
       DEF Accept, Move, At, Idle, Frame, FrameOK, JobOK, OpenPcs, sessionVars
  <2>2. ASSUME NEW o \in Svcs, HandleEvent(o) PROVE UInv'
    BY <1>1, <1>2, <2>2, ThreadsType
       DEF HandleEvent, Move, At, Idle, Frame, FrameOK, JobOK, OpenPcs, sessionVars
  <2>3. ASSUME BootEnd PROVE UInv'
    BY <1>1, <1>2, <2>3, ThreadsType
       DEF BootEnd, Move, At, Idle, Frame, FrameOK, JobOK, OpenPcs, sessionVars
  <2>4. ASSUME Stop PROVE UInv'
    BY <1>1, <1>2, <2>4, ThreadsType
       DEF Stop, Move, At, Idle, Frame, FrameOK, JobOK, OpenPcs, sessionVars
  <2>5. ASSUME Finalize PROVE UInv'
    BY <1>1, <1>2, <2>5, ThreadsType
       DEF Finalize, Move, At, Idle, Frame, FrameOK, JobOK, OpenPcs, sessionVars
  <2>6. ASSUME StopThreads PROVE UInv'
    BY <1>1, <1>2, <2>6, ThreadsType
       DEF StopThreads, Move, At, Idle, Frame, FrameOK, JobOK, OpenPcs, sessionVars
  <2> QED
    BY <2>1, <2>2, <2>3, <2>4, <2>5, <2>6 DEF ReactorStep
<1>4. TimerStep => UInv'
  <2>1. ASSUME Expire PROVE UInv'
    BY <1>1, <1>2, <2>1, ThreadsType
       DEF Expire, Move, At, Idle, Frame, FrameOK, JobOK, OpenPcs, sessionVars
  <2>2. ASSUME ReBuild PROVE UInv'
    BY <1>1, <1>2, <2>2, ThreadsType
       DEF ReBuild, Move, At, Idle, Frame, FrameOK, JobOK, OpenPcs, sessionVars
  <2>3. ASSUME NEW h \in Handles, TrimPick(h) PROVE UInv'
    BY <1>1, <1>2, <2>3, ThreadsType
       DEF TrimPick, Move, At, Idle, Frame, FrameOK, JobOK, OpenPcs, sessionVars
  <2>4. ASSUME TrimSkip PROVE UInv'
    BY <1>1, <1>2, <2>4, ThreadsType
       DEF TrimSkip, Move, At, Idle, Frame, FrameOK, JobOK, OpenPcs, sessionVars
  <2>5. ASSUME TrimRm PROVE UInv'
    BY <1>1, <1>2, <2>5, ThreadsType
       DEF TrimRm, rmSvrConn, Move, At, Idle, Frame, FrameOK, JobOK, OpenPcs, sessionVars
  <2>6. ASSUME TrimEnd PROVE UInv'
    BY <1>1, <1>2, <2>6, ThreadsType
       DEF TrimEnd, Move, At, Idle, Frame, FrameOK, JobOK, OpenPcs, sessionVars
  <2>7. ASSUME ReBuildEnd PROVE UInv'
    BY <1>1, <1>2, <2>7, ThreadsType
       DEF ReBuildEnd, Move, At, Idle, Frame, FrameOK, JobOK, OpenPcs, sessionVars
  <2>8. ASSUME NEW r \in Routes, ReBuildSvr(r) PROVE UInv'
    <3> DEFINE f == [th[Timer] EXCEPT !.todo = @ \ {r}]
               g == [f EXCEPT !.key = r[1], !.svr = r[2]]
               n == getHandleNum(r[2])
               e == CASE n = 0         -> [g EXCEPT !.pc = "connect"]
                      [] n > KeepConns -> [g EXCEPT !.pc = "trim",
                                                    !.excess = n - KeepConns]
                      [] OTHER         -> f
    <3>1. th[Timer].pc = "rebuild" /\ th[Timer].job = "rebuild" /\ th[Timer] \in Frame
      BY <1>1, <2>8, ThreadsType DEF ReBuildSvr, At, FrameOK, JobOK
    <3>2. f.job = "rebuild" /\ g.job = "rebuild"
      BY <3>1 DEF Frame
    <3>3. e.job = "rebuild"
      BY <3>1, <3>2 DEF Frame
    <3>4. Go(Timer, e) /\ m_mapProxy' = m_mapProxy /\ registered' = registered
      BY <2>8 DEF ReBuildSvr, Move, sessionVars
    <3> HIDE DEF e
    <3> QED
      BY <1>2, <3>1, <3>3, <3>4, ThreadsType DEF OpenPcs
  <2> QED
    BY <2>1, <2>2, <2>3, <2>4, <2>5, <2>6, <2>7, <2>8 DEF TimerStep
<1>5. ASSUME NEW w \in Workers, WorkerStep(w) PROVE UInv'
  <2>1. ASSUME NEW k \in DispatchKeys, OnDispatch(w, k) PROVE UInv'
    BY <1>1, <1>2, <2>1, ThreadsType
       DEF OnDispatch, Move, At, Idle, Frame, FrameOK, JobOK, OpenPcs, sessionVars
  <2>2. ASSUME NEW s \in DispatchServers, OnDispatchTo(w, s) PROVE UInv'
    BY <1>1, <1>2, <2>2, ThreadsType
       DEF OnDispatchTo, Move, At, Idle, Frame, FrameOK, JobOK, OpenPcs, sessionVars
  <2>3. ASSUME NEW h \in ReplyHandles, OnResponse(w, h) PROVE UInv'
    BY <1>1, <1>2, <2>3, ThreadsType
       DEF OnResponse, Move, At, Idle, Frame, FrameOK, JobOK, OpenPcs, sessionVars
  <2>4. ASSUME NEW s \in Servers, GetSvrConn(w, s) PROVE UInv'
    <3> DEFINE f == [th[w] EXCEPT !.pc = "getconn", !.svr = s]
    <3>1. f.job = th[w].job /\ th[w].job \in {"dispatch", "reply"}
      BY <1>1, <2>4, ThreadsType DEF GetSvrConn, Move, At, Frame, FrameOK, JobOK
    <3> HIDE DEF f
    <3>2. Go(w, f) /\ m_mapProxy' = m_mapProxy /\ registered' = registered
      BY <2>4 DEF f, GetSvrConn, Move, sessionVars
    <3> QED
      BY <1>2, <3>1, <3>2, <2>4, ThreadsType DEF GetSvrConn, Move, At, OpenPcs
  <2>5. ASSUME NoRoute(w) PROVE UInv'
    BY <1>1, <1>2, <2>5, ThreadsType
       DEF NoRoute, Move, At, Idle, Frame, FrameOK, JobOK, OpenPcs, sessionVars
  <2>6. ASSUME NEW h \in Handles, GetConn(w, h) PROVE UInv'
    <3> DEFINE f == [th[w] EXCEPT !.pc = "exist", !.hnd = h]
    <3>1. f.job = th[w].job /\ th[w].job \in {"dispatch", "reply"}
      BY <1>1, <2>6, ThreadsType DEF GetConn, Move, At, Frame, FrameOK, JobOK
    <3> HIDE DEF f
    <3>2. Go(w, f) /\ m_mapProxy' = m_mapProxy /\ registered' = registered
      BY <2>6 DEF f, GetConn, Move, sessionVars
    <3> QED
      BY <1>2, <3>1, <3>2, <2>6, ThreadsType DEF GetConn, Move, At, OpenPcs
  <2>7. ASSUME NoConn(w) PROVE UInv'
    BY <1>1, <1>2, <2>7, ThreadsType
       DEF NoConn, Move, At, Idle, Frame, FrameOK, JobOK, OpenPcs, sessionVars
  <2>8. ASSUME IsExist(w) PROVE UInv'
    BY <1>1, <1>2, <2>8, ThreadsType
       DEF IsExist, Move, At, Idle, Frame, FrameOK, JobOK, OpenPcs, sessionVars
  <2>9. ASSUME WriteGone(w) PROVE UInv'
    BY <1>1, <1>2, <2>9, ThreadsType
       DEF WriteGone, Move, At, Idle, Frame, FrameOK, JobOK, OpenPcs, sessionVars
  <2>10. ASSUME Write(w) PROVE UInv'
    <3> DEFINE f == [th[w] EXCEPT !.pc = "send", !.obj = m_mConn[th[w].hnd]]
    <3>1. f.job = th[w].job /\ th[w].job \in {"dispatch", "reply"}
      BY <1>1, <2>10, ThreadsType DEF Write, Move, At, Frame, FrameOK, JobOK
    <3> HIDE DEF f
    <3>2. Go(w, f) /\ m_mapProxy' = m_mapProxy /\ registered' = registered
      BY <2>10 DEF f, Write, Move, sessionVars
    <3> QED
      BY <1>2, <3>1, <3>2, <2>10, ThreadsType DEF Write, Move, At, OpenPcs
  <2>11. ASSUME SvcWrite(w) PROVE UInv'
    BY <1>1, <1>2, <2>11, ThreadsType
       DEF SvcWrite, Move, At, Idle, Frame, FrameOK, JobOK, OpenPcs, sessionVars
  <2>12. ASSUME RouteRace(w) PROVE UInv'
    BY <2>12 DEF RouteRace, UInv, UpdatesOK, UpdateOK, Left, InHand, Adding, Removing,
       GivenOK, GivenRoutes, KnownOK, Routed, BeingAdded, StableRoutes, sessionVars
  <2> QED
    BY <1>5, <2>1, <2>2, <2>3, <2>4, <2>5, <2>6, <2>7, <2>8, <2>9, <2>10, <2>11, <2>12, RouteStepsU DEF WorkerStep
<1> QED
  BY <1>3, <1>4, <1>5

\* No route is there before the constructor of SVCMgr adds the first.
LEMMA InitU == Init => UInv
<1> SUFFICES ASSUME Init PROVE UInv
  OBVIOUS
<1>1. UpdatesOK
  BY ThreadsType DEF Init, Idle, UpdatesOK, UpdateOK, Left, InHand, Adding, Removing,
     OpenPcs, ClosePcs
<1>2. GivenOK /\ KnownOK
  BY DEF Init, SessionInit, GivenOK, KnownOK
<1> QED
  BY <1>1, <1>2 DEF UInv

\* Every step of every thread keeps UInv.
LEMMA NextU == IInv /\ UInv /\ [Next]_vars => UInv'
<1> SUFFICES ASSUME IInv, UInv, [Next]_vars PROVE UInv'
  OBVIOUS
<1>1. ASSUME UNCHANGED <<sessionVars, m_mapProxy, th>> PROVE UInv'
  BY <1>1 DEF UInv, UpdatesOK, UpdateOK, Left, InHand, Adding, Removing,
     GivenOK, GivenRoutes, KnownOK, Routed, BeingAdded, StableRoutes, sessionVars
<1>2. ASSUME NEW t \in Threads, ThreadStep(t) PROVE UInv'
  <2>1. UseDestroyed(t) \/ UseUninitialised(t) => UInv'
    BY <1>1 DEF UseDestroyed, UseUninitialised
  <2> QED
    BY <1>2, <2>1, ConnStepsU, RouteStepsU, InsertRouteU, RmSvrU DEF ThreadStep
<1>3. UNCHANGED vars => UInv'
  BY <1>1 DEF vars
<1> QED
  BY <1>2, <1>3, OtherStepsU DEF Next, Running, Ended

\* What an update has done and has left to do, in every reachable state.
THEOREM UpdateInvariant == Spec => []UInv
BY InitU, NextU, InductiveInvariant, PTL DEF Spec

\* An update is over only when its last removal is.
LEMMA UpdateEnds ==
  ASSUME IInv, [Next]_vars, NEW w \in Workers, th[w].job = "update", th'[w] = Idle
  PROVE  PruneEnd(w)
<1>1. ASSUME NEW t \in Threads
      PROVE  th[t] \in Frame /\ FrameOK(t, th[t])
  BY DEF IInv, TypeOK, ThreadsOK, ThreadOK
<1>2. /\ w \in Threads /\ w # Reactor /\ w # Timer
      /\ th[w].pc # "idle" /\ th'[w] # th[w] /\ th[w] # Idle
  BY <1>1, ThreadsType DEF FrameOK, JobOK, Idle
<1>3. ASSUME NEW t \in Threads, NEW f, Go(t, f), t # w \/ f.pc # "idle"
      PROVE  FALSE
  <2>1. th'[t] = f /\ \A u \in Threads : u # t => th'[u] = th[u]
    BY <1>3, OneMoves
  <2> QED
    BY <1>2, <1>3, <2>1 DEF Idle
<1>4. ASSUME NEW t \in Threads, ThreadStep(t) PROVE PruneEnd(w)
  <2>1. CASE t # w
    <3>1. ASSUME NEW f, Go(t, f) PROVE FALSE
      BY <1>3, <2>1, <3>1
    <3> QED
      BY <1>2, <1>4, <3>1 DEF ThreadStep, Connect, ConnectFail, AddConn, GetRemoteAddr,
         AddSvrConn, HandleClose, RmConn, RmSvrConn, Destroy, CloseHandle, RefuseSvr,
         AddSvr, CloseSvr, InsertRoute, RmSvr, PruneEnd, UseDestroyed,
         UseUninitialised, Move
  <2>2. CASE t = w
    <3>1. ASSUME NEW f, Go(w, f), f.pc # "idle" PROVE FALSE
      BY <1>2, <1>3, <3>1
    <3>2. th[w] \in Frame /\ th[w].job = "update"
      BY <1>1, <1>2
    <3>3. AfterOpen(w).pc # "idle"
      BY <3>2 DEF AfterOpen, Frame
    <3>4. ~ConnectFail(w) /\ ~AddSvrConn(w)
      BY <3>1, <3>3 DEF ConnectFail, AddSvrConn, Move
    <3>5. ~(\E o \in Svcs, h \in Handles : Connect(w, o, h))
      BY <3>1, <3>2 DEF Connect, Frame
    <3>6. ~AddConn(w) /\ ~GetRemoteAddr(w)
      BY <3>1, <3>2 DEF AddConn, GetRemoteAddr, Move, Frame
    <3>7. ~HandleClose(w) /\ ~RmConn(w) /\ ~RmSvrConn(w)
      BY <3>1, <3>2 DEF HandleClose, RmConn, RmSvrConn, Move, Frame
    <3>8. ~Destroy(w)
      BY <3>1, <3>2 DEF Destroy, Frame
    <3>9. ASSUME NEW h \in Handles, CloseHandle(w, h) PROVE FALSE
      <4>1. CASE m_mConn[h] = None
        <5>1. Go(w, [th[w] EXCEPT !.hset = @ \ {h}]) /\ th[w].pc = "closesvr"
          BY <3>9, <4>1 DEF CloseHandle, At
        <5> QED
          BY <3>1, <3>2, <5>1 DEF Frame
      <4>2. CASE m_mConn[h] # None
        BY <3>1, <3>2, <3>9, <4>2 DEF CloseHandle, Frame
      <4> QED
        BY <4>1, <4>2
    <3>10. ASSUME NEW r \in Routes PROVE ~RefuseSvr(w, r) /\ ~AddSvr(w, r) /\ ~CloseSvr(w, r)
      BY <3>1, <3>2 DEF RefuseSvr, AddSvr, CloseSvr, Move, At, Frame
    <3>11. ~InsertRoute(w) /\ ~RmSvr(w)
      BY <3>1, <3>2 DEF InsertRoute, RmSvr, Frame
    <3>12. ~UseDestroyed(w) /\ ~UseUninitialised(w)
      BY <1>2 DEF UseDestroyed, UseUninitialised
    <3> QED
      BY <1>4, <2>2, <3>4, <3>5, <3>6, <3>7, <3>8, <3>9, <3>10, <3>11, <3>12
         DEF ThreadStep
  <2> QED
    BY <2>1, <2>2
<1>5. ~ReactorStep
  <2>1. ASSUME NEW f, Go(Reactor, f) PROVE FALSE
    BY <1>2, <1>3, <2>1, ThreadsType
  <2> QED
    BY <2>1 DEF ReactorStep, Accept, HandleEvent, BootEnd, Stop, Finalize, StopThreads,
       Move
<1>6. ~TimerStep
  <2>1. ASSUME NEW f, Go(Timer, f) PROVE FALSE
    BY <1>2, <1>3, <2>1, ThreadsType
  <2>2. \A r \in Routes : ~ReBuildSvr(r)
    BY <2>1 DEF ReBuildSvr, Move
  <2> QED
    BY <2>1, <2>2 DEF TimerStep, Expire, ReBuild, TrimPick, TrimSkip, TrimRm, TrimEnd,
       ReBuildEnd, Move
<1>7. ASSUME NEW v \in Workers, WorkerStep(v) PROVE FALSE
  <2>1. v \in Threads
    BY ThreadsType
  <2>2. CASE v # w
    <3>1. ASSUME NEW f, Go(v, f) PROVE FALSE
      BY <1>3, <2>1, <2>2, <3>1
    <3> QED
      BY <1>2, <1>7, <3>1 DEF WorkerStep, UpdateRouter, PruneBegin, OnDispatch,
         OnDispatchTo, OnResponse, GetSvrConn, NoRoute, GetConn, NoConn, IsExist,
         WriteGone, Write, SvcWrite, RouteRace, Move
  <2>3. CASE v = w
    <3>1. th[w].pc \notin {"idle", "route", "getconn", "exist", "write", "send"}
      BY <1>1, <1>2 DEF FrameOK, JobOK
    <3>2. PruneBegin(w)
      BY <1>2, <1>7, <2>3, <3>1 DEF WorkerStep, UpdateRouter, OnDispatch,
         OnDispatchTo, OnResponse, GetSvrConn, NoRoute, GetConn, NoConn, IsExist,
         WriteGone, Write, SvcWrite, RouteRace, At
    <3>3. [th[w] EXCEPT !.pc = "prune", !.todo = m_mapProxy \ th[w].want].pc = "prune"
      BY <1>1, <1>2 DEF Frame
    <3> QED
      BY <1>2, <1>3, <3>2, <3>3 DEF PruneBegin
  <2> QED
    BY <2>2, <2>3
<1>8. ~UNCHANGED vars
  BY <1>2 DEF vars
<1> QED
  BY <1>4, <1>5, <1>6, <1>7, <1>8 DEF Next, Running, Ended

\* An update ends with no route but its own, for any number of threads that
\* update the routes at once; and, when only one does and no server moves to
\* another key, with all of them, whatever finalize and reBuild do meanwhile.
THEOREM UpdateLeavesItsRoutes == Spec => UpdateTakesEffect
<1> DEFINE A(w) == th[w].job = "update" /\ th'[w] = Idle =>
                     /\ m_mapProxy' \subseteq th[w].want
                     /\ Updaters = {w} /\ StableRoutes => m_mapProxy' = th[w].want
<1>1. IInv /\ UInv /\ [Next]_vars => [\A w \in Workers : A(w)]_vars
  <2> SUFFICES ASSUME IInv, UInv, [Next]_vars, NEW w \in Workers,
                      th[w].job = "update", th'[w] = Idle
               PROVE  A(w)
    OBVIOUS
  <2>1. PruneEnd(w)
    BY UpdateEnds
  <2>2. w \in Threads /\ UpdateOK(w, th[w])
    BY ThreadsType DEF UInv, UpdatesOK
  <2>3. m_mapProxy' = m_mapProxy /\ th[w].todo = {} /\ th[w].pc = "prune"
    BY <2>1 DEF PruneEnd, At
  <2>4. Left(th[w]) = {}
    BY <2>3 DEF Left, InHand, Adding, Removing, OpenPcs, ClosePcs
  <2> QED
    BY <2>2, <2>3, <2>4 DEF UpdateOK
<1> QED
  BY <1>1, InductiveInvariant, UpdateInvariant, PTL DEF Spec, UpdateTakesEffect

=============================================================================
