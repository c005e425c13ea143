----------------------------- MODULE ConnRouting -----------------------------
(***************************************************************************)
(* The core of tcp_framework: the life of a connection (DASvcHandler,      *)
(* ConnMgr), the table of back-end servers (SvrMgr, through SessionTable)  *)
(* and the routes to them (ProxyMgr), driven by three kinds of threads:    *)
(*   - Reactor: the main thread.  It builds the initial routes in the      *)
(*     constructor of SVCMgr, then runs the reactor (accept, read, close), *)
(*     then the destructor of SVCMgr;                                      *)
(*   - Timer: the timer thread, which runs ProxyMgr::reBuild every 3 s;    *)
(*   - Workers: application threads, which send requests (onDispatch),     *)
(*     send replies (onResponse) and replace the routes (onUpdateRouter).  *)
(* A step of a thread is what it does between two points where another     *)
(* thread can get in: one critical section, or one use of a handler.  The  *)
(* frame th[t] holds what the thread has read and the calls it is in.      *)
(***************************************************************************)
EXTENDS SessionTable

CONSTANTS
  Keys,         \* route keys
  Clients,      \* addresses inbound connections come from
  Svcs,         \* DASvcHandler objects, reused only once nothing names them
  Workers,      \* application threads
  Updaters,     \* those that call onUpdateRouter
  Reactor,      \* the main thread
  Timer,        \* the timer thread
  None,         \* no handle, no object, no thread (-1 or NULL in the code)
  InitRoutes,   \* the routes of the configuration file (addRemoteService)
  RouterMaps,   \* the arguments an application gives onUpdateRouter
  DispatchKeys, \* the keys an application gives onDispatch
  DispatchServers, \* the servers it gives the other onDispatch, by address
  ReplyHandles, \* the handles an application gives onResponse
  KeepConns     \* reBuild forgets the sessions above this number, 3 in the code

Threads == {Reactor, Timer} \cup Workers
Routes == Keys \X Servers
Peers == Servers \cup Clients

ASSUME ThreadsAssumption ==
  /\ Reactor # Timer
  /\ Reactor \notin Workers
  /\ Timer \notin Workers
  /\ None \notin Threads
ASSUME NoneAssumption == None \notin Keys \cup Peers \cup Handles \cup Svcs
ASSUME HandlesAssumption == IsFiniteSet(Handles)
ASSUME InputsAssumption ==
  /\ Updaters \subseteq Workers
  /\ InitRoutes \subseteq Routes
  /\ \A m \in RouterMaps : m \subseteq Routes
  /\ DispatchKeys \subseteq Keys
  /\ DispatchServers \subseteq Servers
  /\ ReplyHandles \subseteq Handles
  /\ KeepConns \in Nat \ {0}

VARIABLES
  m_mapProxy,  \* ProxyMgr::m_mapProxy, the pairs <<key, server>> of the routes
  m_mConn,     \* ConnMgr::m_mConn: handle -> handler, None when absent
  fd,          \* handler -> its descriptor, None once the object is deleted
  peer,        \* handler -> the address of its peer
  proxyLock,   \* the thread that holds ProxyMgr::m_mutex for writing
  rmutex,      \* the thread that holds ConnMgr::m_rmutex
  readers,     \* the threads that hold ConnMgr::m_mutex for reading
  phase,       \* how far main() is: boot, run, stop (destructor), end (g_run false)
  fault,       \* the undefined behaviour that ended the execution, if any
  th           \* thread -> its frame

connVars == <<m_mConn, fd, peer>>
lockVars == <<proxyLock, rmutex, readers>>
vars == <<sessionVars, m_mapProxy, connVars, lockVars, phase, fault, th>>

----------------------------------------------------------------------------
(* Frames.  pc is where the thread is, job the entry point it came from.    *)

Pcs == {"idle", "add", "connect", "open", "addr", "addsvr", "insert",
        "closing", "rmconn", "rmsvrconn", "destroy", "closesvr", "prune",
        "due", "rebuild", "trim", "trimrm", "stopping", "ending",
        "route", "getconn", "exist", "write", "send"}
Jobs == {"none", "boot", "accept", "event", "rebuild", "update", "finalize",
         "dispatch", "reply"}

Frame == [pc : Pcs, job : Jobs,
          obj : Svcs \cup {None},      \* the handler in hand
          hnd : Handles \cup {None},   \* the handle in hand
          adr : Peers \cup {None},     \* the peer address read from the handler
          key : Keys \cup {None}, svr : Servers \cup {None},  \* the route in hand
          todo : SUBSET Routes,        \* what is left of the loop over routes
          want : SUBSET Routes,        \* the argument of updateProxy
          hset : SUBSET Handles,       \* what is left of closeSvr's copy of handles
          excess : Nat]                \* what is left of reBuild's inner loop

Idle == [pc |-> "idle", job |-> "none", obj |-> None, hnd |-> None,
         adr |-> None, key |-> None, svr |-> None, todo |-> {}, want |-> {},
         hset |-> {}, excess |-> 0]

\* t goes on with frame f, unless undefined behaviour has ended the execution;
\* a Move changes nothing else.
Go(t, f) == fault = "none" /\ th' = [th EXCEPT ![t] = f]
Move(t, f) ==
  Go(t, f) /\ UNCHANGED <<sessionVars, m_mapProxy, connVars, lockVars, phase, fault>>
At(t, l) == th[t].pc = l

Live(o) == fd[o] # None
FreeHandle(h) == \A o \in Svcs : fd[o] # h
Fresh(o) == /\ ~Live(o)
            /\ \A t \in Threads : th[t].obj # o
            /\ \A h \in Handles : m_mConn[h] # o

TypeOK ==
  /\ SessionTypeOK
  /\ m_mapProxy \subseteq Routes
  /\ m_mConn \in [Handles -> Svcs \cup {None}]
  /\ fd \in [Svcs -> Handles \cup {None}]
  /\ peer \in [Svcs -> Peers \cup {None}]
  /\ proxyLock \in Threads \cup {None}
  /\ rmutex \in Threads \cup {None}
  /\ readers \subseteq Threads
  /\ phase \in {"boot", "run", "stop", "end"}
  /\ fault \in {"none", "destroyed", "uninitialised", "race"}
  /\ th \in [Threads -> Frame]

Init ==
  /\ SessionInit
  /\ m_mapProxy = {}
  /\ m_mConn = [h \in Handles |-> None]
  /\ fd = [o \in Svcs |-> None]
  /\ peer = [o \in Svcs |-> None]
  /\ proxyLock = None
  /\ rmutex = None
  /\ readers = {}
  /\ phase = "boot"
  /\ fault = "none"
  /\ th = [t \in Threads |->
             IF t = Reactor
               THEN [Idle EXCEPT !.pc = "add", !.job = "boot", !.todo = InitRoutes]
               ELSE Idle]

----------------------------------------------------------------------------
(* Opening a connection: DASvcHandler::open and ConnMgr::addConn.  The      *)
(* handler is registered with the reactor before open() goes on, so from    *)
(* the first step the reactor may close a handler another thread opens.     *)

NewSvc(t, o, h, p) ==
  /\ Fresh(o)
  /\ FreeHandle(h)
  /\ fd' = [fd EXCEPT ![o] = h]
  /\ peer' = [peer EXCEPT ![o] = p]

\* A faulty AfterOpen: it clears the route of an addition as of a rebuild.
AfterOpenForgets(t) ==
  IF th[t].job = "accept" THEN Idle
  ELSE [th[t] EXCEPT !.pc = IF th[t].job = "rebuild" THEN "rebuild" ELSE "insert",
                     !.obj = None, !.hnd = None, !.adr = None,
                     !.key = None, !.svr = None]

\* The frame of t back in the caller of connect() or of the acceptor.
AfterOpen(t) ==
  CASE th[t].job = "accept"  -> Idle
    [] th[t].job = "rebuild" -> [th[t] EXCEPT !.pc = "rebuild", !.obj = None,
                                   !.hnd = None, !.adr = None,
                                   !.key = None, !.svr = None]
    [] OTHER                 -> [th[t] EXCEPT !.pc = "insert", !.obj = None,
                                   !.hnd = None, !.adr = None]

Accept(o, h, c) ==
  /\ phase = "run"
  /\ At(Reactor, "idle")
  /\ NewSvc(Reactor, o, h, c)
  /\ Go(Reactor, [Idle EXCEPT !.pc = "open", !.job = "accept", !.obj = o])
  /\ UNCHANGED <<sessionVars, m_mapProxy, m_mConn, lockVars, phase, fault>>

Connect(t, o, h) ==
  /\ At(t, "connect")
  /\ NewSvc(t, o, h, th[t].svr)
  /\ Go(t, [th[t] EXCEPT !.pc = "open", !.obj = o])
  /\ UNCHANGED <<sessionVars, m_mapProxy, m_mConn, lockVars, phase, fault>>

ConnectFail(t) ==
  /\ At(t, "connect")
  /\ Move(t, AfterOpen(t))

\* addConn under the write guard: a handle that is present keeps its entry.
AddConn(t) ==
  LET o == th[t].obj
      h == fd[o]
  IN /\ At(t, "open")
     /\ Live(o)
     /\ readers = {}
     /\ m_mConn' = [m_mConn EXCEPT ![h] = IF @ = None THEN o ELSE @]
     /\ Go(t, [th[t] EXCEPT !.pc = "addr", !.hnd = h])
     /\ UNCHANGED <<sessionVars, m_mapProxy, fd, peer, lockVars, phase, fault>>

GetRemoteAddr(t) ==
  /\ At(t, "addr")
  /\ Live(th[t].obj)
  /\ Move(t, [th[t] EXCEPT !.pc = "addsvr", !.adr = peer[th[t].obj]])

AddSvrConn(t) ==
  /\ At(t, "addsvr")
  /\ addSvrConn(th[t].adr, th[t].hnd)
  /\ Go(t, AfterOpen(t))
  /\ UNCHANGED <<m_mapProxy, connVars, lockVars, phase, fault>>

----------------------------------------------------------------------------
(* Closing a connection: DASvcHandler::handle_close and ConnMgr::rmConn,    *)
(* by the reactor (end of stream, invalid data) or by closeSvr.             *)

HandleEvent(o) ==
  /\ phase = "run"
  /\ At(Reactor, "idle")
  /\ Live(o)
  /\ Move(Reactor, [Idle EXCEPT !.pc = "closing", !.job = "event", !.obj = o])

\* open() sets m_phead and m_peer_addr after it has registered the handler.
BeingOpened(t, o) == \E u \in Threads \ {t} : At(u, "open") /\ th[u].obj = o

\* handle_close reads the address open() has written, or is still to write.
HandleClose(t) ==
  LET o == th[t].obj
  IN /\ At(t, "closing")
     /\ Live(o)
     /\ \E a \in Peers \cup {None} :
          /\ a = peer[o] \/ BeingOpened(t, o)
          /\ Move(t, [th[t] EXCEPT !.pc = "rmconn", !.hnd = fd[o], !.adr = a])

\* A faulty RmConn: it leaves the entry of the handler.
RmConnKeeps(t) ==
  /\ At(t, "rmconn")
  /\ Move(t, [th[t] EXCEPT !.pc = "rmsvrconn"])

RmConn(t) ==
  /\ At(t, "rmconn")
  /\ rmutex \in {None, t}
  /\ readers = {}
  /\ m_mConn' = [m_mConn EXCEPT ![th[t].hnd] = None]
  /\ Go(t, [th[t] EXCEPT !.pc = "rmsvrconn"])
  /\ UNCHANGED <<sessionVars, m_mapProxy, fd, peer, lockVars, phase, fault>>

RmSvrConn(t) ==
  /\ At(t, "rmsvrconn")
  /\ rmSvrConn(th[t].adr, th[t].hnd)
  /\ Go(t, [th[t] EXCEPT !.pc = "destroy", !.hnd = None, !.adr = None])
  /\ UNCHANGED <<m_mapProxy, connVars, lockVars, phase, fault>>

\* super::handle_close deletes the object, whose destructor closes the
\* descriptor; back in ConnMgr::close the recursive mutex is released.
Destroy(t) ==
  LET o == th[t].obj
  IN /\ At(t, "destroy")
     /\ Live(o)
     /\ fd' = [fd EXCEPT ![o] = None]
     /\ peer' = [peer EXCEPT ![o] = None]
     /\ rmutex' = IF rmutex = t THEN None ELSE rmutex
     /\ Go(t, IF th[t].job = "event" THEN Idle
              ELSE [th[t] EXCEPT !.pc = "closesvr", !.obj = None])
     /\ UNCHANGED <<sessionVars, m_mapProxy, m_mConn, proxyLock, readers,
                    phase, fault>>

\* ConnMgr::close for one handle of closeSvr's copy.
CloseHandle(t, h) ==
  /\ At(t, "closesvr")
  /\ h \in th[t].hset
  /\ rmutex = None
  /\ IF m_mConn[h] = None
       THEN /\ Go(t, [th[t] EXCEPT !.hset = @ \ {h}])
            /\ UNCHANGED rmutex
       ELSE /\ Go(t, [th[t] EXCEPT !.pc = "closing", !.obj = m_mConn[h],
                                   !.hset = @ \ {h}])
            /\ rmutex' = t
  /\ UNCHANGED <<sessionVars, m_mapProxy, connVars, proxyLock, readers, phase,
                 fault>>

----------------------------------------------------------------------------
(* Routes: ProxyMgr::addSvr, updateProxy, finalize and reBuild.             *)

UpdateRouter(w, m) ==
  /\ phase \in {"run", "stop"}
  /\ At(w, "idle")
  /\ Move(w, [Idle EXCEPT !.pc = "add", !.job = "update", !.todo = m, !.want = m])

\* addSvr refuses a server that any route has: the caller ignores it.
RefuseSvr(t, r) ==
  /\ At(t, "add")
  /\ r \in th[t].todo
  /\ proxyLock = None
  /\ r \in m_mapProxy \/ isSvrExist(r[2])
  /\ Move(t, [th[t] EXCEPT !.todo = @ \ {r}])

AddSvr(t, r) ==
  /\ At(t, "add")
  /\ r \in th[t].todo
  /\ proxyLock = None
  /\ r \notin m_mapProxy
  /\ ~isSvrExist(r[2])
  /\ proxyLock' = t
  /\ addSvr(r[2])
  /\ Go(t, [th[t] EXCEPT !.pc = "connect", !.key = r[1], !.svr = r[2],
                         !.todo = @ \ {r}])
  /\ UNCHANGED <<m_mapProxy, connVars, rmutex, readers, phase, fault>>

\* addSvr after connSvr, whether the connection succeeded or not.
InsertRoute(t) ==
  /\ At(t, "insert")
  /\ m_mapProxy' = m_mapProxy \cup {<<th[t].key, th[t].svr>>}
  /\ proxyLock' = None
  /\ Go(t, [th[t] EXCEPT !.pc = "add", !.key = None, !.svr = None])
  /\ UNCHANGED <<sessionVars, connVars, rmutex, readers, phase, fault>>

\* The constructor of SVCMgr returns, and onRun starts the threads.
BootEnd ==
  /\ At(Reactor, "add")
  /\ th[Reactor].todo = {}
  /\ phase' = "run"
  /\ Go(Reactor, Idle)
  /\ UNCHANGED <<sessionVars, m_mapProxy, connVars, lockVars, fault>>

\* updateProxy takes the lock again to remove the routes not in its argument.
PruneBegin(w) ==
  /\ At(w, "add")
  /\ th[w].job = "update"
  /\ th[w].todo = {}
  /\ proxyLock = None
  /\ proxyLock' = w
  /\ Go(w, [th[w] EXCEPT !.pc = "prune", !.todo = m_mapProxy \ th[w].want])
  /\ UNCHANGED <<sessionVars, m_mapProxy, connVars, rmutex, readers, phase,
                 fault>>

\* closeSvr copies the handles of the next server to remove.
CloseSvr(t, r) ==
  /\ At(t, "prune")
  /\ r \in th[t].todo
  /\ Move(t, [th[t] EXCEPT !.pc = "closesvr", !.key = r[1], !.svr = r[2],
                           !.todo = @ \ {r}, !.hset = sessions[r[2]]])

\* A faulty RmSvr: it never removes the route.
RmSvrKeepsRoute(t) ==
  /\ At(t, "closesvr")
  /\ th[t].hset = {}
  /\ rmSvr(th[t].svr)
  /\ Go(t, [th[t] EXCEPT !.pc = "prune", !.key = None, !.svr = None])
  /\ UNCHANGED <<m_mapProxy, connVars, lockVars, phase, fault>>

\* rmSvr after closeSvr; finalize, unlike updateProxy, leaves the route.  A route
\* goes with its server, although the code erases the entry of a key that is not
\* wanted at all when the last server is closed: both happen under the lock, and
\* getSvrConn, which takes none, finds no connection either way.
RmSvr(t) ==
  /\ At(t, "closesvr")
  /\ th[t].hset = {}
  /\ rmSvr(th[t].svr)
  /\ m_mapProxy' = IF th[t].job = "finalize" THEN m_mapProxy
                   ELSE m_mapProxy \ {<<th[t].key, th[t].svr>>}
  /\ Go(t, [th[t] EXCEPT !.pc = "prune", !.key = None, !.svr = None])
  /\ UNCHANGED <<connVars, lockVars, phase, fault>>

PruneEnd(t) ==
  /\ At(t, "prune")
  /\ th[t].todo = {}
  /\ proxyLock' = None
  /\ Go(t, IF th[t].job = "finalize"
             THEN [Idle EXCEPT !.pc = "ending", !.job = "finalize"] ELSE Idle)
  /\ UNCHANGED <<sessionVars, m_mapProxy, connVars, rmutex, readers, phase,
                 fault>>

\* The reactor loop ends and the destructor of SVCMgr starts.
Stop ==
  /\ phase = "run"
  /\ At(Reactor, "idle")
  /\ phase' = "stop"
  /\ Go(Reactor, [Idle EXCEPT !.pc = "stopping", !.job = "finalize"])
  /\ UNCHANGED <<sessionVars, m_mapProxy, connVars, lockVars, fault>>

Finalize ==
  /\ At(Reactor, "stopping")
  /\ proxyLock = None
  /\ proxyLock' = Reactor
  /\ Go(Reactor, [th[Reactor] EXCEPT !.pc = "prune", !.todo = m_mapProxy])
  /\ UNCHANGED <<sessionVars, m_mapProxy, connVars, rmutex, readers, phase,
                 fault>>

\* The destructor goes on to set g_run, with the lock free since finalize.
StopThreads ==
  /\ At(Reactor, "ending")
  /\ phase' = "end"
  /\ Go(Reactor, Idle)
  /\ UNCHANGED <<sessionVars, m_mapProxy, connVars, lockVars, fault>>

----------------------------------------------------------------------------
(* ProxyMgr::reBuild, on the timer thread, which tests g_run before it and  *)
(* may wait for the lock past finalize and the end of g_run.                *)

Expire ==
  /\ phase \in {"run", "stop"}
  /\ At(Timer, "idle")
  /\ Move(Timer, [Idle EXCEPT !.pc = "due", !.job = "rebuild"])

ReBuild ==
  /\ At(Timer, "due")
  /\ proxyLock = None
  /\ proxyLock' = Timer
  /\ Go(Timer, [Idle EXCEPT !.pc = "rebuild", !.job = "rebuild",
                            !.todo = m_mapProxy])
  /\ UNCHANGED <<sessionVars, m_mapProxy, connVars, rmutex, readers, phase,
                 fault>>

\* The next server of the loop: connect to it, trim it, or leave it alone.
ReBuildSvr(r) ==
  LET f == [th[Timer] EXCEPT !.todo = @ \ {r}]
      g == [f EXCEPT !.key = r[1], !.svr = r[2]]
      n == getHandleNum(r[2])
  IN /\ At(Timer, "rebuild")
     /\ r \in th[Timer].todo
     /\ Move(Timer, CASE n = 0         -> [g EXCEPT !.pc = "connect"]
                      [] n > KeepConns -> [g EXCEPT !.pc = "trim",
                                                    !.excess = n - KeepConns]
                      [] OTHER         -> f)

\* getConn for one session too many; it finds none if all were closed since.
TrimPick(h) ==
  /\ At(Timer, "trim")
  /\ th[Timer].excess > 0
  /\ h \in sessions[th[Timer].svr]
  /\ Move(Timer, [th[Timer] EXCEPT !.pc = "trimrm", !.hnd = h])

TrimSkip ==
  /\ At(Timer, "trim")
  /\ th[Timer].excess > 0
  /\ sessions[th[Timer].svr] = {}
  /\ Move(Timer, [th[Timer] EXCEPT !.excess = @ - 1])

\* rmSvrConn forgets the session; nothing closes the connection.
TrimRm ==
  /\ At(Timer, "trimrm")
  /\ rmSvrConn(th[Timer].svr, th[Timer].hnd)
  /\ Go(Timer, [th[Timer] EXCEPT !.pc = "trim", !.hnd = None, !.excess = @ - 1])
  /\ UNCHANGED <<m_mapProxy, connVars, lockVars, phase, fault>>

TrimEnd ==
  /\ At(Timer, "trim")
  /\ th[Timer].excess = 0
  /\ Move(Timer, [th[Timer] EXCEPT !.pc = "rebuild", !.key = None, !.svr = None])

ReBuildEnd ==
  /\ At(Timer, "rebuild")
  /\ th[Timer].todo = {}
  /\ proxyLock' = None
  /\ Go(Timer, Idle)
  /\ UNCHANGED <<sessionVars, m_mapProxy, connVars, rmutex, readers, phase,
                 fault>>

----------------------------------------------------------------------------
(* Sending: SVCMgr::onDispatch and onResponse.                              *)

OnDispatch(w, k) ==
  /\ phase \in {"run", "stop"}
  /\ At(w, "idle")
  /\ Move(w, [Idle EXCEPT !.pc = "route", !.job = "dispatch", !.key = k])

\* The onDispatch with an address asks SvrMgr::getConn for that server.
OnDispatchTo(w, s) ==
  /\ phase \in {"run", "stop"}
  /\ At(w, "idle")
  /\ Move(w, [Idle EXCEPT !.pc = "getconn", !.job = "dispatch", !.svr = s])

OnResponse(w, h) ==
  /\ phase \in {"run", "stop"}
  /\ At(w, "idle")
  /\ Move(w, [Idle EXCEPT !.pc = "exist", !.job = "reply", !.hnd = h])

\* getSvrConn ends on one server of the route, which one is the matter of
\* its counter; it reads m_mapProxy without the lock.
GetSvrConn(w, s) ==
  /\ At(w, "route")
  /\ <<th[w].key, s>> \in m_mapProxy
  /\ Move(w, [th[w] EXCEPT !.pc = "getconn", !.svr = s])

NoRoute(w) ==
  /\ At(w, "route")
  /\ \A s \in Servers : <<th[w].key, s>> \notin m_mapProxy
  /\ Move(w, Idle)

GetConn(w, h) ==
  /\ At(w, "getconn")
  /\ h \in sessions[th[w].svr]
  /\ Move(w, [th[w] EXCEPT !.pc = "exist", !.hnd = h])

NoConn(w) ==
  /\ At(w, "getconn")
  /\ sessions[th[w].svr] = {}
  /\ Move(w, Idle)

IsExist(w) ==
  /\ At(w, "exist")
  /\ readers = {}
  /\ Move(w, IF m_mConn[th[w].hnd] = None THEN Idle
             ELSE [th[w] EXCEPT !.pc = "write"])

\* ConnMgr::write: the entry may be gone again (-2).  Otherwise the read guard
\* is held while the handler queues the message.
WriteGone(w) ==
  /\ At(w, "write")
  /\ m_mConn[th[w].hnd] = None
  /\ Move(w, Idle)

\* A faulty Write: it releases the read guard before it uses the handler.
WriteUnguarded(w) ==
  /\ At(w, "write")
  /\ m_mConn[th[w].hnd] # None
  /\ Move(w, [th[w] EXCEPT !.pc = "send", !.obj = m_mConn[th[w].hnd]])

Write(w) ==
  /\ At(w, "write")
  /\ m_mConn[th[w].hnd] # None
  /\ readers' = readers \cup {w}
  /\ Go(w, [th[w] EXCEPT !.pc = "send", !.obj = m_mConn[th[w].hnd]])
  /\ UNCHANGED <<sessionVars, m_mapProxy, connVars, proxyLock, rmutex, phase,
                 fault>>

SvcWrite(w) ==
  /\ At(w, "send")
  /\ Live(th[w].obj)
  /\ readers' = readers \ {w}
  /\ Go(w, Idle)
  /\ UNCHANGED <<sessionVars, m_mapProxy, connVars, proxyLock, rmutex, phase,
                 fault>>

----------------------------------------------------------------------------
(* Undefined behaviour ends the execution: a thread uses a handler that was *)
(* deleted, frees an m_phead that open() has not set yet, or reads the      *)
(* routes while another thread changes them.                                *)

UseDestroyed(t) ==
  /\ th[t].pc \in {"open", "addr", "closing", "destroy", "send"}
  /\ ~Live(th[t].obj)
  /\ fault = "none"
  /\ fault' = "destroyed"
  /\ UNCHANGED <<sessionVars, m_mapProxy, connVars, lockVars, phase, th>>

UseUninitialised(t) ==
  /\ At(t, "closing")
  /\ BeingOpened(t, th[t].obj)
  /\ fault = "none"
  /\ fault' = "uninitialised"
  /\ UNCHANGED <<sessionVars, m_mapProxy, connVars, lockVars, phase, th>>

\* addSvr makes the entry of a new key and later the route; updateProxy, in its
\* second half, erases entries and copies server_list again, even for the keys
\* that keep all their servers.
ChangesRoutes(u) ==
  \/ /\ At(u, "add")
     /\ proxyLock = None
     /\ \E r \in th[u].todo : \A q \in m_mapProxy : q[1] # r[1]
  \/ At(u, "insert")
  \/ At(u, "prune") /\ th[u].job = "update"
  \/ At(u, "closesvr") /\ th[u].job = "update" /\ th[u].hset = {}

RouteRace(w) ==
  /\ At(w, "route")
  /\ \E u \in Threads : ChangesRoutes(u)
  /\ fault = "none"
  /\ fault' = "race"
  /\ UNCHANGED <<sessionVars, m_mapProxy, connVars, lockVars, phase, th>>

ThreadStep(t) ==
  \/ \E o \in Svcs, h \in Handles : Connect(t, o, h)
  \/ ConnectFail(t)
  \/ AddConn(t)
  \/ GetRemoteAddr(t)
  \/ AddSvrConn(t)
  \/ HandleClose(t)
  \/ RmConn(t)
  \/ RmSvrConn(t)
  \/ Destroy(t)
  \/ \E h \in Handles : CloseHandle(t, h)
  \/ \E r \in Routes : RefuseSvr(t, r) \/ AddSvr(t, r) \/ CloseSvr(t, r)
  \/ InsertRoute(t)
  \/ RmSvr(t)
  \/ PruneEnd(t)
  \/ UseDestroyed(t)
  \/ UseUninitialised(t)

ReactorStep ==
  \/ \E o \in Svcs, h \in Handles, c \in Clients : Accept(o, h, c)
  \/ \E o \in Svcs : HandleEvent(o)
  \/ BootEnd
  \/ Stop
  \/ Finalize
  \/ StopThreads

TimerStep ==
  \/ Expire
  \/ ReBuild
  \/ \E r \in Routes : ReBuildSvr(r)
  \/ \E h \in Handles : TrimPick(h)
  \/ TrimSkip
  \/ TrimRm
  \/ TrimEnd
  \/ ReBuildEnd

WorkerStep(w) ==
  \/ w \in Updaters /\ \E m \in RouterMaps : UpdateRouter(w, m)
  \/ PruneBegin(w)
  \/ \E k \in DispatchKeys : OnDispatch(w, k)
  \/ \E s \in DispatchServers : OnDispatchTo(w, s)
  \/ \E h \in ReplyHandles : OnResponse(w, h)
  \/ \E s \in Servers : GetSvrConn(w, s)
  \/ NoRoute(w)
  \/ \E h \in Handles : GetConn(w, h)
  \/ NoConn(w)
  \/ IsExist(w)
  \/ WriteGone(w)
  \/ Write(w)
  \/ SvcWrite(w)
  \/ RouteRace(w)

Running ==
  \/ \E t \in Threads : ThreadStep(t)
  \/ ReactorStep
  \/ TimerStep
  \/ \E w \in Workers : WorkerStep(w)

\* The process is gone, by exit or by undefined behaviour.
Ended ==
  /\ \/ fault # "none"
     \/ phase = "end" /\ \A t \in Threads : At(t, "idle")
  /\ UNCHANGED vars

Next == Running \/ Ended

Spec == Init /\ [][Next]_vars

\* Fairness.  A thread that can go on does; the reactor and the timer threads
\* keep running, but nothing says that peers connect, close or that the
\* process stops.  A connection attempt that can be made again and again
\* succeeds at last: the server comes back.
Fairness ==
  /\ \A t \in Threads : WF_vars(ThreadStep(t))
  /\ WF_vars(BootEnd \/ Finalize \/ StopThreads)
  /\ WF_vars(TimerStep)
  /\ \A s \in Servers :
       SF_vars(/\ th[Timer].svr = s
               /\ \E o \in Svcs, h \in Handles : Connect(Timer, o, h))

FairSpec == Spec /\ Fairness

----------------------------------------------------------------------------
(* Properties.                                                              *)

RoutedServers == {r[2] : r \in m_mapProxy}

\* Until finalize, whoever takes the lock of ProxyMgr finds the servers of the
\* routes and the keys of SvrMgr::m_mapSvr to be the same, and each server in
\* one route: addSvr, updateProxy and closeSvr change the two tables at
\* different moments, with connections opened and closed in between.
RouteServerAgreement ==
  proxyLock = None /\ phase \in {"boot", "run"} =>
    /\ registered = RoutedServers
    /\ \A r1, r2 \in m_mapProxy : r1[2] = r2[2] => r1 = r2

\* reBuild and addSvr never open a second connection with a server, however
\* their connect() interleaves with connections that come and go, as long as
\* no inbound connection comes from the address of a server.
OneSessionPerServer ==
  Clients \cap Servers = {} =>
    \A s \in Servers : \A h1, h2 \in sessions[s] : h1 = h2

\* The destructor leaves no server registered and no connection with one, and
\* reBuild, whose thread outlives finalize, opens none afterwards; an
\* application that updates its routes meanwhile is left out.
FinalizeDisconnects ==
  phase = "end" /\ RouterMaps = {} /\ Clients \cap Servers = {} =>
    /\ registered = {}
    /\ \A o \in Svcs : peer[o] \notin Servers

\* No server moves from one key to another.
StableRoutes ==
  \A r1, r2 \in InitRoutes \cup UNION RouterMaps : r1[2] = r2[2] => r1 = r2

\* An update ends with no route but the ones it was given, whatever other
\* updates add or remove meanwhile; and with all of them, when one thread
\* makes the updates and no server moves from one key to another.
UpdateTakesEffect ==
  [][\A w \in Workers :
       th[w].job = "update" /\ th'[w] = Idle =>
         /\ m_mapProxy' \subseteq th[w].want
         /\ Updaters = {w} /\ StableRoutes => m_mapProxy' = th[w].want]_vars

\* No thread uses a handler that was deleted.
NoUseAfterDestroy == fault # "destroyed"

\* An entry of m_mConn is a handler that is alive and has that handle.
ConnIsOpen == \A h \in Handles : m_mConn[h] # None => fd[m_mConn[h]] = h

\* A handler that is not being opened or closed can be found by its handle.
OpenIsKnown ==
  \A o \in Svcs :
    Live(o) /\ (\A t \in Threads : th[t].obj # o \/ At(t, "send"))
      => m_mConn[fd[o]] = o

\* A registered server without a session gets one again.
Reconnects ==
  \A s \in Servers :
    s \in registered /\ sessions[s] = {} ~>
      sessions[s] # {} \/ s \notin registered \/ phase # "run" \/ fault # "none"

\* A registered server without a connection gets one again: that is what the
\* timer which rebuilds connections is for (processor.cpp:210).
ServerComesBack ==
  \A s \in Servers :
    s \in registered /\ (\A o \in Svcs : peer[o] # s) ~>
      (\E o \in Svcs : peer[o] = s) \/ phase # "run" \/ fault # "none"

\* When connections stop coming and going, reBuild brings the sessions of each
\* server down to the number it keeps, by however many it exceeds it.
SessionsTrimmed ==
  \/ []<><<fd' # fd>>_fd
  \/ <>(phase = "stop" \/ fault # "none")
  \/ \A s \in Servers : <>[](Cardinality(sessions[s]) <= KeepConns)

=============================================================================
