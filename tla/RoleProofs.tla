----------------------------- MODULE RoleProofs -----------------------------
(***************************************************************************)
(* Theorems about ConnRouting for two kinds of process.                    *)
(*                                                                         *)
(* One only accepts connections (OnlyAccepts): it has no routes in its     *)
(* configuration, and its application never calls onUpdateRouter.  Only    *)
(* the reactor thread opens and closes connections, while any number of    *)
(* threads write to them, and no handler is used after it was deleted.     *)
(*                                                                         *)
(* The other keeps the routes of its configuration (NoUpdates), and no     *)
(* client connects from the address of a server.  The reactor and the      *)
(* timer thread open connections, the reactor closes them, and finalize    *)
(* leaves neither a server nor a connection with one.                      *)
(***************************************************************************)
EXTENDS ConnRoutingProofs

----------------------------------------------------------------------------
(* A process that only accepts connections.                                 *)

OnlyAccepts == InitRoutes = {} /\ RouterMaps = {}

\* A live handler that m_mConn has under its handle.
Listed(o) == Live(o) /\ m_mConn[fd[o]] = o
\* One that m_mConn does not have yet, or no longer.
Unlisted(o) == Live(o) /\ m_mConn[fd[o]] = None

UnlistedPcs == {"open", "rmsvrconn", "destroy"}
ListedPcs == {"addr", "addsvr", "closing", "rmconn", "send"}

\* What a thread may be doing, and the handler it has in hand.
HandOK(f) ==
  /\ f.todo = {}
  /\ f.job # "update"
  /\ f.pc \notin {"connect", "insert", "closesvr", "trim", "trimrm"}
  /\ f.pc \in OpenPcs => f.job = "accept"
  /\ f.pc \in ClosePcs => f.job = "event"
  /\ f.pc \in UnlistedPcs \cup ListedPcs => f.obj \in Svcs
  /\ f.pc \in ListedPcs => Listed(f.obj)
  /\ f.pc \in UnlistedPcs => Unlisted(f.obj)
  /\ f.pc = "rmconn" => f.hnd = fd[f.obj]

HandsOK == \A t \in Threads : HandOK(th[t])

\* Two handlers have different descriptors, and one that is not in m_mConn is in
\* the hands of the reactor thread.
HandlersOK ==
  /\ \A o1, o2 \in Svcs : Live(o1) /\ fd[o1] = fd[o2] => o1 = o2
  /\ \A o \in Svcs : Live(o) /\ ~Listed(o) =>
       th[Reactor].obj = o /\ th[Reactor].pc \in UnlistedPcs

ReadersOK == \A t \in Threads : t \in readers <=> th[t].pc = "send"

SInv ==
  /\ m_mapProxy = {}
  /\ rmutex = None
  /\ HandsOK
  /\ HandlersOK
  /\ ReadersOK
  /\ ConnIsOpen
  /\ NoUseAfterDestroy

----------------------------------------------------------------------------
(* The steps of such a process.                                             *)

\* At the start the reactor thread has no routes to add.
LEMMA ServerInit ==
  ASSUME OnlyAccepts, Init
  PROVE  SInv
<1>1. ASSUME NEW t \in Threads
      PROVE  th[t] = IF t = Reactor
                       THEN [Idle EXCEPT !.pc = "add", !.job = "boot", !.todo = {}]
                       ELSE Idle
  BY DEF OnlyAccepts, Init
<1>2. \A t \in Threads : /\ th[t].pc \in {"idle", "add"} /\ th[t].job \in {"none", "boot"}
                         /\ th[t].todo = {}
  <2> SUFFICES ASSUME NEW t \in Threads
               PROVE  /\ th[t].pc \in {"idle", "add"} /\ th[t].job \in {"none", "boot"}
                      /\ th[t].todo = {}
    OBVIOUS
  <2>1. CASE t = Reactor
    BY <1>1, <2>1 DEF Idle
  <2>2. CASE t # Reactor
    BY <1>1, <2>2 DEF Idle
  <2> QED  BY <2>1, <2>2
<1>3. HandsOK /\ ReadersOK
  BY <1>2 DEF HandsOK, HandOK, OpenPcs, ClosePcs, ListedPcs, UnlistedPcs, ReadersOK, Init
<1> QED
  BY <1>3 DEF SInv, Init, HandlersOK, Live, ConnIsOpen, NoUseAfterDestroy

\* A step that leaves handlers, m_mConn and readers alone keeps the invariant if
\* the new frame satisfies it and keeps the handler that is not in m_mConn.
LEMMA HandStep ==
  ASSUME IInv, SInv, NEW t \in Threads, NEW f, Go(t, f), HandOK(f),
         UNCHANGED <<m_mapProxy, m_mConn, fd, rmutex, readers, fault>>,
         th[t].pc # "send", f.pc # "send",
         th[t].pc \in UnlistedPcs => f.pc \in UnlistedPcs /\ f.obj = th[t].obj
  PROVE  SInv'
<1>1. /\ th'[t] = f
      /\ \A u \in Threads : u # t => th'[u] = th[u]
  BY DEF Go, IInv, TypeOK
<1>2. \A g : HandOK(g)' <=> HandOK(g)
  BY DEF HandOK, Listed, Unlisted, Live
<1>3. HandsOK'
  BY <1>1 DEF SInv, HandsOK, HandOK, Listed, Unlisted, Live
<1>4. HandlersOK'
  BY <1>1, ThreadsType DEF SInv, HandlersOK, Listed, Live
<1>5. ReadersOK'
  BY <1>1 DEF SInv, ReadersOK
<1> QED
  BY <1>3, <1>4, <1>5 DEF SInv, ConnIsOpen, NoUseAfterDestroy

\* Routes are never added, so that no thread opens or closes a connection for one.
LEMMA NeverStep ==
  ASSUME OnlyAccepts, IInv, SInv, NEW t \in Threads
  PROVE  /\ \A o \in Svcs, h \in Handles : ~Connect(t, o, h)
         /\ ~ConnectFail(t) /\ ~InsertRoute(t) /\ ~RmSvr(t) /\ ~PruneBegin(t)
         /\ \A h \in Handles : ~CloseHandle(t, h)
         /\ \A r \in Routes : ~RefuseSvr(t, r) /\ ~AddSvr(t, r) /\ ~CloseSvr(t, r)
         /\ \A m \in RouterMaps : ~UpdateRouter(t, m)
         /\ \A s \in Servers : ~GetSvrConn(t, s)
<1>1. HandOK(th[t]) /\ m_mapProxy = {}
  BY DEF SInv, HandsOK
<1> QED
  BY <1>1 DEF HandOK, Connect, ConnectFail, InsertRoute, RmSvr, PruneBegin, CloseHandle,
     RefuseSvr, AddSvr, CloseSvr, GetSvrConn, OnlyAccepts, At

\* With no routes the timer thread has nothing to rebuild.
LEMMA NeverTimer ==
  ASSUME IInv, SInv
  PROVE  /\ \A r \in Routes : ~ReBuildSvr(r)
         /\ \A h \in Handles : ~TrimPick(h)
         /\ ~TrimSkip /\ ~TrimRm /\ ~TrimEnd
<1>1. HandOK(th[Timer])
  BY ThreadsType DEF SInv, HandsOK
<1> QED
  BY <1>1 DEF HandOK, ReBuildSvr, TrimPick, TrimSkip, TrimRm, TrimEnd, At

\* Only the reactor thread has a handler to open or to close.
LEMMA OnlyReactor ==
  ASSUME IInv, SInv, NEW t \in Threads, th[t].pc \in OpenPcs \cup ClosePcs
  PROVE  t = Reactor
<1>1. JobOK(t, th[t]) /\ HandOK(th[t])
  BY DEF IInv, ThreadsOK, ThreadOK, FrameOK, SInv, HandsOK
<1> QED  BY <1>1 DEF JobOK, HandOK

\* The reactor accepts a connection, whose descriptor nobody has.
LEMMA ServerAccept ==
  ASSUME IInv, SInv, NEW o \in Svcs, NEW h \in Handles, NEW c \in Clients, Accept(o, h, c)
  PROVE  SInv'
<1> DEFINE f == [Idle EXCEPT !.pc = "open", !.job = "accept", !.obj = o]
<1>1. /\ th'[Reactor] = f
      /\ \A u \in Threads : u # Reactor => th'[u] = th[u]
      /\ th[Reactor].pc = "idle"
  BY ThreadsType DEF Go, IInv, TypeOK, Accept, At
<1>2. /\ fd' = [fd EXCEPT ![o] = h] /\ fd \in [Svcs -> Handles \cup {None}]
      /\ ~Live(o) /\ FreeHandle(h) /\ None \notin Handles
      /\ m_mConn \in [Handles -> Svcs \cup {None}] /\ None \notin Svcs
  BY NoneAssumption DEF Accept, NewSvc, Fresh, IInv, TypeOK
<1>3. UNCHANGED <<m_mapProxy, m_mConn, rmutex, readers, fault>>
  BY DEF Accept, lockVars
<1>4. fd'[o] = h /\ \A p \in Svcs \ {o} : fd'[p] = fd[p]
  BY <1>2
<1>5. m_mConn[h] = None
  BY <1>2 DEF SInv, ConnIsOpen, FreeHandle
<1>6. \A p \in Svcs \ {o} : (Listed(p)' <=> Listed(p)) /\ (Unlisted(p)' <=> Unlisted(p))
  BY <1>3, <1>4 DEF Listed, Unlisted, Live
<1>7. Unlisted(o)' /\ ~Listed(o)' /\ ~Listed(o) /\ ~Unlisted(o)
  BY <1>2, <1>3, <1>4, <1>5 DEF Listed, Unlisted, Live
<1>8. HandOK(f)'
  BY <1>7 DEF HandOK, Idle, OpenPcs, ClosePcs, ListedPcs, UnlistedPcs
<1>9. \A u \in Threads \ {Reactor} : HandOK(th[u])'
  <2> SUFFICES ASSUME NEW u \in Threads \ {Reactor} PROVE HandOK(th[u])'
    OBVIOUS
  <2>1. HandOK(th[u]) /\ th'[u] = th[u]
    BY <1>1 DEF SInv, HandsOK
  <2>2. th[u].pc \notin OpenPcs \cup ClosePcs
    BY OnlyReactor
  <2>3. th[u].pc = "send" => th[u].obj \in Svcs \ {o}
    BY <2>1, <1>7 DEF HandOK, ListedPcs
  <2> QED
    BY <2>1, <2>2, <2>3, <1>6 DEF HandOK, ListedPcs, UnlistedPcs, OpenPcs, ClosePcs
<1>10. HandsOK'
  BY <1>1, <1>8, <1>9 DEF HandsOK
<1>11. HandlersOK'
  BY <1>1, <1>2, <1>4, <1>6, ThreadsType DEF SInv, HandlersOK, Live, FreeHandle, Idle, UnlistedPcs
<1>12. ReadersOK'
  BY <1>1, <1>3 DEF SInv, ReadersOK, Idle
<1>13. ConnIsOpen'
  BY <1>2, <1>3, <1>4, <1>5 DEF SInv, ConnIsOpen, Live
<1> QED
  BY <1>3, <1>10, <1>11, <1>12, <1>13 DEF SInv, NoUseAfterDestroy

\* addConn enters the handler the reactor is opening.
LEMMA ServerAddConn ==
  ASSUME IInv, SInv, NEW t \in Threads, AddConn(t)
  PROVE  SInv'
<1>0. PICK o \in Svcs : o = th[t].obj
  BY OnlyReactor DEF AddConn, RmConn, Destroy, At, SInv, HandsOK, HandOK, OpenPcs, ClosePcs,
     ListedPcs, UnlistedPcs
<1>1. /\ t = Reactor /\ th[t].pc = "open" /\ HandOK(th[t])
      /\ o \in Svcs /\ Unlisted(o) /\ th[t].job = "accept" /\ th[t].todo = {}
  BY <1>0, OnlyReactor DEF AddConn, At, SInv, HandsOK, HandOK, OpenPcs, UnlistedPcs
<1>2. PICK h \in Handles : h = fd[o]
  BY <1>1 DEF Unlisted, Live, IInv, TypeOK
<1>3. /\ m_mConn \in [Handles -> Svcs \cup {None}] /\ None \notin Svcs
      /\ m_mConn[h] = None /\ m_mConn' = [m_mConn EXCEPT ![h] = o]
  BY <1>0, <1>1, <1>2, NoneAssumption DEF AddConn, Unlisted, IInv, TypeOK
<1>4. m_mConn'[h] = o /\ \A k \in Handles \ {h} : m_mConn'[k] = m_mConn[k]
  BY <1>3
<1>5. UNCHANGED <<m_mapProxy, fd, rmutex, readers, fault>> /\ readers = {}
  BY DEF AddConn, lockVars
<1>6. /\ th'[t].pc = "addr" /\ th'[t].job = "accept" /\ th'[t].obj = o /\ th'[t].todo = {}
      /\ \A u \in Threads : u # t => th'[u] = th[u]
  <2>1. th[t] \in Frame /\ th \in [Threads -> Frame]
    BY DEF IInv, TypeOK
  <2> QED  BY <1>0, <1>1, <2>1 DEF AddConn, Go, Frame
<1>7. \A p \in Svcs \ {o} : Live(p) => fd[p] \in Handles \ {h}
  BY <1>1, <1>2 DEF Live, IInv, TypeOK, SInv, HandlersOK
<1>8. /\ Listed(o)'
      /\ \A p \in Svcs \ {o} : (Listed(p)' <=> Listed(p)) /\ (Live(p)' <=> Live(p))
  BY <1>1, <1>2, <1>4, <1>5, <1>7 DEF Listed, Unlisted, Live
<1>9. \A u \in Threads \ {t} : HandOK(th[u])'
  <2> SUFFICES ASSUME NEW u \in Threads \ {t} PROVE HandOK(th[u])'
    OBVIOUS
  <2>1. HandOK(th[u]) /\ th'[u] = th[u]
    BY <1>6 DEF SInv, HandsOK
  <2>2. th[u].pc \notin OpenPcs \cup ClosePcs
    BY <1>1, OnlyReactor
  <2>3. th[u].pc # "send"
    BY <1>5 DEF SInv, ReadersOK
  <2> QED
    BY <2>1, <2>2, <2>3 DEF HandOK, ListedPcs, UnlistedPcs, OpenPcs, ClosePcs
<1>10. HandOK(th[t])'
  BY <1>1, <1>6, <1>8 DEF HandOK, OpenPcs, ClosePcs, ListedPcs, UnlistedPcs
<1>11. HandlersOK'
  BY <1>0, <1>1, <1>5, <1>8 DEF SInv, HandlersOK, Live
<1>12. ReadersOK'
  BY <1>1, <1>5, <1>6 DEF SInv, ReadersOK
<1>13. ConnIsOpen'
  BY <1>1, <1>2, <1>4, <1>5 DEF SInv, ConnIsOpen
<1> QED
  BY <1>5, <1>9, <1>10, <1>11, <1>12, <1>13 DEF SInv, HandsOK, NoUseAfterDestroy

\* rmConn waits for the writers, so that none has the handler it takes out.
LEMMA ServerRmConn ==
  ASSUME IInv, SInv, NEW t \in Threads, RmConn(t)
  PROVE  SInv'
<1>0. PICK o \in Svcs : o = th[t].obj
  BY OnlyReactor DEF AddConn, RmConn, Destroy, At, SInv, HandsOK, HandOK, OpenPcs, ClosePcs,
     ListedPcs, UnlistedPcs
<1>1. /\ t = Reactor /\ th[t].pc = "rmconn" /\ HandOK(th[t])
      /\ o \in Svcs /\ Listed(o) /\ th[t].job = "event" /\ th[t].todo = {}
      /\ th[t].hnd = fd[o]
  BY <1>0, OnlyReactor DEF RmConn, At, SInv, HandsOK, HandOK, ClosePcs, ListedPcs
<1>2. PICK h \in Handles : h = fd[o]
  BY <1>1 DEF Listed, Live, IInv, TypeOK
<1>3. /\ m_mConn \in [Handles -> Svcs \cup {None}] /\ None \notin Svcs
      /\ m_mConn' = [m_mConn EXCEPT ![h] = None]
  BY <1>0, <1>1, <1>2, NoneAssumption DEF RmConn, IInv, TypeOK
<1>4. m_mConn'[h] = None /\ \A k \in Handles \ {h} : m_mConn'[k] = m_mConn[k]
  BY <1>3
<1>5. UNCHANGED <<m_mapProxy, fd, rmutex, readers, fault>> /\ readers = {}
  BY DEF RmConn, lockVars
<1>6. /\ th'[t].pc = "rmsvrconn" /\ th'[t].job = "event" /\ th'[t].obj = o
      /\ th'[t].todo = {}
      /\ \A u \in Threads : u # t => th'[u] = th[u]
  <2>1. th[t] \in Frame /\ th \in [Threads -> Frame]
    BY DEF IInv, TypeOK
  <2> QED  BY <1>0, <1>1, <2>1 DEF RmConn, Go, Frame
<1>7. \A p \in Svcs \ {o} : Live(p) => fd[p] \in Handles \ {h}
  BY <1>1, <1>2 DEF Live, IInv, TypeOK, SInv, HandlersOK
<1>8. /\ Unlisted(o)'
      /\ \A p \in Svcs \ {o} : (Listed(p)' <=> Listed(p)) /\ (Live(p)' <=> Live(p))
  BY <1>1, <1>2, <1>4, <1>5, <1>7 DEF Listed, Unlisted, Live
<1>9. \A u \in Threads \ {t} : HandOK(th[u])'
  <2> SUFFICES ASSUME NEW u \in Threads \ {t} PROVE HandOK(th[u])'
    OBVIOUS
  <2>1. HandOK(th[u]) /\ th'[u] = th[u]
    BY <1>6 DEF SInv, HandsOK
  <2>2. th[u].pc \notin OpenPcs \cup ClosePcs
    BY <1>1, OnlyReactor
  <2>3. th[u].pc # "send"
    BY <1>5 DEF SInv, ReadersOK
  <2> QED
    BY <2>1, <2>2, <2>3 DEF HandOK, ListedPcs, UnlistedPcs, OpenPcs, ClosePcs
<1>10. HandOK(th[t])'
  BY <1>1, <1>6, <1>8 DEF HandOK, OpenPcs, ClosePcs, ListedPcs, UnlistedPcs
<1>11. HandlersOK'
  BY <1>0, <1>1, <1>5, <1>6, <1>8 DEF SInv, HandlersOK, Live, UnlistedPcs
<1>12. ReadersOK'
  BY <1>1, <1>5, <1>6 DEF SInv, ReadersOK
<1>13. ConnIsOpen'
  BY <1>3, <1>4, <1>5 DEF SInv, ConnIsOpen
<1> QED
  BY <1>5, <1>9, <1>10, <1>11, <1>12, <1>13 DEF SInv, HandsOK, NoUseAfterDestroy

\* The reactor deletes a handler that m_mConn no longer has: nobody else can.
LEMMA ServerDestroy ==
  ASSUME IInv, SInv, NEW t \in Threads, Destroy(t)
  PROVE  SInv'
<1>0. PICK o \in Svcs : o = th[t].obj
  BY OnlyReactor DEF AddConn, RmConn, Destroy, At, SInv, HandsOK, HandOK, OpenPcs, ClosePcs,
     ListedPcs, UnlistedPcs
<1>1. /\ t = Reactor /\ th[t].pc = "destroy" /\ HandOK(th[t])
      /\ o \in Svcs /\ Unlisted(o) /\ th[t].job = "event"
  BY <1>0, OnlyReactor DEF Destroy, At, SInv, HandsOK, HandOK, ClosePcs, UnlistedPcs
<1>2. /\ fd \in [Svcs -> Handles \cup {None}] /\ fd' = [fd EXCEPT ![o] = None]
      /\ m_mConn \in [Handles -> Svcs \cup {None}]
      /\ None \notin Svcs /\ None \notin Handles
  BY <1>0, NoneAssumption DEF Destroy, IInv, TypeOK
<1>3. fd'[o] = None /\ \A p \in Svcs \ {o} : fd'[p] = fd[p]
  BY <1>1, <1>2
<1>4. UNCHANGED <<m_mapProxy, m_mConn, readers, fault>> /\ rmutex' = None
  BY ThreadsType DEF Destroy, SInv
<1>5. th'[t] = Idle /\ \A u \in Threads : u # t => th'[u] = th[u]
  BY <1>1 DEF Destroy, Go, IInv, TypeOK
<1>6. \A p \in Svcs \ {o} : (Listed(p)' <=> Listed(p)) /\ (Live(p)' <=> Live(p))
  BY <1>3, <1>4 DEF Listed, Live
<1>7. ~Live(o)' /\ ~Listed(o) /\ \A h \in Handles : m_mConn[h] # o
  BY <1>1, <1>2, <1>3 DEF Listed, Unlisted, Live, SInv, ConnIsOpen
<1>8. \A u \in Threads \ {t} : HandOK(th[u])'
  <2> SUFFICES ASSUME NEW u \in Threads \ {t} PROVE HandOK(th[u])'
    OBVIOUS
  <2>1. HandOK(th[u]) /\ th'[u] = th[u]
    BY <1>5 DEF SInv, HandsOK
  <2>2. th[u].pc \notin OpenPcs \cup ClosePcs
    BY <1>1, OnlyReactor
  <2>3. th[u].pc = "send" => th[u].obj \in Svcs \ {o}
    BY <2>1, <1>7 DEF HandOK, ListedPcs
  <2> QED
    BY <2>1, <2>2, <2>3, <1>6 DEF HandOK, ListedPcs, UnlistedPcs, OpenPcs, ClosePcs
<1>9. HandOK(th[t])'
  BY <1>5 DEF HandOK, Idle, OpenPcs, ClosePcs, ListedPcs, UnlistedPcs
<1>10. HandlersOK'
  BY <1>0, <1>1, <1>2, <1>3, <1>6, <1>7 DEF SInv, HandlersOK, Live
<1>11. ReadersOK'
  BY <1>1, <1>4, <1>5 DEF SInv, ReadersOK, Idle
<1>12. ConnIsOpen'
  BY <1>2, <1>3, <1>4, <1>7 DEF SInv, ConnIsOpen
<1> QED
  BY <1>4, <1>8, <1>9, <1>10, <1>11, <1>12 DEF SInv, HandsOK, NoUseAfterDestroy

\* write takes the read guard and a handler of m_mConn.
LEMMA ServerWrite ==
  ASSUME IInv, SInv, NEW w \in Workers, Write(w)
  PROVE  SInv'
<1> DEFINE o == m_mConn[th[w].hnd]
<1>1. w \in Threads /\ w # Reactor
  BY ThreadsType
<1>2. /\ th[w].pc = "write" /\ HandOK(th[w]) /\ th[w].hnd \in Handles
      /\ th[w].job \in {"dispatch", "reply"}
  BY <1>1 DEF Write, At, SInv, HandsOK, IInv, ThreadsOK, ThreadOK, FrameOK, JobOK, FieldsOK
<1>3. o \in Svcs /\ Listed(o)
  BY <1>2, NoneAssumption DEF Write, IInv, TypeOK, SInv, ConnIsOpen, Listed, Live
<1>4. /\ readers' = readers \cup {w}
      /\ UNCHANGED <<m_mapProxy, m_mConn, fd, rmutex, fault>>
  BY DEF Write, connVars
<1>5. /\ th'[w].pc = "send" /\ th'[w].obj = o /\ th'[w].todo = {}
      /\ th'[w].job = th[w].job
      /\ \A u \in Threads : u # w => th'[u] = th[u]
  <2>1. th[w] \in Frame /\ th \in [Threads -> Frame]
    BY <1>1 DEF IInv, TypeOK
  <2> QED  BY <1>1, <1>2, <2>1 DEF Write, Go, Frame, HandOK
<1> HIDE DEF o
<1>6. HandOK(th[w])'
  BY <1>2, <1>3, <1>4, <1>5 DEF HandOK, Listed, Live, OpenPcs, ClosePcs, ListedPcs, UnlistedPcs
<1>7. \A u \in Threads \ {w} : HandOK(th[u])'
  BY <1>4, <1>5 DEF SInv, HandsOK, HandOK, Listed, Unlisted, Live
<1>8. HandsOK'
  BY <1>6, <1>7 DEF HandsOK
<1>9. HandlersOK'
  BY <1>1, <1>4, <1>5, ThreadsType DEF SInv, HandlersOK, Listed, Live
<1>10. ReadersOK'
  BY <1>4, <1>5 DEF SInv, ReadersOK
<1> QED
  BY <1>4, <1>8, <1>9, <1>10 DEF SInv, ConnIsOpen, NoUseAfterDestroy

\* The writer is done and gives the guard back.
LEMMA ServerSvcWrite ==
  ASSUME IInv, SInv, NEW w \in Workers, SvcWrite(w)
  PROVE  SInv'
<1>1. w \in Threads /\ w # Reactor /\ th[w].pc = "send"
  BY ThreadsType DEF SvcWrite, At
<1>2. /\ readers' = readers \ {w}
      /\ UNCHANGED <<m_mapProxy, m_mConn, fd, rmutex, fault>>
  BY DEF SvcWrite, connVars
<1>3. th'[w] = Idle /\ \A u \in Threads : u # w => th'[u] = th[u]
  BY <1>1 DEF SvcWrite, Go, IInv, TypeOK
<1>4. HandOK(th[w])'
  BY <1>3 DEF HandOK, Idle, OpenPcs, ClosePcs, ListedPcs, UnlistedPcs
<1>5. \A u \in Threads \ {w} : HandOK(th[u])'
  BY <1>2, <1>3 DEF SInv, HandsOK, HandOK, Listed, Unlisted, Live
<1>6. HandsOK'
  BY <1>4, <1>5 DEF HandsOK
<1>7. HandlersOK'
  BY <1>1, <1>2, <1>3, ThreadsType DEF SInv, HandlersOK, Listed, Live
<1>8. ReadersOK'
  BY <1>2, <1>3 DEF SInv, ReadersOK, Idle
<1> QED
  BY <1>2, <1>6, <1>7, <1>8 DEF SInv, ConnIsOpen, NoUseAfterDestroy

\* The steps that change only the frame of a thread, and its locks or the table of
\* servers.
LEMMA ServerMoves ==
  ASSUME OnlyAccepts, IInv, SInv, NEW t \in Threads,
         \/ GetRemoteAddr(t) \/ AddSvrConn(t) \/ HandleClose(t) \/ RmSvrConn(t)
         \/ PruneEnd(t)
  PROVE  SInv'
<1>1. th[t] \in Frame /\ HandOK(th[t]) /\ m_mapProxy = {}
  BY DEF SInv, HandsOK, IInv, TypeOK
<1>2. ASSUME GetRemoteAddr(t) PROVE SInv'
  <2> DEFINE f == [th[t] EXCEPT !.pc = "addsvr", !.adr = peer[th[t].obj]]
  <2>1. /\ f.pc = "addsvr" /\ f.job = th[t].job /\ f.obj = th[t].obj /\ f.todo = th[t].todo
        /\ th[t].pc = "addr"
    BY <1>1, <1>2 DEF Frame, GetRemoteAddr, At
  <2>2. Go(t, f) /\ UNCHANGED <<m_mapProxy, m_mConn, fd, rmutex, readers, fault>>
    BY <1>2 DEF GetRemoteAddr, Move, connVars, lockVars
  <2> HIDE DEF f
  <2>3. HandOK(f)
    BY <1>1, <2>1 DEF HandOK, OpenPcs, ClosePcs, ListedPcs, UnlistedPcs
  <2> QED  BY <2>1, <2>2, <2>3, HandStep DEF UnlistedPcs
<1>3. ASSUME AddSvrConn(t) PROVE SInv'
  <2>1. th[t].pc = "addsvr" /\ th[t].job = "accept"
    BY <1>1, <1>3 DEF AddSvrConn, At, HandOK, OpenPcs
  <2>2. Go(t, Idle) /\ UNCHANGED <<m_mapProxy, m_mConn, fd, rmutex, readers, fault>>
    BY <1>3, <2>1 DEF AddSvrConn, AfterOpen, connVars, lockVars
  <2>3. HandOK(Idle) /\ Idle.pc = "idle"
    BY DEF Idle, HandOK, OpenPcs, ClosePcs, ListedPcs, UnlistedPcs
  <2> QED  BY <2>1, <2>2, <2>3, HandStep DEF UnlistedPcs
<1>4. ASSUME HandleClose(t) PROVE SInv'
  <2>0. PICK a \in Peers \cup {None} :
          Move(t, [th[t] EXCEPT !.pc = "rmconn", !.hnd = fd[th[t].obj], !.adr = a])
    BY <1>4 DEF HandleClose
  <2> DEFINE f == [th[t] EXCEPT !.pc = "rmconn", !.hnd = fd[th[t].obj], !.adr = a]
  <2>1. /\ f.pc = "rmconn" /\ f.job = th[t].job /\ f.obj = th[t].obj /\ f.todo = th[t].todo
        /\ f.hnd = fd[th[t].obj] /\ th[t].pc = "closing"
    BY <1>1, <1>4 DEF Frame, HandleClose, At
  <2>2. Go(t, f) /\ UNCHANGED <<m_mapProxy, m_mConn, fd, rmutex, readers, fault>>
    BY <2>0 DEF Move, connVars, lockVars
  <2> HIDE DEF f
  <2>3. HandOK(f)
    BY <1>1, <2>1 DEF HandOK, OpenPcs, ClosePcs, ListedPcs, UnlistedPcs
  <2> QED  BY <2>1, <2>2, <2>3, HandStep DEF UnlistedPcs
<1>5. ASSUME RmSvrConn(t) PROVE SInv'
  <2> DEFINE f == [th[t] EXCEPT !.pc = "destroy", !.hnd = None, !.adr = None]
  <2>1. /\ f.pc = "destroy" /\ f.job = th[t].job /\ f.obj = th[t].obj /\ f.todo = th[t].todo
        /\ th[t].pc = "rmsvrconn"
    BY <1>1, <1>5 DEF Frame, RmSvrConn, At
  <2>2. Go(t, f) /\ UNCHANGED <<m_mapProxy, m_mConn, fd, rmutex, readers, fault>>
    BY <1>5 DEF RmSvrConn, connVars, lockVars
  <2> HIDE DEF f
  <2>3. HandOK(f)
    BY <1>1, <2>1 DEF HandOK, OpenPcs, ClosePcs, ListedPcs, UnlistedPcs
  <2> QED  BY <2>1, <2>2, <2>3, HandStep DEF UnlistedPcs
<1>6. ASSUME PruneEnd(t) PROVE SInv'
  <2> DEFINE f == IF th[t].job = "finalize"
                    THEN [Idle EXCEPT !.pc = "ending", !.job = "finalize"] ELSE Idle
  <2>1. f.pc \in {"ending", "idle"} /\ f.job \in {"finalize", "none"} /\ f.todo = {}
    BY DEF Idle
  <2>2. /\ Go(t, f) /\ th[t].pc = "prune"
        /\ UNCHANGED <<m_mapProxy, m_mConn, fd, rmutex, readers, fault>>
    BY <1>6 DEF PruneEnd, connVars, At
  <2> HIDE DEF f
  <2>3. HandOK(f)
    BY <2>1 DEF HandOK, OpenPcs, ClosePcs, ListedPcs, UnlistedPcs
  <2> QED  BY <2>1, <2>2, <2>3, HandStep DEF UnlistedPcs
<1> QED
  BY <1>2, <1>3, <1>4, <1>5, <1>6

\* A handler in hand is alive, so nothing is used after it was deleted.
LEMMA NoUse ==
  ASSUME SInv, NEW t \in Threads
  PROVE  ~UseDestroyed(t)
<1>1. HandOK(th[t])
  BY DEF SInv, HandsOK
<1> QED
  BY <1>1 DEF UseDestroyed, HandOK, ListedPcs, UnlistedPcs, Listed, Unlisted

\* Undefined behaviour of another kind changes nothing but fault.
LEMMA FaultKeeps ==
  ASSUME SInv, fault' # "destroyed",
         UNCHANGED <<m_mapProxy, connVars, lockVars, th>>
  PROVE  SInv'
BY DEF connVars, lockVars, SInv, HandsOK, HandOK, HandlersOK, ReadersOK, ConnIsOpen,
   NoUseAfterDestroy, Listed, Unlisted, Live

\* The reactor thread: accepts, events, and the end of the process.
LEMMA ServerReactor ==
  ASSUME OnlyAccepts, IInv, SInv, ReactorStep
  PROVE  SInv'
<1>1. Reactor \in Threads /\ th[Reactor] \in Frame /\ HandOK(th[Reactor]) /\ m_mapProxy = {}
  BY ThreadsType DEF SInv, HandsOK, IInv, TypeOK
<1>2. ASSUME NEW o \in Svcs, HandleEvent(o) PROVE SInv'
  <2> DEFINE f == [Idle EXCEPT !.pc = "closing", !.job = "event", !.obj = o]
  <2>1. /\ f.pc = "closing" /\ f.job = "event" /\ f.obj = o /\ f.todo = {}
        /\ th[Reactor].pc = "idle" /\ Live(o)
    BY <1>2 DEF HandleEvent, At, Idle
  <2>2. Go(Reactor, f) /\ UNCHANGED <<m_mapProxy, m_mConn, fd, rmutex, readers, fault>>
    BY <1>2 DEF HandleEvent, Move, connVars, lockVars
  <2> HIDE DEF f
  <2>3. Listed(o)
    BY <2>1 DEF SInv, HandlersOK, UnlistedPcs
  <2>4. HandOK(f)
    BY <2>1, <2>3 DEF HandOK, OpenPcs, ClosePcs, ListedPcs, UnlistedPcs
  <2> QED  BY <1>1, <2>1, <2>2, <2>4, HandStep DEF UnlistedPcs
<1>3. ASSUME BootEnd \/ StopThreads PROVE SInv'
  <2>1. Go(Reactor, Idle) /\ UNCHANGED <<m_mapProxy, m_mConn, fd, rmutex, readers, fault>>
    BY <1>3 DEF BootEnd, StopThreads, connVars, lockVars
  <2>2. th[Reactor].pc \in {"add", "ending"}
    BY <1>3 DEF BootEnd, StopThreads, At
  <2>3. HandOK(Idle) /\ Idle.pc = "idle"
    BY DEF Idle, HandOK, OpenPcs, ClosePcs, ListedPcs, UnlistedPcs
  <2> QED  BY <1>1, <2>1, <2>2, <2>3, HandStep DEF UnlistedPcs
<1>4. ASSUME Stop PROVE SInv'
  <2> DEFINE f == [Idle EXCEPT !.pc = "stopping", !.job = "finalize"]
  <2>1. /\ f.pc = "stopping" /\ f.job = "finalize" /\ f.todo = {} /\ th[Reactor].pc = "idle"
    BY <1>4 DEF Stop, At, Idle
  <2>2. Go(Reactor, f) /\ UNCHANGED <<m_mapProxy, m_mConn, fd, rmutex, readers, fault>>
    BY <1>4 DEF Stop, connVars, lockVars
  <2> HIDE DEF f
  <2>3. HandOK(f)
    BY <2>1 DEF HandOK, OpenPcs, ClosePcs, ListedPcs, UnlistedPcs
  <2> QED  BY <1>1, <2>1, <2>2, <2>3, HandStep DEF UnlistedPcs
<1>5. ASSUME Finalize PROVE SInv'
  <2> DEFINE f == [th[Reactor] EXCEPT !.pc = "prune", !.todo = m_mapProxy]
  <2>1. /\ f.pc = "prune" /\ f.job = th[Reactor].job /\ f.todo = {}
        /\ th[Reactor].pc = "stopping"
    BY <1>1, <1>5 DEF Finalize, At, Frame
  <2>2. Go(Reactor, f) /\ UNCHANGED <<m_mapProxy, m_mConn, fd, rmutex, readers, fault>>
    BY <1>5 DEF Finalize, connVars
  <2> HIDE DEF f
  <2>3. HandOK(f)
    BY <1>1, <2>1 DEF HandOK, OpenPcs, ClosePcs, ListedPcs, UnlistedPcs
  <2> QED  BY <1>1, <2>1, <2>2, <2>3, HandStep DEF UnlistedPcs
<1> QED
  BY <1>2, <1>3, <1>4, <1>5, ServerAccept DEF ReactorStep

\* The timer thread takes the lock and gives it back.
LEMMA ServerTimer ==
  ASSUME OnlyAccepts, IInv, SInv, TimerStep
  PROVE  SInv'
<1>1. Timer \in Threads /\ m_mapProxy = {}
  BY ThreadsType DEF SInv
<1>2. CASE Expire
  <2> DEFINE f == [Idle EXCEPT !.pc = "due", !.job = "rebuild"]
  <2>1. f.pc = "due" /\ f.job = "rebuild" /\ f.todo = {} /\ th[Timer].pc = "idle"
    BY <1>2 DEF Expire, At, Idle
  <2>2. Go(Timer, f) /\ UNCHANGED <<m_mapProxy, m_mConn, fd, rmutex, readers, fault>>
    BY <1>2 DEF Expire, Move, connVars, lockVars
  <2> HIDE DEF f
  <2>3. HandOK(f)
    BY <2>1 DEF HandOK, OpenPcs, ClosePcs, ListedPcs, UnlistedPcs
  <2> QED  BY <1>1, <2>1, <2>2, <2>3, HandStep DEF UnlistedPcs
<1>3. CASE ReBuild
  <2> DEFINE f == [Idle EXCEPT !.pc = "rebuild", !.job = "rebuild", !.todo = m_mapProxy]
  <2>1. f.pc = "rebuild" /\ f.job = "rebuild" /\ f.todo = {} /\ th[Timer].pc = "due"
    BY <1>1, <1>3 DEF ReBuild, At, Idle
  <2>2. Go(Timer, f) /\ UNCHANGED <<m_mapProxy, m_mConn, fd, rmutex, readers, fault>>
    BY <1>3 DEF ReBuild, connVars
  <2> HIDE DEF f
  <2>3. HandOK(f)
    BY <2>1 DEF HandOK, OpenPcs, ClosePcs, ListedPcs, UnlistedPcs
  <2> QED  BY <1>1, <2>1, <2>2, <2>3, HandStep DEF UnlistedPcs
<1>4. CASE ReBuildEnd
  <2>1. /\ Go(Timer, Idle) /\ UNCHANGED <<m_mapProxy, m_mConn, fd, rmutex, readers, fault>>
        /\ th[Timer].pc = "rebuild"
    BY <1>4 DEF ReBuildEnd, connVars, At
  <2>2. HandOK(Idle) /\ Idle.pc = "idle"
    BY DEF Idle, HandOK, OpenPcs, ClosePcs, ListedPcs, UnlistedPcs
  <2> QED  BY <1>1, <2>1, <2>2, HandStep DEF UnlistedPcs
<1> QED
  BY <1>2, <1>3, <1>4, NeverTimer DEF TimerStep

\* A worker on its way to a connection, or turned away.
LEMMA ServerWorker ==
  ASSUME OnlyAccepts, IInv, SInv, NEW w \in Workers, WorkerStep(w)
  PROVE  SInv'
<1>1. w \in Threads /\ w # Reactor /\ th[w] \in Frame /\ HandOK(th[w])
  BY ThreadsType DEF SInv, HandsOK, IInv, TypeOK
<1>2. ASSUME NEW f, Move(w, f), th[w].pc # "send", th[w].pc \notin UnlistedPcs,
             f.todo = {}, f.job # "update",
             f.pc \in {"idle", "route", "getconn", "exist", "write"}
      PROVE  SInv'
  <2>1. Go(w, f) /\ UNCHANGED <<m_mapProxy, m_mConn, fd, rmutex, readers, fault>>
    BY <1>2 DEF Move, connVars, lockVars
  <2>2. HandOK(f)
    BY <1>2 DEF HandOK, OpenPcs, ClosePcs, ListedPcs, UnlistedPcs
  <2> QED  BY <1>1, <1>2, <2>1, <2>2, HandStep
<1>3. ASSUME NEW k \in DispatchKeys, OnDispatch(w, k) PROVE SInv'
  <2> DEFINE f == [Idle EXCEPT !.pc = "route", !.job = "dispatch", !.key = k]
  <2>1. f.pc = "route" /\ f.job = "dispatch" /\ f.todo = {}
    BY DEF Idle
  <2>2. Move(w, f) /\ th[w].pc = "idle"
    BY <1>3 DEF OnDispatch, At
  <2> HIDE DEF f
  <2> QED  BY <1>2, <2>1, <2>2 DEF UnlistedPcs
<1>4. ASSUME NEW s \in DispatchServers, OnDispatchTo(w, s) PROVE SInv'
  <2> DEFINE f == [Idle EXCEPT !.pc = "getconn", !.job = "dispatch", !.svr = s]
  <2>1. f.pc = "getconn" /\ f.job = "dispatch" /\ f.todo = {}
    BY DEF Idle
  <2>2. Move(w, f) /\ th[w].pc = "idle"
    BY <1>4 DEF OnDispatchTo, At
  <2> HIDE DEF f
  <2> QED  BY <1>2, <2>1, <2>2 DEF UnlistedPcs
<1>5. ASSUME NEW h \in ReplyHandles, OnResponse(w, h) PROVE SInv'
  <2> DEFINE f == [Idle EXCEPT !.pc = "exist", !.job = "reply", !.hnd = h]
  <2>1. f.pc = "exist" /\ f.job = "reply" /\ f.todo = {}
    BY DEF Idle
  <2>2. Move(w, f) /\ th[w].pc = "idle"
    BY <1>5 DEF OnResponse, At
  <2> HIDE DEF f
  <2> QED  BY <1>2, <2>1, <2>2 DEF UnlistedPcs
<1>6. Idle.pc = "idle" /\ Idle.job = "none" /\ Idle.todo = {}
  BY DEF Idle
<1>7. ASSUME NoRoute(w) \/ NoConn(w) \/ WriteGone(w) PROVE SInv'
  <2>1. Move(w, Idle) /\ th[w].pc \in {"route", "getconn", "write"}
    BY <1>7 DEF NoRoute, NoConn, WriteGone, At
  <2> QED  BY <1>2, <1>6, <2>1 DEF UnlistedPcs
<1>8. ASSUME NEW h \in Handles, GetConn(w, h) PROVE SInv'
  <2> DEFINE f == [th[w] EXCEPT !.pc = "exist", !.hnd = h]
  <2>1. f.pc = "exist" /\ f.job = th[w].job /\ f.todo = th[w].todo
    BY <1>1 DEF Frame
  <2>2. Move(w, f) /\ th[w].pc = "getconn"
    BY <1>8 DEF GetConn, At
  <2> HIDE DEF f
  <2> QED  BY <1>1, <1>2, <2>1, <2>2 DEF UnlistedPcs, HandOK
<1>9. ASSUME IsExist(w) PROVE SInv'
  <2> DEFINE f == IF m_mConn[th[w].hnd] = None THEN Idle ELSE [th[w] EXCEPT !.pc = "write"]
  <2>1. f.pc \in {"idle", "write"} /\ f.job \in {"none", th[w].job} /\ f.todo = {}
    BY <1>1, <1>6 DEF Frame, HandOK
  <2>2. Move(w, f) /\ th[w].pc = "exist"
    BY <1>9 DEF IsExist, At
  <2> HIDE DEF f
  <2> QED  BY <1>1, <1>2, <2>1, <2>2 DEF UnlistedPcs, HandOK
<1>10. ASSUME RouteRace(w) PROVE SInv'
  BY <1>10, FaultKeeps DEF RouteRace
<1> QED
  BY <1>1, <1>3, <1>4, <1>5, <1>7, <1>8, <1>9, <1>10, NeverStep, ServerWrite, ServerSvcWrite
     DEF WorkerStep

\* Every step of such a process keeps the invariant.
LEMMA ServerStep ==
  ASSUME OnlyAccepts, IInv, SInv, [Next]_vars
  PROVE  SInv'
<1>1. ASSUME UNCHANGED vars PROVE SInv'
  BY <1>1 DEF vars, connVars, lockVars, SInv, HandsOK, HandOK, HandlersOK, ReadersOK,
     ConnIsOpen, NoUseAfterDestroy, Listed, Unlisted, Live
<1>2. ASSUME NEW t \in Threads, ThreadStep(t) PROVE SInv'
  <2>1. ASSUME UseUninitialised(t) PROVE SInv'
    BY <2>1, FaultKeeps DEF UseUninitialised
  <2> QED
    BY <1>2, <2>1, NeverStep, NoUse, ServerMoves, ServerAddConn, ServerRmConn, ServerDestroy
       DEF ThreadStep
<1> QED
  BY <1>1, <1>2, ServerReactor, ServerTimer, ServerWorker DEF Next, Running, Ended

----------------------------------------------------------------------------
(* Theorems.                                                                *)

\* The invariant of a process that only accepts.
THEOREM ServerInvariant ==
  ASSUME OnlyAccepts
  PROVE  Spec => [](IInv /\ SInv)
<1>1. Init => IInv /\ SInv
  BY InitInv, ServerInit
<1>2. (IInv /\ SInv) /\ [Next]_vars => (IInv /\ SInv)'
  BY StepInv, ServerStep
<1> QED
  BY <1>1, <1>2, PTL DEF Spec

\* No thread of such a process uses a handler that was deleted (connmgr.cpp:77).
THEOREM ServerMemorySafe ==
  ASSUME OnlyAccepts
  PROVE  Spec => []NoUseAfterDestroy
<1>1. SInv => NoUseAfterDestroy
  BY DEF SInv
<1> QED
  BY <1>1, ServerInvariant, PTL

\* m_mConn has no entry of a connection that is closed.
THEOREM ServerConnIsOpen ==
  ASSUME OnlyAccepts
  PROVE  Spec => []ConnIsOpen
<1>1. SInv => ConnIsOpen
  BY DEF SInv
<1> QED
  BY <1>1, ServerInvariant, PTL

\* A connection that is neither being opened nor closed is found by its handle,
\* whoever writes to it meanwhile.
THEOREM ServerOpenIsKnown ==
  ASSUME OnlyAccepts
  PROVE  Spec => []OpenIsKnown
<1>1. ASSUME IInv, SInv PROVE OpenIsKnown
  <2> SUFFICES ASSUME NEW o \in Svcs, Live(o),
                      \A t \in Threads : th[t].obj # o \/ At(t, "send")
               PROVE  m_mConn[fd[o]] = o
    BY DEF OpenIsKnown
  <2>1. th[Reactor].obj # o \/ th[Reactor].pc = "send"
    BY ThreadsType DEF At
  <2> QED  BY <2>1, <1>1 DEF SInv, HandlersOK, Listed, UnlistedPcs
<1> QED
  BY <1>1, ServerInvariant, PTL

----------------------------------------------------------------------------
(* A process that never updates its routes, and what its destructor leaves. *)

\* The threads that open and close connections when nobody updates the routes.
Main == {Reactor, Timer}

Closing(o) == th[Reactor].pc \in ClosePcs /\ th[Reactor].obj = o
OpenedBy(t, o) == th[t].pc \in OpenPcs /\ th[t].obj = o

\* A connection with a server that no thread has in hand.
Settled(o) ==
  /\ Live(o) /\ peer[o] \in Servers /\ ~Closing(o)
  /\ \A t \in Main : ~OpenedBy(t, o)

\* Descriptors in use are distinct, and an entry of m_mConn stands for no other.
HandlersF ==
  /\ \A o1, o2 \in Svcs : Live(o1) /\ fd[o1] = fd[o2] => o1 = o2
  /\ \A o \in Svcs : ~Live(o) => peer[o] = None
  /\ \A h \in Handles : m_mConn[h] # None => fd[m_mConn[h]] \in {h, None}

\* A server is opened only while it is registered; a handler being opened has its
\* entry by the time its session is added, unless the reactor is closing it.
OpeningF(f) ==
  /\ f.pc \in OpenPcs \cup {"connect"} /\ f.job # "accept" => f.svr \in registered
  /\ f.pc = "addsvr" => f.obj \in Svcs
  /\ f.pc \in {"addr", "addsvr"} /\ Live(f.obj) =>
       /\ f.hnd = fd[f.obj]
       /\ Closing(f.obj) \/ m_mConn[f.hnd] # None
  /\ f.pc = "addsvr" /\ Live(f.obj) => f.adr = peer[f.obj]

\* The reactor knows the handler it closes, but an entry closeSvr found may be stale.
ClosingF(f) ==
  /\ f.pc \in ClosePcs => f.obj \in Svcs
  /\ f.pc = "closing" => Live(f.obj) \/ f.job = "finalize"
  /\ f.pc \in ClosePcs \ {"closing"} => Live(f.obj)
  /\ f.pc \in {"rmconn", "rmsvrconn"} => f.hnd = fd[f.obj]

\* A connection no thread has in hand is known to both tables.
SettledF ==
  \A o \in Svcs : Settled(o) =>
    fd[o] \in sessions[peer[o]] /\ m_mConn[fd[o]] # None

\* No server is under two keys.
UniqueF ==
  \A j, k \in Keys, s \in Servers :
    <<j, s>> \in m_mapProxy /\ <<k, s>> \in m_mapProxy => j = k

\* Finalize still has the servers and connections there are before it, unless it
\* is about to use a handler that is gone.
ToCome(f, s) == \E k \in Keys : <<k, s>> \in f.todo
InLoop(f) == f.pc \in ClosePcs \cup {"closesvr"}
FinalizingF(f) ==
  /\ f.job = "finalize" /\ (InLoop(f) \/ f.pc = "prune")
  /\ ~(f.pc = "closing" /\ ~Live(f.obj))
  =>
    /\ \A j, k \in Keys, s \in Servers :
         <<j, s>> \in f.todo /\ <<k, s>> \in f.todo => j = k
    /\ InLoop(f) => ~ToCome(f, f.svr)
    /\ \A s \in registered : ToCome(f, s) \/ (InLoop(f) /\ s = f.svr)
    /\ \A o \in Svcs : Settled(o) =>
         \/ ToCome(f, peer[o])
         \/ InLoop(f) /\ peer[o] = f.svr /\ fd[o] \in f.hset

\* After finalize no server is registered and none has a connection.
FinalizedF ==
  phase = "end" \/ th[Reactor].pc = "ending" =>
    /\ registered = {}
    /\ \A o \in Svcs : peer[o] \notin Servers

\* With one session a server there is nothing to trim.
NoTrimF == th[Timer].pc \notin {"trim", "trimrm"}

FInv ==
  /\ HandlersF
  /\ \A t \in Main : OpeningF(th[t])
  /\ ClosingF(th[Reactor])
  /\ SettledF
  /\ UniqueF
  /\ FinalizingF(th[Reactor])
  /\ FinalizedF
  /\ NoTrimF

\* The process FInv is about.
NoUpdates == RouterMaps = {} /\ Disjoint

\* All there is to know of the frames in such a process.
LEMMA MainFrames ==
  ASSUME NoUpdates, IInv, UInv, NEW t \in Threads
  PROVE  /\ th[t] \in Frame /\ ThreadOK(t, th[t])
         /\ th[t].job # "update"
         /\ th[t].pc \in OpenPcs \cup {"connect"} =>
              \/ t = Timer /\ th[t].job = "rebuild"
              \/ t = Reactor /\ th[t].job \in {"boot", "accept"}
         /\ th[t].pc = "connect" => th[t].job # "accept"
         /\ th[t].pc \in ClosePcs => t = Reactor /\ th[t].job \in {"event", "finalize"}
         /\ th[t].pc \in {"closesvr", "prune"} => t = Reactor /\ th[t].job = "finalize"
         /\ th[t].pc \in {"add", "insert"} => t = Reactor /\ th[t].job = "boot"
         /\ th[t].job = "boot" => phase = "boot"
         /\ th[t].job = "finalize" => phase = "stop"
<1>1. th[t] \in Frame /\ ThreadOK(t, th[t]) /\ UpdateOK(t, th[t])
  BY DEF IInv, TypeOK, ThreadsOK, UInv, UpdatesOK
<1>2. th[t].job # "update"
  BY <1>1 DEF UpdateOK, NoUpdates
<1> QED
  BY <1>1, <1>2 DEF ThreadOK, FrameOK, JobOK, OpenPcs, ClosePcs

\* While the reactor removes servers in finalize, no connection with one is opened.
LEMMA OneLoop ==
  ASSUME NoUpdates, IInv, UInv, th[Reactor].job = "finalize",
         InLoop(th[Reactor]) \/ th[Reactor].pc = "prune"
  PROVE  /\ th[Timer].pc \notin OpenPcs \cup {"connect"}
         /\ \A t \in Main : th[t].pc \notin OpenPcs \cup {"connect"}
<1>1. proxyLock = Reactor
  BY MainFrames, ThreadsType DEF ThreadOK, InProxy, InLoop
<1>2. th[Timer].pc \notin OpenPcs \cup {"connect"}
  BY <1>1, MainFrames, ThreadsType DEF ThreadOK, InProxy, OpenPcs
<1>3. th[Reactor].pc \notin OpenPcs \cup {"connect"}
  BY DEF InLoop, OpenPcs, ClosePcs
<1> QED
  BY <1>2, <1>3 DEF Main

\* A step of a thread of Main that changes its frame, but no table and no handler,
\* keeps FInv if it does not lay down a live handler it has in hand.
LEMMA MoveF ==
  ASSUME FInv, NEW t \in Main, NEW f, th'[t] = f,
         \A u \in Main : u # t => th'[u] = th[u],
         UNCHANGED <<registered, sessions, m_mConn, fd, peer>>, UniqueF',
         OpeningF(f),
         th[t].pc \notin OpenPcs \/ (f.pc \in OpenPcs /\ f.obj = th[t].obj),
         t = Reactor => /\ th[t].pc \notin ClosePcs \/ (f.pc \in ClosePcs /\ f.obj = th[t].obj)
                        /\ ClosingF(f) /\ FinalizingF(f),
         t = Timer => f.pc \notin {"trim", "trimrm"},
         FinalizedF'
  PROVE  FInv'
<1>1. Reactor \in Main /\ Timer \in Main /\ Reactor # Timer
  BY ThreadsType DEF Main
<1>2. \A o : Live(o)' <=> Live(o)
  BY DEF Live
<1>3. \A o : Closing(o) => Closing(o)'
  BY <1>1 DEF Closing
<1>4. \A u \in Main, o \in Svcs : OpenedBy(u, o) => OpenedBy(u, o)'
  BY DEF OpenedBy
<1>5. \A o \in Svcs : Settled(o)' => Settled(o)
  BY <1>2, <1>3, <1>4 DEF Settled
<1>6. HandlersF'
  BY DEF FInv, HandlersF, Live
<1>7. ASSUME NEW u \in Main PROVE OpeningF(th[u])'
  <2>1. OpeningF(th'[u])
    BY DEF FInv
  <2> QED
    BY <1>2, <1>3, <2>1 DEF OpeningF
<1>8. ClosingF(th[Reactor])'
  <2>1. ClosingF(th'[Reactor])
    BY <1>1 DEF FInv
  <2> QED
    BY <1>2, <2>1 DEF ClosingF
<1>9. SettledF'
  BY <1>5 DEF FInv, SettledF
<1>10. FinalizingF(th[Reactor])'
  <2>1. FinalizingF(th'[Reactor])
    BY <1>1 DEF FInv
  <2> QED
    BY <1>2, <1>5, <2>1 DEF FinalizingF, ToCome, InLoop
<1>11. NoTrimF'
  BY <1>1 DEF FInv, NoTrimF
<1> QED
  BY <1>6, <1>7, <1>8, <1>9, <1>10, <1>11 DEF FInv

\* The same for a thread of Main that goes on, before the destructor is over.
LEMMA GoF ==
  ASSUME IInv, FInv, NEW t \in Main, NEW f, Go(t, f),
         UNCHANGED <<registered, sessions, m_mConn, fd, peer>>, UniqueF',
         phase' # "end" \/ phase' = phase, f.pc \notin {"ending", "trim", "trimrm"},
         OpeningF(f),
         th[t].pc \notin OpenPcs \/ (f.pc \in OpenPcs /\ f.obj = th[t].obj),
         t = Reactor => /\ th[t].pc \notin ClosePcs \/ (f.pc \in ClosePcs /\ f.obj = th[t].obj)
                        /\ ClosingF(f) /\ FinalizingF(f)
  PROVE  FInv'
<1>1. /\ t \in Threads /\ Main \subseteq Threads
      /\ Reactor \in Main /\ Timer \in Main /\ Reactor # Timer
  BY ThreadsType DEF Main
<1>2. th'[t] = f /\ \A u \in Threads : u # t => th'[u] = th[u]
  BY <1>1, OneMoves
<1>3. FinalizedF'
  BY <1>1, <1>2 DEF FInv, FinalizedF
<1> QED
  BY <1>1, <1>2, <1>3, MoveF

\* The steps of other threads have nothing to do with connections.
LEMMA OtherF ==
  ASSUME FInv, th'[Reactor] = th[Reactor], th'[Timer] = th[Timer],
         UNCHANGED <<registered, sessions, m_mConn, fd, peer, phase>>, UniqueF'
  PROVE  FInv'
<1>1. Timer \in Main /\ Reactor # Timer /\ \A u \in Main : th'[u] = th[u]
  BY ThreadsType DEF Main
<1>2. FinalizedF'
  BY DEF FInv, FinalizedF
<1>3. OpeningF(th[Timer]) /\ th[Timer].pc \notin {"trim", "trimrm"}
  BY <1>1 DEF FInv, NoTrimF
<1> QED
  BY <1>1, <1>2, <1>3, MoveF

\* A connection attempt that fails leaves nothing in hand.
LEMMA ConnectFailF ==
  ASSUME NoUpdates, IInv, UInv, FInv, UniqueF', NEW t \in Main, ConnectFail(t)
  PROVE  FInv'
<1> DEFINE f == AfterOpen(t)
<1>1. t \in Threads /\ th[t] \in Frame /\ th[t].pc = "connect"
  BY MainFrames, ThreadsType DEF Main, ConnectFail, At
<1>2. th[t].job \in {"boot", "rebuild"}
  BY <1>1, MainFrames
<1>3. f.pc \in {"insert", "rebuild"} /\ f.job = th[t].job
  BY <1>1, <1>2 DEF AfterOpen, Frame
<1> HIDE DEF f
<1>4. OpeningF(f) /\ ClosingF(f) /\ FinalizingF(f)
  BY <1>2, <1>3 DEF OpeningF, ClosingF, FinalizingF, OpenPcs, ClosePcs
<1>5. Go(t, f) /\ UNCHANGED <<registered, sessions, m_mConn, fd, peer, phase>>
  BY DEF f, ConnectFail, Move, sessionVars, connVars
<1> QED
  BY <1>1, <1>3, <1>4, <1>5, GoF DEF OpenPcs, ClosePcs

\* The address read is that of the handler in hand.
LEMMA GetRemoteAddrF ==
  ASSUME NoUpdates, IInv, UInv, FInv, UniqueF', NEW t \in Main, GetRemoteAddr(t)
  PROVE  FInv'
<1> DEFINE f == [th[t] EXCEPT !.pc = "addsvr", !.adr = peer[th[t].obj]]
<1>1. t \in Threads /\ th[t] \in Frame /\ th[t].pc = "addr" /\ ThreadOK(t, th[t])
  BY MainFrames, ThreadsType DEF Main, GetRemoteAddr, At
<1>2. th[t].job \in {"boot", "accept", "rebuild"}
  BY <1>1, MainFrames DEF OpenPcs
<1>3. /\ f.pc = "addsvr" /\ f.job = th[t].job /\ f.obj = th[t].obj
      /\ f.svr = th[t].svr /\ f.hnd = th[t].hnd /\ f.adr = peer[f.obj]
  BY <1>1 DEF Frame
<1> HIDE DEF f
<1>4. f.obj \in Svcs
  BY <1>1, <1>3 DEF ThreadOK, FrameOK, FieldsOK
<1>5. OpeningF(th[t])
  BY DEF FInv
<1>6. OpeningF(f) /\ ClosingF(f) /\ FinalizingF(f)
  BY <1>1, <1>2, <1>3, <1>4, <1>5 DEF OpeningF, ClosingF, FinalizingF, OpenPcs, ClosePcs
<1>7. Go(t, f) /\ UNCHANGED <<registered, sessions, m_mConn, fd, peer, phase>>
  BY DEF f, GetRemoteAddr, Move, sessionVars, connVars
<1> QED
  BY <1>1, <1>3, <1>6, <1>7, GoF DEF OpenPcs, ClosePcs

\* The reactor begins to close a live handler.
LEMMA HandleEventF ==
  ASSUME NoUpdates, IInv, UInv, FInv, UniqueF', NEW o \in Svcs, HandleEvent(o)
  PROVE  FInv'
<1> DEFINE f == [Idle EXCEPT !.pc = "closing", !.job = "event", !.obj = o]
<1>1. Reactor \in Main /\ th[Reactor].pc = "idle"
  BY DEF Main, HandleEvent, At
<1>2. f.pc = "closing" /\ f.job = "event" /\ f.obj = o
  BY DEF Idle
<1> HIDE DEF f
<1>3. OpeningF(f) /\ ClosingF(f) /\ FinalizingF(f)
  BY <1>2 DEF OpeningF, ClosingF, FinalizingF, OpenPcs, ClosePcs, HandleEvent
<1>4. Go(Reactor, f) /\ UNCHANGED <<registered, sessions, m_mConn, fd, peer, phase>>
  BY DEF f, HandleEvent, Move, sessionVars, connVars
<1> QED
  BY <1>1, <1>2, <1>3, <1>4, GoF DEF OpenPcs, ClosePcs

\* The reactor reads the handle and the address of the handler it closes.
LEMMA HandleCloseF ==
  ASSUME NoUpdates, IInv, UInv, FInv, UniqueF', HandleClose(Reactor)
  PROVE  FInv'
<1>0. PICK a \in Peers \cup {None} :
        Move(Reactor, [th[Reactor] EXCEPT !.pc = "rmconn", !.hnd = fd[th[Reactor].obj],
                                          !.adr = a])
  BY DEF HandleClose
<1> DEFINE f == [th[Reactor] EXCEPT !.pc = "rmconn", !.hnd = fd[th[Reactor].obj],
                                    !.adr = a]
           g == th[Reactor]
<1>1. Reactor \in Main /\ g \in Frame /\ g.pc = "closing" /\ Live(g.obj)
  BY MainFrames, ThreadsType DEF Main, HandleClose, At
<1>2. /\ f.pc = "rmconn" /\ f.job = g.job /\ f.obj = g.obj
      /\ f.svr = g.svr /\ f.hnd = fd[f.obj]
      /\ f.todo = g.todo /\ f.hset = g.hset
  BY <1>1 DEF Frame
<1>3. Go(Reactor, f) /\ UNCHANGED <<registered, sessions, m_mConn, fd, peer, phase>>
  BY <1>0 DEF f, Move, sessionVars, connVars
<1> HIDE DEF f
<1>4. OpeningF(f)
  BY <1>2 DEF OpeningF, OpenPcs
<1>5. ClosingF(f)
  BY <1>1, <1>2 DEF FInv, ClosingF, ClosePcs
<1>6. FinalizingF(f)
  <2>1. FinalizingF(g)
    BY DEF FInv
  <2> HIDE DEF g
  <2> QED
    BY <1>1, <1>2, <2>1 DEF FinalizingF, InLoop, ToCome, ClosePcs
<1> QED
  BY <1>1, <1>2, <1>3, <1>4, <1>5, <1>6, GoF DEF OpenPcs, ClosePcs

\* Steps of the reactor outside of opening and closing.
LEMMA ReactorMovesF ==
  ASSUME NoUpdates, IInv, UInv, FInv, UniqueF'
  PROVE  /\ \A r \in Routes : RefuseSvr(Reactor, r) => FInv'
         /\ InsertRoute(Reactor) => FInv'
         /\ BootEnd => FInv'
         /\ Stop => FInv'
<1> DEFINE g == th[Reactor]
<1>1. Reactor \in Main /\ g \in Frame
  BY MainFrames, ThreadsType DEF Main
<1>2. g.pc \in {"add", "insert"} => g.job = "boot"
  BY MainFrames, ThreadsType
<1>3. ASSUME NEW f, Go(Reactor, f), UNCHANGED <<registered, sessions, m_mConn, fd, peer>>,
             phase' # "end" \/ phase' = phase,
             g.pc \in {"add", "insert", "idle"}, f.pc \in {"add", "idle", "stopping"}
      PROVE  FInv'
  <2>1. OpeningF(f) /\ ClosingF(f) /\ FinalizingF(f)
    BY <1>3 DEF OpeningF, ClosingF, FinalizingF, OpenPcs, ClosePcs, InLoop
  <2> QED
    BY <1>1, <1>3, <2>1, GoF DEF OpenPcs, ClosePcs
<1>4. ASSUME NEW r \in Routes, RefuseSvr(Reactor, r) PROVE FInv'
  BY <1>1, <1>3, <1>4 DEF RefuseSvr, Move, At, Frame, sessionVars, connVars
<1>5. ASSUME InsertRoute(Reactor) PROVE FInv'
  BY <1>1, <1>3, <1>5 DEF InsertRoute, At, Frame, sessionVars, connVars
<1>6. ASSUME BootEnd PROVE FInv'
  BY <1>1, <1>3, <1>6 DEF BootEnd, At, Idle, sessionVars, connVars
<1>7. ASSUME Stop PROVE FInv'
  BY <1>1, <1>3, <1>7 DEF Stop, At, Idle, sessionVars, connVars
<1> QED
  BY <1>4, <1>5, <1>6, <1>7

\* finalize begins with all servers and all connections still to come.
LEMMA FinalizeF ==
  ASSUME NoUpdates, IInv, UInv, FInv, UniqueF', Finalize
  PROVE  FInv'
<1> DEFINE f == [th[Reactor] EXCEPT !.pc = "prune", !.todo = m_mapProxy]
<1>1. Reactor \in Main /\ th[Reactor] \in Frame /\ th[Reactor].pc = "stopping"
  BY MainFrames, ThreadsType DEF Main, Finalize, At
<1>2. f.pc = "prune" /\ f.todo = m_mapProxy
  BY <1>1 DEF Frame
<1>3. Go(Reactor, f) /\ UNCHANGED <<registered, sessions, m_mConn, fd, peer, phase>>
  BY DEF f, Finalize, sessionVars, connVars
<1> HIDE DEF f
<1>4. OpeningF(f) /\ ClosingF(f)
  BY <1>2 DEF OpeningF, ClosingF, OpenPcs, ClosePcs
<1>5. \A s \in registered : ToCome(f, s)
  <2>1. \A u \in Threads : ~Adding(th[u])
    BY OnlyHolderAdds, ThreadsType DEF Finalize
  <2> QED
    BY <1>2, <2>1 DEF UInv, KnownOK, BeingAdded, Routed, ToCome
<1>6. \A o \in Svcs : Settled(o) => ToCome(f, peer[o])
  <2> SUFFICES ASSUME NEW o \in Svcs, Settled(o) PROVE ToCome(f, peer[o])
    OBVIOUS
  <2>1. peer[o] \in Servers /\ fd[o] \in sessions[peer[o]]
    BY DEF FInv, SettledF, Settled
  <2>2. peer[o] \in registered
    BY <2>1 DEF IInv, SessionsOK
  <2> QED
    BY <1>5, <2>2
<1>7. FinalizingF(f)
  BY <1>2, <1>5, <1>6 DEF FinalizingF, FInv, UniqueF, InLoop, ClosePcs
<1> QED
  BY <1>1, <1>2, <1>3, <1>4, <1>7, GoF DEF OpenPcs, ClosePcs

\* closeSvr takes the handles of the next server.
LEMMA CloseSvrF ==
  ASSUME NoUpdates, IInv, UInv, FInv, UniqueF', NEW r \in Routes, CloseSvr(Reactor, r)
  PROVE  FInv'
<1> DEFINE g == th[Reactor]
           f == [g EXCEPT !.pc = "closesvr", !.key = r[1], !.svr = r[2],
                          !.todo = @ \ {r}, !.hset = sessions[r[2]]]
<1>1. /\ Reactor \in Main /\ g \in Frame /\ g.pc = "prune" /\ r \in g.todo
      /\ g.job = "finalize"
  BY MainFrames, ThreadsType DEF Main, CloseSvr, At
<1>2. /\ f.pc = "closesvr" /\ f.job = g.job /\ f.svr = r[2]
      /\ f.todo = g.todo \ {r} /\ f.hset = sessions[r[2]]
  BY <1>1 DEF Frame
<1>3. Go(Reactor, f) /\ UNCHANGED <<registered, sessions, m_mConn, fd, peer, phase>>
  BY DEF f, CloseSvr, Move, sessionVars, connVars
<1>4. FinalizingF(g)
  BY DEF FInv
<1>5. \A s : ToCome(g, s) => ToCome(f, s) \/ s = r[2]
  BY <1>2 DEF ToCome
<1>6. ~ToCome(f, r[2])
  <2> SUFFICES ASSUME NEW k \in Keys, <<k, r[2]>> \in f.todo PROVE FALSE
    BY DEF ToCome
  <2>1. r = <<r[1], r[2]>> /\ r[1] \in Keys /\ r[2] \in Servers
    BY DEF Routes
  <2>2. <<k, r[2]>> \in g.todo /\ <<r[1], r[2]>> \in g.todo
    BY <1>1, <1>2, <2>1
  <2>3. k = r[1]
    BY <1>1, <1>4, <2>1, <2>2 DEF FinalizingF, InLoop
  <2> QED
    BY <1>2, <2>1, <2>3
<1> HIDE DEF f, g
<1>7. FinalizingF(f)
  <2>1. \A s \in registered : ToCome(f, s) \/ s = f.svr
    BY <1>1, <1>2, <1>4, <1>5 DEF FinalizingF, InLoop, ClosePcs
  <2>2. \A o \in Svcs : Settled(o) =>
          ToCome(f, peer[o]) \/ (peer[o] = f.svr /\ fd[o] \in f.hset)
    BY <1>1, <1>2, <1>4, <1>5 DEF FinalizingF, InLoop, ClosePcs, FInv, SettledF
  <2>3. \A j, k \in Keys, s \in Servers :
          <<j, s>> \in f.todo /\ <<k, s>> \in f.todo => j = k
    BY <1>1, <1>2, <1>4 DEF FinalizingF, InLoop, ClosePcs
  <2> QED
    BY <1>2, <1>6, <2>1, <2>2, <2>3 DEF FinalizingF, InLoop
<1>8. OpeningF(f) /\ ClosingF(f)
  BY <1>2 DEF OpeningF, ClosingF, OpenPcs, ClosePcs
<1> QED
  BY <1>1, <1>2, <1>3, <1>7, <1>8, GoF DEF g, OpenPcs, ClosePcs

\* close() for the next handle finds its handler, or one that is gone.
LEMMA CloseHandleF ==
  ASSUME NoUpdates, IInv, UInv, FInv, UniqueF', NEW h \in Handles,
         CloseHandle(Reactor, h)
  PROVE  FInv'
<1> DEFINE g == th[Reactor]
           x == m_mConn[h]
<1>1. /\ Reactor \in Main /\ g \in Frame /\ g.pc = "closesvr"
      /\ g.job = "finalize" /\ x \in Svcs \cup {None}
  BY MainFrames, ThreadsType DEF Main, CloseHandle, At, IInv, TypeOK
<1>2. UNCHANGED <<registered, sessions, m_mConn, fd, peer, phase>>
  BY DEF CloseHandle, sessionVars, connVars
<1>3. FinalizingF(g)
  BY DEF FInv
<1>4. CASE x = None
  <2> DEFINE f == [g EXCEPT !.hset = @ \ {h}]
  <2>1. /\ f.pc = "closesvr" /\ f.job = g.job /\ f.svr = g.svr
        /\ f.todo = g.todo /\ f.hset = g.hset \ {h}
    BY <1>1 DEF Frame
  <2>2. Go(Reactor, f)
    BY <1>4 DEF CloseHandle
  <2> HIDE DEF f, g
  <2>3. \A o \in Svcs : Settled(o) => fd[o] # h
    BY <1>4 DEF FInv, SettledF
  <2>4. FinalizingF(f)
    BY <1>1, <1>3, <2>1, <2>3 DEF FinalizingF, InLoop, ToCome, ClosePcs
  <2>5. OpeningF(f) /\ ClosingF(f)
    BY <2>1 DEF OpeningF, ClosingF, OpenPcs, ClosePcs
  <2> QED
    BY <1>1, <1>2, <2>1, <2>2, <2>4, <2>5, GoF DEF g, OpenPcs, ClosePcs
<1>5. CASE x # None
  <2> DEFINE f == [g EXCEPT !.pc = "closing", !.obj = x, !.hset = @ \ {h}]
  <2>1. /\ f.pc = "closing" /\ f.job = g.job /\ f.svr = g.svr /\ f.obj = x
        /\ f.todo = g.todo /\ f.hset = g.hset \ {h}
    BY <1>1 DEF Frame
  <2>2. Go(Reactor, f)
    BY <1>5 DEF CloseHandle
  <2>3. Reactor \in Threads /\ th'[Reactor] = f
    BY <2>2, OneMoves, ThreadsType
  <2>4. /\ th' \in [Threads -> Frame]
        /\ \A u \in Threads : u # Reactor => th'[u] = th[u]
    BY <1>1, <1>5, <2>2, <2>3, OneMoves DEF Frame, Pcs, IInv, TypeOK, Go
  <2>5. /\ Main \subseteq Threads /\ Timer \in Main /\ Reactor # Timer
        /\ th'[Timer] = th[Timer] /\ \A u \in Main : u # Reactor => th'[u] = th[u]
    BY <2>4, ThreadsType DEF Main
  <2>6. x \in Svcs /\ fd[x] \in {h, None}
    BY <1>1, <1>5 DEF FInv, HandlersF
  <2> HIDE DEF f, g, x
  <2>7. \A o : Live(o)' <=> Live(o)
    BY <1>2 DEF Live
  <2>8. \A o \in Svcs : Settled(o)' => Settled(o) /\ o # x
    <3>1. \A o : ~Closing(o)
      BY <1>1 DEF g, Closing, ClosePcs
    <3>2. \A o : Closing(o)' <=> o = x
      BY <2>1, <2>3 DEF Closing, ClosePcs
    <3>3. \A u \in Main : \A o : OpenedBy(u, o)' <=> OpenedBy(u, o)
      BY <1>1, <2>1, <2>3, <2>5 DEF g, OpenedBy, OpenPcs
    <3> QED
      BY <1>2, <2>7, <3>1, <3>2, <3>3 DEF Settled
  <2>9. HandlersF'
    BY <1>2, <2>7 DEF FInv, HandlersF
  <2>10. ASSUME NEW u \in Main PROVE OpeningF(th[u])'
    <3>1. \A o : ~Closing(o)
      BY <1>1 DEF g, Closing, ClosePcs
    <3>2. CASE u = Reactor
      BY <2>1, <2>3, <3>2 DEF OpeningF, OpenPcs
    <3>3. CASE u # Reactor
      BY <1>2, <2>5, <2>7, <3>1, <3>3 DEF FInv, OpeningF
    <3> QED
      BY <3>2, <3>3
  <2>11. ClosingF(th[Reactor])'
    BY <1>1, <2>1, <2>3, <2>6, <2>7 DEF ClosingF, ClosePcs
  <2>12. SettledF'
    BY <1>2, <2>8 DEF FInv, SettledF
  <2>13. FinalizingF(th[Reactor])'
    <3>1. CASE ~Live(x)
      BY <2>1, <2>3, <2>7, <3>1 DEF FinalizingF
    <3>2. CASE Live(x)
      <4>1. fd[x] = h
        BY <2>6, <3>2 DEF Live
      <4>2. \A o \in Svcs : Settled(o)' => fd[o] # h
        BY <2>6, <2>8, <4>1 DEF FInv, HandlersF, Settled
      <4> QED
        BY <1>1, <1>2, <1>3, <2>1, <2>3, <2>8, <4>2
           DEF FinalizingF, InLoop, ToCome, ClosePcs
    <3> QED
      BY <3>1, <3>2
  <2>14. FinalizedF' /\ NoTrimF'
    BY <1>2, <2>1, <2>3, <2>5 DEF FInv, FinalizedF, NoTrimF
  <2> QED
    BY <2>9, <2>10, <2>11, <2>12, <2>13, <2>14 DEF FInv
<1> QED
  BY <1>4, <1>5

\* What a step of t leaves of the frames of Main.
LEMMA MainMoves ==
  ASSUME IInv, NEW t \in Main, NEW f, Go(t, f)
  PROVE  /\ t \in Threads /\ Main \subseteq Threads
         /\ Reactor \in Main /\ Timer \in Main /\ Reactor # Timer
         /\ th'[t] = f
         /\ \A u \in Main : u # t => th'[u] = th[u]
<1>1. /\ t \in Threads /\ Main \subseteq Threads
      /\ Reactor \in Main /\ Timer \in Main /\ Reactor # Timer
  BY ThreadsType DEF Main
<1> QED
  BY <1>1, OneMoves

\* A connection is made: the new handler is in hand, and no other changes.
LEMMA NewSvcF ==
  ASSUME NoUpdates, IInv, UInv, FInv, UniqueF', NEW t \in Main, NEW f, Go(t, f),
         NEW o \in Svcs, NEW h \in Handles, NEW p, NewSvc(t, o, h, p),
         UNCHANGED <<registered, sessions, m_mConn, phase>>,
         th[t].pc \in {"idle", "connect"},
         f.pc = "open", f.obj = o, f.job # "finalize",
         f.job # "accept" => f.svr \in registered,
         FinalizedF'
  PROVE  FInv'
<1>1. /\ t \in Threads /\ Main \subseteq Threads
      /\ Reactor \in Main /\ Timer \in Main /\ Reactor # Timer
      /\ th'[t] = f
      /\ \A u \in Main : u # t => th'[u] = th[u]
  BY MainMoves
<1>2. /\ fd \in [Svcs -> Handles \cup {None}] /\ peer \in [Svcs -> Peers \cup {None}]
      /\ m_mConn \in [Handles -> Svcs \cup {None}] /\ None \notin Handles
  BY NoneAssumption DEF IInv, TypeOK
<1>3. /\ fd' = [fd EXCEPT ![o] = h] /\ peer' = [peer EXCEPT ![o] = p]
      /\ ~Live(o) /\ (\A u \in Threads : th[u].obj # o)
      /\ (\A k \in Handles : m_mConn[k] # o) /\ (\A q \in Svcs : fd[q] # h)
  BY DEF NewSvc, Fresh, FreeHandle
<1>4. /\ fd'[o] = h /\ Live(o)'
      /\ \A q \in Svcs : q # o => fd'[q] = fd[q] /\ peer'[q] = peer[q]
      /\ \A q \in Svcs : q # o => (Live(q)' <=> Live(q))
  BY <1>2, <1>3 DEF Live
<1>5. HandlersF'
  <2>1. \A o1, o2 \in Svcs : Live(o1)' /\ fd'[o1] = fd'[o2] => o1 = o2
    BY <1>2, <1>3, <1>4 DEF FInv, HandlersF
  <2>2. \A q \in Svcs : ~Live(q)' => peer'[q] = None
    BY <1>4 DEF FInv, HandlersF
  <2>3. \A k \in Handles : m_mConn[k] # None => fd'[m_mConn[k]] \in {k, None}
    BY <1>2, <1>3, <1>4 DEF FInv, HandlersF
  <2> QED
    BY <2>1, <2>2, <2>3 DEF HandlersF
<1>6. \A q : Closing(q)' <=> Closing(q)
  BY <1>1 DEF Closing, ClosePcs
<1>7. \A q \in Svcs : Settled(q)' => q # o /\ Settled(q)
  <2>1. OpenedBy(t, o)'
    BY <1>1 DEF OpenedBy, OpenPcs
  <2>2. \A u \in Main : \A q \in Svcs : OpenedBy(u, q) => OpenedBy(u, q)'
    BY <1>1 DEF OpenedBy, OpenPcs
  <2> QED
    BY <1>4, <1>6, <2>1, <2>2 DEF Settled
<1>8. ASSUME NEW u \in Main PROVE OpeningF(th[u])'
  <2>1. CASE u = t
    BY <1>1, <2>1 DEF OpeningF
  <2>2. CASE u # t
    <3>1. OpeningF(th[u]) /\ th'[u] = th[u] /\ th[u].obj # o
      BY <1>1, <1>3, <2>2 DEF FInv
    <3>2. th[u].pc \in {"addr", "addsvr"} => th[u].obj \in Svcs
      BY <1>1, <3>1, MainFrames DEF OpeningF, ThreadOK, FrameOK, FieldsOK
    <3> QED
      BY <1>4, <1>6, <3>1, <3>2 DEF OpeningF
  <2> QED
    BY <2>1, <2>2
<1>9. ClosingF(th[Reactor])'
  <2>1. CASE t = Reactor
    BY <1>1, <2>1 DEF ClosingF, ClosePcs
  <2>2. CASE t # Reactor
    <3>1. ClosingF(th[Reactor]) /\ th'[Reactor] = th[Reactor] /\ th[Reactor].obj # o
      BY <1>1, <1>3, <2>2 DEF FInv
    <3> QED
      BY <1>4, <3>1 DEF ClosingF, ClosePcs
  <2> QED
    BY <2>1, <2>2
<1>10. SettledF'
  BY <1>4, <1>7 DEF FInv, SettledF
<1>11. FinalizingF(th[Reactor])'
  <2>1. CASE t = Reactor
    BY <1>1, <2>1 DEF FinalizingF
  <2>2. CASE t # Reactor
    <3>1. th'[Reactor] = th[Reactor] /\ FinalizingF(th[Reactor]) /\ th[Reactor].obj # o
      BY <1>1, <1>3, <2>2 DEF FInv
    <3>2. th[Reactor].pc = "closing" => th[Reactor].obj \in Svcs
      BY DEF FInv, ClosingF, ClosePcs
    <3> QED
      BY <1>4, <1>7, <3>1, <3>2 DEF FinalizingF, InLoop, ToCome
  <2> QED
    BY <2>1, <2>2
<1>12. NoTrimF'
  BY <1>1 DEF FInv, NoTrimF
<1> QED
  BY <1>5, <1>8, <1>9, <1>10, <1>11, <1>12 DEF FInv

\* connect() with a server: never once the destructor has removed it.
LEMMA ConnectF ==
  ASSUME NoUpdates, IInv, UInv, FInv, UniqueF', NEW t \in Main,
         NEW o \in Svcs, NEW h \in Handles, Connect(t, o, h)
  PROVE  FInv'
<1> DEFINE f == [th[t] EXCEPT !.pc = "open", !.obj = o]
<1>1. /\ t \in Threads /\ th[t] \in Frame /\ th[t].pc = "connect"
      /\ th[t].job \in {"boot", "rebuild"} /\ th[t].svr \in registered
  BY MainFrames, ThreadsType DEF Main, Connect, At, FInv, OpeningF
<1>2. f.pc = "open" /\ f.obj = o /\ f.job = th[t].job /\ f.svr = th[t].svr
  BY <1>1 DEF Frame
<1>3. Go(t, f) /\ UNCHANGED <<registered, sessions, m_mConn, phase>>
  BY DEF f, Connect, sessionVars
<1> HIDE DEF f
<1>4. th'[Reactor].pc = "ending" => th[Reactor].pc = "ending"
  BY <1>2, <1>3, MainMoves
<1>5. FinalizedF'
  BY <1>1, <1>3, <1>4 DEF FInv, FinalizedF
<1>6. NewSvc(t, o, h, th[t].svr)
  BY DEF Connect
<1> QED
  BY <1>1, <1>2, <1>3, <1>5, <1>6, NewSvcF

\* A client connects.
LEMMA AcceptF ==
  ASSUME NoUpdates, IInv, UInv, FInv, UniqueF',
         NEW o \in Svcs, NEW h \in Handles, NEW c \in Clients, Accept(o, h, c)
  PROVE  FInv'
<1> DEFINE f == [Idle EXCEPT !.pc = "open", !.job = "accept", !.obj = o]
<1>1. Reactor \in Main /\ th[Reactor].pc = "idle" /\ phase = "run"
  BY DEF Main, Accept, At
<1>2. f.pc = "open" /\ f.obj = o /\ f.job = "accept"
  BY DEF Idle
<1>3. Go(Reactor, f) /\ UNCHANGED <<registered, sessions, m_mConn, phase>>
  BY DEF f, Accept, sessionVars
<1> HIDE DEF f
<1>4. th'[Reactor].pc # "ending"
  BY <1>1, <1>2, <1>3, MainMoves
<1>5. FinalizedF'
  BY <1>1, <1>3, <1>4 DEF FinalizedF
<1>6. NewSvc(Reactor, o, h, c)
  BY DEF Accept
<1> QED
  BY <1>1, <1>2, <1>3, <1>5, <1>6, NewSvcF

\* addConn: the handler has its entry, or the descriptor had one.
LEMMA AddConnF ==
  ASSUME NoUpdates, IInv, UInv, FInv, UniqueF', NEW t \in Main, AddConn(t)
  PROVE  FInv'
<1> DEFINE x == th[t].obj
           f == [th[t] EXCEPT !.pc = "addr", !.hnd = fd[x]]
<1>1. /\ t \in Threads /\ th[t] \in Frame /\ th[t].pc = "open" /\ Live(x)
      /\ th[t].job \in {"boot", "accept", "rebuild"} /\ x \in Svcs
  BY MainFrames, ThreadsType DEF Main, AddConn, At, ThreadOK, FrameOK, FieldsOK, OpenPcs
<1>2. /\ f.pc = "addr" /\ f.obj = x /\ f.job = th[t].job /\ f.svr = th[t].svr
      /\ f.hnd = fd[x]
  BY <1>1 DEF Frame
<1>3. Go(t, f) /\ UNCHANGED <<registered, sessions, fd, peer, phase>>
  BY DEF AddConn, sessionVars
<1>4. /\ fd[x] \in Handles
      /\ m_mConn' = [m_mConn EXCEPT ![fd[x]] = IF @ = None THEN x ELSE @]
      /\ m_mConn \in [Handles -> Svcs \cup {None}] /\ None \notin Svcs
  BY <1>1, NoneAssumption DEF AddConn, Live, IInv, TypeOK
<1> HIDE DEF f, x
<1>5. /\ m_mConn'[fd[x]] # None
      /\ \A k \in Handles : \/ m_mConn'[k] = m_mConn[k]
                            \/ k = fd[x] /\ m_mConn'[k] = x
      /\ \A k \in Handles : m_mConn[k] # None => m_mConn'[k] # None
  BY <1>1, <1>4
<1>6. /\ Reactor \in Main /\ Timer \in Main /\ Reactor # Timer
      /\ th'[t] = f
      /\ \A u \in Main : u # t => th'[u] = th[u]
  BY <1>3, MainMoves
<1>7. \A q : Live(q)' <=> Live(q)
  BY <1>3 DEF Live
<1>8. HandlersF'
  <2>1. \A k \in Handles : m_mConn'[k] # None => fd[m_mConn'[k]] \in {k, None}
    BY <1>5 DEF FInv, HandlersF
  <2> QED
    BY <1>3, <1>7, <2>1 DEF FInv, HandlersF
<1>9. \A q : Closing(q)' <=> Closing(q)
  BY <1>1, <1>2, <1>6 DEF Closing, ClosePcs
<1>10. \A q \in Svcs : Settled(q)' <=> Settled(q)
  <2>1. \A u \in Main : \A q \in Svcs : OpenedBy(u, q)' <=> OpenedBy(u, q)
    BY <1>1, <1>2, <1>6 DEF x, OpenedBy, OpenPcs
  <2> QED
    BY <1>3, <1>7, <1>9, <2>1 DEF Settled
<1>11. ASSUME NEW u \in Main PROVE OpeningF(th[u])'
  <2>1. CASE u = t
    <3>1. OpeningF(th[t])
      BY DEF FInv
    <3> QED
      BY <1>1, <1>2, <1>3, <1>5, <1>6, <2>1, <3>1 DEF OpeningF, OpenPcs
  <2>2. CASE u # t
    <3>1. OpeningF(th[u]) /\ th'[u] = th[u]
      BY <1>6, <2>2 DEF FInv
    <3>2. th[u].pc \in {"addr", "addsvr"} => th[u].hnd \in Handles
      BY ThreadsType, MainFrames DEF Main, ThreadOK, FrameOK, FieldsOK
    <3> QED
      BY <1>3, <1>5, <1>7, <1>9, <3>1, <3>2 DEF OpeningF
  <2> QED
    BY <2>1, <2>2
<1>12. ClosingF(th[Reactor])'
  BY <1>2, <1>3, <1>6, <1>7 DEF FInv, ClosingF, ClosePcs
<1>13. SettledF'
  <2>1. \A q \in Svcs : Settled(q) => fd[q] \in Handles
    BY DEF Settled, Live, IInv, TypeOK
  <2> QED
    BY <1>3, <1>5, <1>10, <2>1 DEF FInv, SettledF
<1>14. FinalizingF(th[Reactor])'
  <2>1. CASE t = Reactor
    BY <1>1, <1>2, <1>6, <2>1 DEF FinalizingF
  <2>2. CASE t # Reactor
    <3>1. th'[Reactor] = th[Reactor] /\ FinalizingF(th[Reactor])
      BY <1>6, <2>2 DEF FInv
    <3> QED
      BY <1>3, <1>7, <1>10, <3>1 DEF FinalizingF, InLoop, ToCome
  <2> QED
    BY <2>1, <2>2
<1>15. FinalizedF' /\ NoTrimF'
  BY <1>2, <1>3, <1>6 DEF FInv, FinalizedF, NoTrimF
<1> QED
  BY <1>8, <1>11, <1>12, <1>13, <1>14, <1>15 DEF FInv

\* addSvrConn: the handler has its session, and leaves the hands of the thread.
LEMMA AddSvrConnF ==
  ASSUME NoUpdates, IInv, UInv, FInv, UniqueF', NEW t \in Main, AddSvrConn(t)
  PROVE  FInv'
<1> DEFINE x == th[t].obj
           f == AfterOpen(t)
           a == th[t].adr
           n == th[t].hnd
<1>1. /\ t \in Threads /\ th[t] \in Frame /\ th[t].pc = "addsvr"
      /\ \/ th[t].job \in {"boot", "rebuild"}
         \/ th[t].job = "accept" /\ t = Reactor
      /\ ThreadOK(t, th[t])
      /\ OpeningF(th[t]) /\ x \in Svcs
  BY MainFrames, ThreadsType DEF Main, AddSvrConn, At, OpenPcs, FInv, OpeningF
<1>2. f.pc \in {"insert", "rebuild", "idle"} /\ f.job \in {"boot", "rebuild", "none"}
  BY <1>1 DEF AfterOpen, Frame, Idle
<1>3. Go(t, f) /\ UNCHANGED <<registered, m_mConn, fd, peer, phase>>
  BY DEF AddSvrConn, addSvrConn, connVars
<1>4. /\ \A s \in Servers : sessions[s] \subseteq sessions'[s]
      /\ \A s \in Servers : s = a /\ s \in registered => n \in sessions'[s]
  BY DEF AddSvrConn, addSvrConn, IInv, TypeOK, SessionTypeOK
<1> HIDE DEF f
<1>5. /\ Reactor \in Main /\ Timer \in Main /\ Reactor # Timer
      /\ th'[t] = f
      /\ \A u \in Main : u # t => th'[u] = th[u]
  BY <1>3, MainMoves
<1>6. \A q : Live(q)' <=> Live(q)
  BY <1>3 DEF Live
<1>7. \A q : Closing(q)' <=> Closing(q)
  BY <1>1, <1>2, <1>5 DEF Closing, ClosePcs, OpenPcs
<1>8. \A q \in Svcs : Settled(q)' => Settled(q) \/ q = x
  <2>1. \A u \in Main : \A q \in Svcs : OpenedBy(u, q) => OpenedBy(u, q)' \/ q = x
    BY <1>1, <1>5 DEF OpenedBy
  <2> QED
    BY <1>3, <1>6, <1>7, <2>1 DEF Settled
<1>9. HandlersF'
  BY <1>3, <1>6 DEF FInv, HandlersF
<1>10. ASSUME NEW u \in Main PROVE OpeningF(th[u])'
  <2>1. CASE u = t
    BY <1>2, <1>5, <2>1 DEF OpeningF, OpenPcs
  <2>2. CASE u # t
    BY <1>3, <1>5, <1>6, <1>7, <2>2 DEF FInv, OpeningF
  <2> QED
    BY <2>1, <2>2
<1>11. ClosingF(th[Reactor])'
  BY <1>2, <1>3, <1>5, <1>6 DEF FInv, ClosingF, ClosePcs
<1>12. SettledF'
  <2> SUFFICES ASSUME NEW q \in Svcs, Settled(q)'
               PROVE  fd[q] \in sessions'[peer[q]] /\ m_mConn[fd[q]] # None
    BY <1>3 DEF SettledF
  <2>1. peer[q] \in Servers /\ Live(q) /\ ~Closing(q)
    BY <1>3, <1>6, <1>7 DEF Settled
  <2>2. CASE Settled(q)
    BY <1>4, <2>1, <2>2 DEF FInv, SettledF
  <2>3. CASE q = x
    <3>1. a = peer[q] /\ n = fd[q] /\ m_mConn[n] # None
      BY <1>1, <2>1, <2>3 DEF OpeningF
    <3>2. th[t].job # "accept" /\ a = th[t].svr
      BY <1>1, <2>1, <3>1 DEF ThreadOK, OpenOK, NoUpdates, Disjoint
    <3>3. a \in registered
      BY <1>1, <3>2 DEF OpeningF, OpenPcs
    <3> QED
      BY <1>4, <2>1, <3>1, <3>3
  <2> QED
    BY <1>8, <2>2, <2>3
<1>13. FinalizingF(th[Reactor])'
  <2>1. CASE t = Reactor
    BY <1>2, <1>5, <2>1 DEF FinalizingF
  <2>2. CASE t # Reactor
    <3>1. th'[Reactor] = th[Reactor] /\ t = Timer
      BY <1>5, <2>2 DEF Main
    <3>2. ~(th[Reactor].job = "finalize" /\ (InLoop(th[Reactor]) \/ th[Reactor].pc = "prune"))
      BY <1>1, <3>1, OneLoop DEF OpenPcs
    <3> QED
      BY <3>1, <3>2 DEF FinalizingF, InLoop
  <2> QED
    BY <2>1, <2>2
<1>14. FinalizedF' /\ NoTrimF'
  BY <1>2, <1>3, <1>5 DEF FInv, FinalizedF, NoTrimF
<1> QED
  BY <1>9, <1>10, <1>11, <1>12, <1>13, <1>14 DEF FInv

\* rmConn: the entry that goes is that of the handler being closed.
LEMMA RmConnF ==
  ASSUME NoUpdates, IInv, UInv, FInv, UniqueF', RmConn(Reactor)
  PROVE  FInv'
<1> DEFINE g == th[Reactor]
           f == [g EXCEPT !.pc = "rmsvrconn"]
           x == g.obj
<1>1. g \in Frame /\ g.pc = "rmconn" /\ g.job \in {"event", "finalize"} /\ ClosingF(g)
  BY MainFrames, ThreadsType DEF RmConn, At, FInv, ClosePcs
<1>2. x \in Svcs /\ Live(x) /\ g.hnd = fd[x] /\ fd[x] \in Handles
  BY <1>1 DEF ClosingF, ClosePcs, Live, IInv, TypeOK
<1>3. /\ f.pc = "rmsvrconn" /\ f.job = g.job /\ f.obj = x /\ f.svr = g.svr
      /\ f.hnd = g.hnd /\ f.todo = g.todo /\ f.hset = g.hset
  BY <1>1 DEF Frame
<1>4. Go(Reactor, f) /\ UNCHANGED <<registered, sessions, fd, peer, phase>>
  BY DEF RmConn, sessionVars
<1>5. /\ m_mConn' = [m_mConn EXCEPT ![fd[x]] = None]
      /\ \A k \in Handles : m_mConn'[k] = IF k = fd[x] THEN None ELSE m_mConn[k]
  BY <1>2 DEF RmConn, IInv, TypeOK
<1> HIDE DEF f, g, x
<1>6. /\ Reactor \in Main /\ Timer \in Main /\ Reactor # Timer
      /\ Main \subseteq Threads
      /\ th'[Reactor] = f
      /\ \A u \in Main : u # Reactor => th'[u] = th[u]
  BY <1>4, MainMoves, ThreadsType DEF Main
<1>7. \A q : Live(q)' <=> Live(q)
  BY <1>4 DEF Live
<1>8. \A q : (Closing(q)' <=> q = x) /\ (Closing(q) <=> q = x)
  BY <1>1, <1>3, <1>6 DEF g, x, Closing, ClosePcs
<1>9. \A q \in Svcs : Settled(q)' => Settled(q) /\ q # x
  <2>1. \A u \in Main : \A q : OpenedBy(u, q) => OpenedBy(u, q)'
    BY <1>1, <1>6 DEF g, OpenedBy, OpenPcs
  <2> QED
    BY <1>4, <1>7, <1>8, <2>1 DEF Settled
<1>10. HandlersF'
  <2>1. \A k \in Handles : m_mConn'[k] # None => fd[m_mConn'[k]] \in {k, None}
    BY <1>5 DEF FInv, HandlersF
  <2> QED
    BY <1>4, <1>7, <2>1 DEF FInv, HandlersF
<1>11. ASSUME NEW u \in Main PROVE OpeningF(th[u])'
  <2>1. CASE u = Reactor
    BY <1>3, <1>6, <2>1 DEF OpeningF, OpenPcs
  <2>2. CASE u # Reactor
    <3>1. OpeningF(th[u]) /\ th'[u] = th[u]
      BY <1>6, <2>2 DEF FInv
    <3>2. th[u].pc \in {"addr", "addsvr"} => th[u].hnd \in Handles /\ th[u].obj \in Svcs
      BY <1>6, <3>1, MainFrames DEF OpeningF, ThreadOK, FrameOK, FieldsOK
    <3>3. th[u].pc \in {"addr", "addsvr"} /\ Live(th[u].obj) /\ th[u].hnd = fd[x]
            => th[u].obj = x
      BY <1>2, <3>1, <3>2 DEF OpeningF, FInv, HandlersF
    <3> QED
      BY <1>4, <1>5, <1>7, <1>8, <3>1, <3>2, <3>3 DEF OpeningF
  <2> QED
    BY <2>1, <2>2
<1>12. ClosingF(th[Reactor])'
  BY <1>1, <1>2, <1>3, <1>4, <1>6, <1>7 DEF ClosingF, ClosePcs
<1>13. SettledF'
  <2> SUFFICES ASSUME NEW q \in Svcs, Settled(q)'
               PROVE  fd[q] \in sessions[peer[q]] /\ m_mConn'[fd[q]] # None
    BY <1>4 DEF SettledF
  <2>1. Settled(q) /\ q # x
    BY <1>9
  <2>2. fd[q] # fd[x] /\ fd[q] \in Handles
    BY <1>2, <2>1 DEF FInv, HandlersF, Settled, Live, IInv, TypeOK
  <2> QED
    BY <1>5, <2>1, <2>2 DEF FInv, SettledF
<1>14. FinalizingF(th[Reactor])'
  <2>1. FinalizingF(g)
    BY DEF g, FInv
  <2> QED
    BY <1>1, <1>3, <1>4, <1>6, <1>7, <1>9, <2>1 DEF FinalizingF, InLoop, ToCome, ClosePcs
<1>15. FinalizedF' /\ NoTrimF'
  BY <1>3, <1>4, <1>6 DEF FInv, FinalizedF, NoTrimF
<1> QED
  BY <1>10, <1>11, <1>12, <1>13, <1>14, <1>15 DEF FInv

\* rmSvrConn: the session that goes is that of the handler being closed.
LEMMA RmSvrConnF ==
  ASSUME NoUpdates, IInv, UInv, FInv, UniqueF', RmSvrConn(Reactor)
  PROVE  FInv'
<1> DEFINE g == th[Reactor]
           f == [g EXCEPT !.pc = "destroy", !.hnd = None, !.adr = None]
           x == g.obj
<1>1. g \in Frame /\ g.pc = "rmsvrconn" /\ g.job \in {"event", "finalize"} /\ ClosingF(g)
  BY MainFrames, ThreadsType DEF RmSvrConn, At, FInv, ClosePcs
<1>2. x \in Svcs /\ Live(x) /\ g.hnd = fd[x]
  BY <1>1 DEF ClosingF, ClosePcs
<1>3. /\ f.pc = "destroy" /\ f.job = g.job /\ f.obj = x /\ f.svr = g.svr
      /\ f.todo = g.todo /\ f.hset = g.hset
  BY <1>1 DEF Frame
<1>4. Go(Reactor, f) /\ UNCHANGED <<registered, m_mConn, fd, peer, phase>>
  BY DEF RmSvrConn, rmSvrConn, connVars
<1>5. \A s \in Servers : sessions[s] \ {fd[x]} \subseteq sessions'[s]
  BY <1>2 DEF RmSvrConn, rmSvrConn
<1> HIDE DEF f, g, x
<1>6. /\ Reactor \in Main /\ Timer \in Main /\ Reactor # Timer
      /\ Main \subseteq Threads
      /\ th'[Reactor] = f
      /\ \A u \in Main : u # Reactor => th'[u] = th[u]
  BY <1>4, MainMoves, ThreadsType DEF Main
<1>7. \A q : Live(q)' <=> Live(q)
  BY <1>4 DEF Live
<1>8. \A q : (Closing(q)' <=> q = x) /\ (Closing(q) <=> q = x)
  BY <1>1, <1>3, <1>6 DEF g, x, Closing, ClosePcs
<1>9. \A q \in Svcs : Settled(q)' => Settled(q) /\ q # x
  <2>1. \A u \in Main : \A q : OpenedBy(u, q) => OpenedBy(u, q)'
    BY <1>1, <1>6 DEF g, OpenedBy, OpenPcs
  <2> QED
    BY <1>4, <1>7, <1>8, <2>1 DEF Settled
<1>10. HandlersF'
  BY <1>4, <1>7 DEF FInv, HandlersF
<1>11. ASSUME NEW u \in Main PROVE OpeningF(th[u])'
  <2>1. CASE u = Reactor
    BY <1>3, <1>6, <2>1 DEF OpeningF, OpenPcs
  <2>2. CASE u # Reactor
    BY <1>4, <1>6, <1>7, <1>8, <2>2 DEF FInv, OpeningF
  <2> QED
    BY <2>1, <2>2
<1>12. ClosingF(th[Reactor])'
  BY <1>1, <1>2, <1>3, <1>4, <1>6, <1>7 DEF ClosingF, ClosePcs
<1>13. SettledF'
  <2> SUFFICES ASSUME NEW q \in Svcs, Settled(q)'
               PROVE  fd[q] \in sessions'[peer[q]] /\ m_mConn[fd[q]] # None
    BY <1>4 DEF SettledF
  <2>1. Settled(q) /\ q # x
    BY <1>9
  <2>2. fd[q] # fd[x] /\ peer[q] \in Servers
    BY <1>2, <2>1 DEF FInv, HandlersF, Settled
  <2> QED
    BY <1>5, <2>1, <2>2 DEF FInv, SettledF
<1>14. FinalizingF(th[Reactor])'
  <2>1. FinalizingF(g)
    BY DEF g, FInv
  <2> QED
    BY <1>1, <1>3, <1>4, <1>6, <1>7, <1>9, <2>1 DEF FinalizingF, InLoop, ToCome, ClosePcs
<1>15. FinalizedF' /\ NoTrimF'
  BY <1>3, <1>4, <1>6 DEF FInv, FinalizedF, NoTrimF
<1> QED
  BY <1>10, <1>11, <1>12, <1>13, <1>14, <1>15 DEF FInv

\* The handler is deleted, and its descriptor with it.
LEMMA DestroyF ==
  ASSUME NoUpdates, IInv, UInv, FInv, UniqueF', Destroy(Reactor)
  PROVE  FInv'
<1> DEFINE g == th[Reactor]
           f == IF g.job = "event" THEN Idle
                ELSE [g EXCEPT !.pc = "closesvr", !.obj = None]
<1>1. g \in Frame /\ g.pc = "destroy" /\ g.job \in {"event", "finalize"} /\ ClosingF(g)
  BY MainFrames, ThreadsType DEF Destroy, At, FInv, ClosePcs
<1>2. PICK x \in Svcs : x = g.obj /\ Live(x)
  BY <1>1 DEF ClosingF, ClosePcs
<1>3. \/ g.job = "event" /\ f = Idle
      \/ /\ g.job = "finalize"
         /\ f.pc = "closesvr" /\ f.job = "finalize" /\ f.svr = g.svr
         /\ f.todo = g.todo /\ f.hset = g.hset
  BY <1>1 DEF Frame
<1>4. f.pc \in {"idle", "closesvr"} /\ (f.job = "finalize" => f.pc = "closesvr")
  BY <1>3 DEF Idle
<1>5. Go(Reactor, f) /\ UNCHANGED <<registered, sessions, m_mConn, phase>>
  BY DEF Destroy, sessionVars
<1>6. /\ fd'[x] = None /\ peer'[x] = None
      /\ \A q \in Svcs : q # x => fd'[q] = fd[q] /\ peer'[q] = peer[q]
  BY <1>2 DEF Destroy, IInv, TypeOK
<1> HIDE DEF f, g
<1>7. /\ Reactor \in Main /\ Timer \in Main /\ Reactor # Timer
      /\ Main \subseteq Threads
      /\ th'[Reactor] = f
      /\ \A u \in Main : u # Reactor => th'[u] = th[u]
  BY <1>5, MainMoves, ThreadsType DEF Main
<1>8. ~Live(x)' /\ \A q \in Svcs : q # x => (Live(q)' <=> Live(q))
  BY <1>6 DEF Live
<1>9. \A q : Closing(q) <=> q = x
  BY <1>1, <1>2 DEF g, Closing, ClosePcs
<1>10. \A q \in Svcs : Settled(q)' => Settled(q) /\ q # x
  <2>1. \A u \in Main : \A q : OpenedBy(u, q) => OpenedBy(u, q)'
    BY <1>1, <1>7 DEF g, OpenedBy, OpenPcs
  <2> QED
    BY <1>6, <1>8, <1>9, <2>1 DEF Settled
<1>11. HandlersF'
  <2>1. \A q1, q2 \in Svcs : Live(q1)' /\ fd'[q1] = fd'[q2] => q1 = q2
    <3> SUFFICES ASSUME NEW q1 \in Svcs, NEW q2 \in Svcs, Live(q1)', fd'[q1] = fd'[q2]
                 PROVE  q1 = q2
      OBVIOUS
    <3>1. q1 # x /\ fd'[q1] # None
      BY <1>8 DEF Live
    <3>2. q2 # x
      BY <1>6, <3>1
    <3> QED
      BY <1>6, <1>8, <3>1, <3>2 DEF FInv, HandlersF
  <2>2. \A q \in Svcs : ~Live(q)' => peer'[q] = None
    BY <1>6, <1>8 DEF FInv, HandlersF
  <2>3. \A k \in Handles : m_mConn[k] # None => fd'[m_mConn[k]] \in {k, None}
    BY <1>6 DEF FInv, HandlersF, IInv, TypeOK
  <2> QED
    BY <1>5, <2>1, <2>2, <2>3 DEF HandlersF
<1>12. ASSUME NEW u \in Main PROVE OpeningF(th[u])'
  <2>1. CASE u = Reactor
    BY <1>4, <1>7, <2>1 DEF OpeningF, OpenPcs
  <2>2. CASE u # Reactor
    <3>1. OpeningF(th[u]) /\ th'[u] = th[u]
      BY <1>7, <2>2 DEF FInv
    <3>2. th[u].pc \in {"addr", "addsvr"} => th[u].obj \in Svcs
      BY <1>7, <3>1, MainFrames DEF OpeningF, ThreadOK, FrameOK, FieldsOK
    <3> QED
      BY <1>5, <1>6, <1>8, <1>9, <3>1, <3>2 DEF OpeningF
  <2> QED
    BY <2>1, <2>2
<1>13. ClosingF(th[Reactor])'
  BY <1>4, <1>7 DEF ClosingF, ClosePcs
<1>14. SettledF'
  BY <1>5, <1>6, <1>10 DEF FInv, SettledF
<1>15. FinalizingF(th[Reactor])'
  <2>1. CASE f = Idle
    BY <1>7, <2>1 DEF FinalizingF, Idle
  <2>2. CASE g.job = "finalize" /\ f # Idle
    <3>1. FinalizingF(g)
      BY DEF g, FInv
    <3>2. \A q \in Svcs : Settled(q)' => peer'[q] = peer[q] /\ fd'[q] = fd[q]
      BY <1>6, <1>10
    <3>3. InLoop(g) /\ InLoop(f)
      BY <1>1, <1>3, <2>2 DEF InLoop, ClosePcs
    <3> QED
      BY <1>1, <1>3, <1>5, <1>7, <1>10, <2>2, <3>1, <3>2, <3>3
         DEF FinalizingF, InLoop, ToCome
  <2> QED
    BY <1>3, <2>1, <2>2
<1>16. FinalizedF' /\ NoTrimF'
  <2>1. FinalizedF'
    <3> SUFFICES ASSUME phase = "end", NEW q \in Svcs PROVE registered = {} /\ peer'[q] \notin Servers
      BY <1>4, <1>5, <1>7 DEF FinalizedF
    <3>1. None \notin Servers
      BY NoneAssumption DEF Peers
    <3> QED
      BY <1>6, <3>1 DEF FInv, FinalizedF
  <2> QED
    BY <1>7, <2>1 DEF FInv, NoTrimF
<1> QED
  BY <1>11, <1>12, <1>13, <1>14, <1>15, <1>16 DEF FInv

\* addSvr registers a server in the constructor.
LEMMA AddSvrF ==
  ASSUME NoUpdates, IInv, UInv, FInv, UniqueF', NEW r \in Routes, AddSvr(Reactor, r)
  PROVE  FInv'
<1> DEFINE g == th[Reactor]
           f == [g EXCEPT !.pc = "connect", !.key = r[1], !.svr = r[2],
                          !.todo = @ \ {r}]
<1>1. g \in Frame /\ g.pc = "add" /\ g.job = "boot" /\ phase = "boot"
  BY MainFrames, ThreadsType DEF AddSvr, At
<1>2. f.pc = "connect" /\ f.job = "boot" /\ f.svr = r[2]
  BY <1>1 DEF Frame
<1>3. /\ Go(Reactor, f) /\ UNCHANGED <<sessions, m_mConn, fd, peer, phase>>
      /\ registered' = registered \cup {r[2]}
  BY DEF AddSvr, addSvr, connVars
<1> HIDE DEF f, g
<1>4. /\ Reactor \in Main /\ Timer \in Main /\ Reactor # Timer
      /\ th'[Reactor] = f
      /\ \A u \in Main : u # Reactor => th'[u] = th[u]
  BY <1>3, MainMoves DEF Main
<1>5. \A q : Live(q)' <=> Live(q)
  BY <1>3 DEF Live
<1>6. \A q : Closing(q)' <=> Closing(q)
  BY <1>1, <1>2, <1>4 DEF g, Closing, ClosePcs
<1>7. \A q \in Svcs : Settled(q)' => Settled(q)
  <2>1. \A u \in Main : \A q : OpenedBy(u, q) => OpenedBy(u, q)'
    BY <1>1, <1>4 DEF g, OpenedBy, OpenPcs
  <2> QED
    BY <1>3, <1>5, <1>6, <2>1 DEF Settled
<1>8. HandlersF'
  BY <1>3, <1>5 DEF FInv, HandlersF
<1>9. ASSUME NEW u \in Main PROVE OpeningF(th[u])'
  <2>1. CASE u = Reactor
    BY <1>2, <1>3, <1>4, <2>1 DEF OpeningF, OpenPcs
  <2>2. CASE u # Reactor
    BY <1>3, <1>4, <1>5, <1>6, <2>2 DEF FInv, OpeningF
  <2> QED
    BY <2>1, <2>2
<1>10. ClosingF(th[Reactor])' /\ FinalizingF(th[Reactor])'
  BY <1>2, <1>4 DEF ClosingF, FinalizingF, ClosePcs
<1>11. SettledF'
  BY <1>3, <1>7 DEF FInv, SettledF
<1>12. FinalizedF' /\ NoTrimF'
  BY <1>1, <1>2, <1>3, <1>4 DEF FInv, FinalizedF, NoTrimF
<1> QED
  BY <1>8, <1>9, <1>10, <1>11, <1>12 DEF FInv

\* rmSvr in finalize: the server has no connection left.
LEMMA RmSvrF ==
  ASSUME NoUpdates, IInv, UInv, FInv, UniqueF', RmSvr(Reactor)
  PROVE  FInv'
<1> DEFINE g == th[Reactor]
           f == [g EXCEPT !.pc = "prune", !.key = None, !.svr = None]
<1>1. g \in Frame /\ g.pc = "closesvr" /\ g.job = "finalize" /\ g.hset = {}
  BY MainFrames, ThreadsType DEF RmSvr, At
<1>2. f.pc = "prune" /\ f.job = "finalize" /\ f.todo = g.todo
  BY <1>1 DEF Frame
<1>3. /\ Go(Reactor, f) /\ UNCHANGED <<m_mConn, fd, peer, phase>>
      /\ registered' = registered \ {g.svr}
      /\ \A s \in Servers : s # g.svr => sessions'[s] = sessions[s]
  BY DEF RmSvr, rmSvr, connVars, IInv, TypeOK, SessionTypeOK
<1>4. /\ FinalizingF(g) /\ InLoop(g)
      /\ \A u \in Main : th[u].pc \notin OpenPcs \cup {"connect"}
  BY <1>1, OneLoop DEF FInv, InLoop
<1> HIDE DEF f, g
<1>5. /\ Reactor \in Main /\ Timer \in Main /\ Reactor # Timer
      /\ th'[Reactor] = f
      /\ \A u \in Main : u # Reactor => th'[u] = th[u]
  BY <1>3, MainMoves DEF Main
<1>6. \A q : Live(q)' <=> Live(q)
  BY <1>3 DEF Live
<1>7. \A q : ~Closing(q)
  BY <1>1 DEF g, Closing, ClosePcs
<1>8. \A q \in Svcs : Settled(q)' => Settled(q)
  BY <1>3, <1>4, <1>6, <1>7 DEF Settled, OpenedBy
<1>9. \A q \in Svcs : Settled(q) => ToCome(g, peer[q]) /\ peer[q] # g.svr
  BY <1>1, <1>4 DEF FinalizingF, InLoop, ClosePcs
<1>10. HandlersF'
  BY <1>3, <1>6 DEF FInv, HandlersF
<1>11. ASSUME NEW u \in Main PROVE OpeningF(th[u])'
  <2>1. th'[u].pc \notin OpenPcs \cup {"connect"}
    BY <1>2, <1>4, <1>5 DEF OpenPcs
  <2> QED
    BY <2>1 DEF OpeningF, OpenPcs
<1>12. ClosingF(th[Reactor])'
  BY <1>2, <1>5 DEF ClosingF, ClosePcs
<1>13. SettledF'
  <2>1. \A q \in Svcs : Settled(q) => sessions'[peer[q]] = sessions[peer[q]]
    BY <1>3, <1>9 DEF Settled
  <2> QED
    BY <1>3, <1>8, <2>1 DEF FInv, SettledF
<1>14. FinalizingF(th[Reactor])'
  <2>1. \A s \in registered' : ToCome(f, s)
    BY <1>1, <1>2, <1>3, <1>4 DEF FinalizingF, ToCome, InLoop, ClosePcs
  <2>2. \A q \in Svcs : Settled(q)' => ToCome(f, peer'[q])
    BY <1>2, <1>3, <1>8, <1>9 DEF ToCome
  <2>3. \A j, k \in Keys, s \in Servers :
          <<j, s>> \in f.todo /\ <<k, s>> \in f.todo => j = k
    BY <1>1, <1>2, <1>4 DEF FinalizingF
  <2>4. ~InLoop(f)
    BY <1>2 DEF InLoop, ClosePcs
  <2> QED
    BY <1>5, <2>1, <2>2, <2>3, <2>4 DEF FinalizingF, InLoop, ToCome
<1>15. FinalizedF' /\ NoTrimF'
  <2>1. FinalizedF'
    BY <1>2, <1>3, <1>5 DEF FInv, FinalizedF
  <2> QED
    BY <1>5, <2>1 DEF FInv, NoTrimF
<1> QED
  BY <1>10, <1>11, <1>12, <1>13, <1>14, <1>15 DEF FInv

\* finalize is over: nothing is left.
LEMMA PruneEndF ==
  ASSUME NoUpdates, IInv, UInv, FInv, UniqueF', PruneEnd(Reactor)
  PROVE  FInv'
<1> DEFINE g == th[Reactor]
           f == [Idle EXCEPT !.pc = "ending", !.job = "finalize"]
<1>1. g \in Frame /\ g.pc = "prune" /\ g.job = "finalize" /\ g.todo = {}
  BY MainFrames, ThreadsType DEF PruneEnd, At
<1>2. f.pc = "ending" /\ f.job = "finalize"
  BY DEF Idle
<1>3. Go(Reactor, f) /\ UNCHANGED <<registered, sessions, m_mConn, fd, peer, phase>>
  BY <1>1 DEF PruneEnd, sessionVars, connVars
<1>4. /\ FinalizingF(g) /\ ~InLoop(g)
      /\ \A u \in Main : th[u].pc \notin OpenPcs \cup {"connect"}
  BY <1>1, OneLoop DEF FInv, InLoop, ClosePcs
<1> HIDE DEF f, g
<1>5. /\ Reactor \in Main
      /\ th'[Reactor] = f
      /\ \A u \in Main : u # Reactor => th'[u] = th[u]
  BY <1>3, MainMoves DEF Main
<1>6. \A s : ~ToCome(g, s)
  BY <1>1 DEF ToCome
<1>7. registered = {}
  BY <1>1, <1>4, <1>6 DEF FinalizingF
<1>8. ASSUME NEW q \in Svcs PROVE peer[q] \notin Servers
  <2>1. ~Settled(q)
    BY <1>1, <1>4, <1>6 DEF FinalizingF
  <2>2. ~Closing(q) /\ \A u \in Main : ~OpenedBy(u, q)
    BY <1>1, <1>4 DEF g, Closing, ClosePcs, OpenedBy
  <2>3. CASE Live(q)
    BY <2>1, <2>2, <2>3 DEF Settled
  <2>4. CASE ~Live(q)
    BY <2>4, NoneAssumption DEF FInv, HandlersF, Peers
  <2> QED
    BY <2>3, <2>4
<1>9. FinalizedF'
  BY <1>3, <1>7, <1>8 DEF FinalizedF
<1>10. OpeningF(f) /\ ClosingF(f) /\ FinalizingF(f)
  BY <1>2 DEF OpeningF, ClosingF, FinalizingF, OpenPcs, ClosePcs, InLoop
<1> QED
  BY <1>1, <1>2, <1>3, <1>5, <1>9, <1>10, MoveF, ThreadsType DEF g, OpenPcs, ClosePcs

\* The destructor goes on.
LEMMA StopThreadsF ==
  ASSUME NoUpdates, IInv, UInv, FInv, UniqueF', StopThreads
  PROVE  FInv'
<1>1. /\ th[Reactor].pc = "ending" /\ Go(Reactor, Idle) /\ Reactor \in Main
      /\ UNCHANGED <<registered, sessions, m_mConn, fd, peer>>
  BY DEF StopThreads, At, sessionVars, connVars, Main
<1>2. th'[Reactor] = Idle /\ \A u \in Main : u # Reactor => th'[u] = th[u]
  BY <1>1, MainMoves
<1>3. FinalizedF'
  BY <1>1 DEF FInv, FinalizedF
<1>4. OpeningF(Idle) /\ ClosingF(Idle) /\ FinalizingF(Idle)
  BY DEF Idle, OpeningF, ClosingF, FinalizingF, OpenPcs, ClosePcs, InLoop
<1> QED
  BY <1>1, <1>2, <1>3, <1>4, MoveF, ThreadsType DEF OpenPcs, ClosePcs

\* reBuild connects registered servers only, and has nothing to trim.
LEMMA TimerMovesF ==
  ASSUME NoUpdates, IInv, UInv, FInv, UniqueF', TimerStep
  PROVE  FInv'
<1> DEFINE g == th[Timer]
<1>1. /\ Timer \in Main /\ Timer \in Threads /\ Timer # Reactor /\ g \in Frame
      /\ g.pc \notin {"trim", "trimrm"} /\ ThreadOK(Timer, g)
  BY MainFrames, ThreadsType DEF Main, FInv, NoTrimF
<1>2. ASSUME NEW f, Go(Timer, f), g.pc \in {"idle", "due", "rebuild"},
             f.pc \in {"idle", "due", "rebuild", "connect"},
             f.pc = "connect" => f.svr \in registered,
             UNCHANGED <<registered, sessions, m_mConn, fd, peer, phase>>
      PROVE  FInv'
  <2>1. OpeningF(f)
    BY <1>2 DEF OpeningF, OpenPcs
  <2> QED
    BY <1>1, <1>2, <2>1, GoF DEF OpenPcs
<1>3. ASSUME Expire PROVE FInv'
  BY <1>2, <1>3 DEF Expire, Move, At, Idle, sessionVars, connVars
<1>4. ASSUME ReBuild PROVE FInv'
  BY <1>2, <1>4 DEF ReBuild, At, Idle, sessionVars, connVars
<1>5. ASSUME ReBuildEnd PROVE FInv'
  BY <1>2, <1>5 DEF ReBuildEnd, At, Idle, sessionVars, connVars
<1>6. ASSUME NEW r \in Routes, ReBuildSvr(r) PROVE FInv'
  <2> DEFINE n == getHandleNum(r[2])
             f0 == [g EXCEPT !.todo = @ \ {r}]
             g0 == [f0 EXCEPT !.key = r[1], !.svr = r[2]]
             e == CASE n = 0         -> [g0 EXCEPT !.pc = "connect"]
                    [] n > KeepConns -> [g0 EXCEPT !.pc = "trim",
                                                   !.excess = n - KeepConns]
                    [] OTHER         -> f0
  <2>1. g.pc = "rebuild" /\ r[2] \in Servers
    BY <1>6 DEF ReBuildSvr, At, Routes
  <2>2. /\ Go(Timer, e)
        /\ UNCHANGED <<registered, sessions, m_mConn, fd, peer, phase>>
    BY <1>6 DEF ReBuildSvr, Move, sessionVars, connVars
  <2>3. n \in {-1, 0, 1} /\ (n = 0 => r[2] \in registered)
    <3>1. sessions[r[2]] \subseteq Handles /\ IsFiniteSet(Handles)
      BY <2>1, HandlesAssumption DEF IInv, TypeOK, SessionTypeOK
    <3>2. \A h1, h2 \in sessions[r[2]] : h1 = h2
      BY <2>1 DEF NoUpdates, IInv, SessionsOK
    <3>3. Cardinality(sessions[r[2]]) \in {0, 1}
      <4>1. CASE sessions[r[2]] = {}
        BY <4>1, FS_EmptySet
      <4>2. CASE sessions[r[2]] # {}
        <5>1. PICK k \in sessions[r[2]] : TRUE
          BY <4>2
        <5>2. sessions[r[2]] = {k}
          BY <3>2, <5>1
        <5> QED
          BY <5>2, FS_Singleton
      <4> QED
        BY <4>1, <4>2
    <3> QED
      BY <3>3 DEF getHandleNum
  <2>4. ~(n > KeepConns)
    BY <2>3, InputsAssumption
  <2>5. e = IF n = 0 THEN [g0 EXCEPT !.pc = "connect"] ELSE f0
    BY <2>4
  <2>6. /\ f0.pc = "rebuild"
        /\ [g0 EXCEPT !.pc = "connect"].pc = "connect"
        /\ [g0 EXCEPT !.pc = "connect"].svr = r[2]
    BY <1>1, <2>1 DEF Frame
  <2> HIDE DEF f0, g0, n
  <2>7. e.pc \in {"rebuild", "connect"} /\ (e.pc = "connect" => e.svr \in registered)
    BY <2>3, <2>5, <2>6
  <2> HIDE DEF e
  <2> QED
    BY <1>2, <2>1, <2>2, <2>7
<1>7. (\A h \in Handles : ~TrimPick(h)) /\ ~TrimSkip /\ ~TrimRm /\ ~TrimEnd
  <2>1. ~TrimSkip /\ ~TrimRm /\ ~TrimEnd
    BY <1>1 DEF TrimSkip, TrimRm, TrimEnd, At
  <2> QED
    BY <1>1, <2>1 DEF TrimPick, At
<1> QED
  BY <1>3, <1>4, <1>5, <1>6, <1>7 DEF TimerStep

\* The sending threads change no table of connections.
LEMMA WorkersF ==
  ASSUME NoUpdates, IInv, UInv, FInv, UniqueF', NEW w \in Workers,
         WorkerStep(w) \/ ThreadStep(w)
  PROVE  FInv'
<1>1. w \in Threads /\ w # Reactor /\ w # Timer /\ Reactor \in Threads /\ Timer \in Threads
  BY ThreadsType
<1>2. th[w].pc \notin OpenPcs \cup ClosePcs \cup {"connect", "add", "insert", "closesvr", "prune"}
  BY <1>1, MainFrames
<1>3. ASSUME NEW f, Go(w, f), UNCHANGED <<sessionVars, connVars, phase>> PROVE FInv'
  <2>1. th'[Reactor] = th[Reactor] /\ th'[Timer] = th[Timer]
    BY <1>1, <1>3, OneMoves
  <2> QED
    BY <1>3, <2>1, OtherF DEF sessionVars, connVars
<1>4. ASSUME UNCHANGED <<sessionVars, connVars, phase, th>> PROVE FInv'
  BY <1>4, OtherF DEF sessionVars, connVars
<1>5. CASE WorkerStep(w)
  <2>1. ~\E m \in RouterMaps : UpdateRouter(w, m)
    BY DEF NoUpdates
  <2>2. RouteRace(w) => FInv'
    BY <1>4 DEF RouteRace
  <2>3. (\E k \in DispatchKeys : OnDispatch(w, k)) => FInv'
    BY <1>3 DEF OnDispatch, Move
  <2>4. (\E s \in DispatchServers : OnDispatchTo(w, s)) => FInv'
    BY <1>3 DEF OnDispatchTo, Move
  <2>5. (\E h \in ReplyHandles : OnResponse(w, h)) => FInv'
    BY <1>3 DEF OnResponse, Move
  <2>6. (\E s \in Servers : GetSvrConn(w, s)) => FInv'
    BY <1>3 DEF GetSvrConn, Move
  <2>7. (\E h \in Handles : GetConn(w, h)) => FInv'
    BY <1>3 DEF GetConn, Move
  <2>8. PruneBegin(w) \/ NoRoute(w) \/ NoConn(w) \/ IsExist(w) \/ WriteGone(w) => FInv'
    BY <1>3 DEF PruneBegin, NoRoute, NoConn, IsExist, WriteGone, Move
  <2>9. Write(w) \/ SvcWrite(w) => FInv'
    BY <1>3 DEF Write, SvcWrite
  <2> QED
    BY <1>5, <2>1, <2>2, <2>3, <2>4, <2>5, <2>6, <2>7, <2>8, <2>9 DEF WorkerStep
<1>6. CASE ThreadStep(w)
  <2>1. UseDestroyed(w) \/ UseUninitialised(w) => FInv'
    BY <1>4 DEF UseDestroyed, UseUninitialised
  <2>2. ~(UseDestroyed(w) \/ UseUninitialised(w)) => FALSE
    BY <1>2, <1>6 DEF ThreadStep, Connect, ConnectFail, AddConn, GetRemoteAddr,
       AddSvrConn, HandleClose, RmConn, RmSvrConn, Destroy, CloseHandle, RefuseSvr,
       AddSvr, CloseSvr, InsertRoute, RmSvr, PruneEnd, At, OpenPcs, ClosePcs
  <2> QED
    BY <2>1, <2>2
<1> QED
  BY <1>5, <1>6

\* No route comes or goes after the constructor.
LEMMA RoutesStay ==
  ASSUME NoUpdates, IInv, UInv, Next
  PROVE  m_mapProxy' = m_mapProxy \/ phase' = "boot"
<1>1. ASSUME NEW t \in Threads, InsertRoute(t) PROVE phase' = "boot"
  BY <1>1, MainFrames DEF InsertRoute, At
<1>2. ASSUME NEW t \in Threads, RmSvr(t) PROVE m_mapProxy' = m_mapProxy
  BY <1>2, MainFrames DEF RmSvr, At
<1>3. ASSUME NEW t \in Threads, ThreadStep(t)
      PROVE  m_mapProxy' = m_mapProxy \/ phase' = "boot"
  <2>1. CASE InsertRoute(t) \/ RmSvr(t)
    BY <1>1, <1>2, <2>1
  <2>2. CASE ~(InsertRoute(t) \/ RmSvr(t))
    BY <1>3, <2>2 DEF ThreadStep, Connect, ConnectFail, AddConn, GetRemoteAddr,
       AddSvrConn, HandleClose, RmConn, RmSvrConn, Destroy, CloseHandle, RefuseSvr,
       AddSvr, CloseSvr, PruneEnd, UseDestroyed, UseUninitialised, Move
  <2> QED
    BY <2>1, <2>2
<1>4. ASSUME ReactorStep PROVE m_mapProxy' = m_mapProxy
  BY <1>4 DEF ReactorStep, Accept, HandleEvent, BootEnd, Stop, Finalize, StopThreads, Move
<1>5. ASSUME TimerStep PROVE m_mapProxy' = m_mapProxy
  <2>1. \A r \in Routes : ReBuildSvr(r) => m_mapProxy' = m_mapProxy
    BY DEF ReBuildSvr, Move
  <2> QED
    BY <1>5, <2>1 DEF TimerStep, Expire, ReBuild, TrimPick, TrimSkip, TrimRm, TrimEnd,
       ReBuildEnd, Move
<1>6. ASSUME NEW w \in Workers, WorkerStep(w) PROVE m_mapProxy' = m_mapProxy
  BY <1>6 DEF WorkerStep, UpdateRouter, PruneBegin, OnDispatch, OnDispatchTo, OnResponse,
     GetSvrConn, NoRoute, GetConn, NoConn, IsExist, WriteGone, Write, SvcWrite,
     RouteRace, Move
<1> QED
  BY <1>3, <1>4, <1>5, <1>6 DEF Next, Running, Ended, vars

\* Nothing is open and nothing routed before the constructor of SVCMgr.
LEMMA InitF == Init => FInv
<1> SUFFICES ASSUME Init PROVE FInv
  OBVIOUS
<1>1. /\ \A o \in Svcs : ~Live(o) /\ peer[o] = None
      /\ \A h \in Handles : m_mConn[h] = None
      /\ m_mapProxy = {} /\ registered = {} /\ phase = "boot"
  BY DEF Init, SessionInit, Live
<1>2. /\ \A t \in Main : th[t].pc \in {"add", "idle"}
      /\ th[Reactor].pc = "add" /\ th[Timer].pc = "idle"
  BY ThreadsType DEF Init, Idle, Main
<1>3. HandlersF /\ SettledF /\ UniqueF /\ FinalizedF /\ NoTrimF
  BY <1>1, <1>2 DEF HandlersF, SettledF, Settled, UniqueF, FinalizedF, NoTrimF
<1>4. \A t \in Main : OpeningF(th[t])
  BY <1>2 DEF OpeningF, OpenPcs
<1>5. ClosingF(th[Reactor]) /\ FinalizingF(th[Reactor])
  BY <1>2 DEF ClosingF, FinalizingF, InLoop, ClosePcs
<1> QED
  BY <1>3, <1>4, <1>5 DEF FInv

\* Every step keeps FInv, if the application never updates the routes.
LEMMA NextF == NoUpdates /\ IInv /\ UInv /\ FInv /\ [Next]_vars => FInv'
<1> SUFFICES ASSUME NoUpdates, IInv, UInv, FInv, [Next]_vars PROVE FInv'
  OBVIOUS
<1>1. UniqueF'
  <2>1. CASE m_mapProxy' = m_mapProxy
    BY <2>1 DEF FInv, UniqueF
  <2>2. CASE phase' = "boot"
    <3>1. IInv'
      BY StepInv
    <3>2. \A j, k \in Keys, s \in Servers :
            <<j, s>> \in m_mapProxy' /\ <<k, s>> \in m_mapProxy' => j = k
      BY <2>2, <3>1 DEF IInv, RegisteredOK
    <3> QED
      BY <3>2 DEF UniqueF
  <2> QED
    BY <2>1, <2>2, RoutesStay DEF vars
<1>2. ASSUME UNCHANGED <<sessionVars, connVars, phase, th>> PROVE FInv'
  BY <1>1, <1>2, OtherF DEF sessionVars, connVars
<1>3. ASSUME NEW t \in Main, ThreadStep(t) PROVE FInv'
  <2>1. UseDestroyed(t) \/ UseUninitialised(t) => FInv'
    BY <1>2 DEF UseDestroyed, UseUninitialised
  <2>2. t \in Threads
    BY ThreadsType DEF Main
  <2>3. th[t].pc \in ClosePcs \cup {"closesvr", "prune", "add", "insert"} => t = Reactor
    BY <2>2, MainFrames
  <2>4. /\ (\E o \in Svcs, h \in Handles : Connect(t, o, h)) => FInv'
        /\ ConnectFail(t) \/ AddConn(t) \/ GetRemoteAddr(t) \/ AddSvrConn(t) => FInv'
    BY <1>1, ConnectF, ConnectFailF, AddConnF, GetRemoteAddrF, AddSvrConnF
  <2>5. CASE t = Reactor
    BY <1>1, <1>3, <2>1, <2>4, <2>5, HandleCloseF, RmConnF, RmSvrConnF, DestroyF,
       CloseHandleF, ReactorMovesF, AddSvrF, CloseSvrF, RmSvrF, PruneEndF DEF ThreadStep
  <2>6. CASE t # Reactor
    <3>1. th[t].pc \notin ClosePcs \cup {"closesvr", "prune", "add", "insert"}
      BY <2>3, <2>6
    <3>2. ~HandleClose(t) /\ ~RmConn(t) /\ ~RmSvrConn(t) /\ ~Destroy(t)
      BY <3>1 DEF HandleClose, RmConn, RmSvrConn, Destroy, At, ClosePcs
    <3>3. ~InsertRoute(t) /\ ~RmSvr(t) /\ ~PruneEnd(t)
      BY <3>1 DEF InsertRoute, RmSvr, PruneEnd, At
    <3>4. \A h \in Handles : ~CloseHandle(t, h)
      BY <3>1 DEF CloseHandle, At
    <3>5. \A r \in Routes : ~RefuseSvr(t, r) /\ ~AddSvr(t, r) /\ ~CloseSvr(t, r)
      BY <3>1 DEF RefuseSvr, AddSvr, CloseSvr, At
    <3> QED
      BY <1>3, <2>1, <2>4, <3>2, <3>3, <3>4, <3>5 DEF ThreadStep
  <2> QED
    BY <2>5, <2>6
<1>4. ASSUME ReactorStep PROVE FInv'
  BY <1>1, <1>4, AcceptF, HandleEventF, ReactorMovesF, FinalizeF, StopThreadsF DEF ReactorStep
<1>5. ASSUME NEW t \in Threads, ThreadStep(t) PROVE FInv'
  BY <1>1, <1>3, <1>5, WorkersF DEF Threads, Main
<1>6. UNCHANGED vars => FInv'
  BY <1>2 DEF vars
<1> QED
  BY <1>1, <1>4, <1>5, <1>6, TimerMovesF, WorkersF DEF Next, Running, Ended

\* What connections a process without updates has, in every reachable state.
THEOREM FinalizeInvariant == ASSUME NoUpdates PROVE Spec => []FInv
BY InitF, NextF, InductiveInvariant, UpdateInvariant, PTL DEF Spec

\* The destructor leaves no server registered and no connection with one, for any
\* number of servers, routes, clients and sending threads, whatever reBuild and
\* the reactor were doing when the process was told to stop.
THEOREM NothingLeft == Spec => []FinalizeDisconnects
<1>1. CASE RouterMaps = {} /\ Clients \cap Servers = {}
  <2>1. NoUpdates
    BY <1>1 DEF NoUpdates, Disjoint
  <2>2. FInv => FinalizeDisconnects
    BY DEF FInv, FinalizedF, FinalizeDisconnects
  <2>3. Spec => []FInv
    BY <2>1, FinalizeInvariant
  <2> QED
    BY <2>2, <2>3, PTL
<1>2. CASE ~(RouterMaps = {} /\ Clients \cap Servers = {})
  <2>1. FinalizeDisconnects
    BY <1>2 DEF FinalizeDisconnects
  <2>2. ASSUME TRUE PROVE Spec => []FinalizeDisconnects
    <3>1. [](~(RouterMaps = {} /\ Clients \cap Servers = {}) => FinalizeDisconnects)
      <4>1. ~(RouterMaps = {} /\ Clients \cap Servers = {}) => FinalizeDisconnects
        BY DEF FinalizeDisconnects
      <4> QED
        BY <4>1, PTL
    <3> QED
      BY <1>2, <3>1, PTL
  <2> QED
    BY <2>2
<1> QED
  BY <1>1, <1>2

=============================================================================
