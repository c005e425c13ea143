------------------------------- MODULE SvrMgr -------------------------------
(***************************************************************************)
(* The choice of a connection for a request: ProxyMgr::getSvrConn for one  *)
(* route and, in detail, the table of SvrMgr it reads, with the list it    *)
(* copies from each set of handles and the counters that rotate over the   *)
(* lists.  Callers are the threads in onDispatch.  getSvrConn takes no     *)
(* lock, so its ++dwPos of two callers can interleave; getConn takes the   *)
(* mutex for reading, so its nPos++ of two callers can, too.  A change of  *)
(* the route during a call is a data race, left to ConnRouting; here the   *)
(* route changes between calls and the sessions at any time.               *)
(***************************************************************************)
EXTENDS Integers, FiniteSets, SequencesExt

CONSTANTS
  Servers, Handles,
  Callers,      \* threads in getSvrConn
  None,         \* no handle (-1)
  MaxHandles,   \* bound: sessions of one server
  PosModulus    \* dwPos and nPos are kept modulo this number

\* Every list length divides it, so the counters index as if unbounded; the
\* 64-bit counters of the code do not wrap in the life of a process.
ASSUME PosAssumption ==
  /\ PosModulus \in Nat \ {0}
  /\ \A n \in 1..Cardinality(Servers) : PosModulus % n = 0
  /\ \A n \in 1..MaxHandles : PosModulus % n = 0
ASSUME CallersAssumption == None \notin Handles \cup Servers
ASSUME FiniteAssumption == IsFiniteSet(Handles) /\ IsFiniteSet(Servers)

VARIABLES
  m_mapSvr,     \* server -> SServer, for the registered servers
  server_list,  \* SProxy::server_list of the route
  dwPos,        \* SProxy::dwPos
  call,         \* caller -> its state in getSvrConn
  usable        \* caller -> servers that had a session ever since its call began

vars == <<m_mapSvr, server_list, dwPos, call, usable>>

SServer == [nPos : 0..(PosModulus - 1), handles : SUBSET Handles,
            handle_list : Seq(Handles)]
NewServer == [nPos |-> 0, handles |-> {}, handle_list |-> <<>>]

NoCall == [pc |-> "idle", left |-> 0, size |-> 0, pos |-> 0, svr |-> None,
           handle |-> None]
Pcs == {"idle", "inc", "store", "get", "rotate", "done"}

\* Readers of SvrMgr::m_mutex between the two halves of nPos++.
NoReader == \A c \in Callers : call[c].pc # "rotate"
NoCaller == \A c \in Callers : call[c].pc = "idle"

HasSession(s) == s \in DOMAIN m_mapSvr /\ m_mapSvr[s].handles # {}

TypeOK ==
  /\ DOMAIN m_mapSvr \subseteq Servers
  /\ \A s \in DOMAIN m_mapSvr : m_mapSvr[s] \in SServer
  /\ server_list \in Seq(Servers)
  /\ dwPos \in 0..(PosModulus - 1)
  /\ \A c \in Callers :
       /\ call[c].pc \in Pcs
       /\ call[c].left \in 0..Len(server_list)
       /\ call[c].handle \in Handles \cup {None}
  /\ usable \in [Callers -> SUBSET Servers]

Init ==
  /\ m_mapSvr = <<>>
  /\ server_list = <<>>
  /\ dwPos = 0
  /\ call = [c \in Callers |-> NoCall]
  /\ usable = [c \in Callers |-> {}]

----------------------------------------------------------------------------
(* The table: each operation is one critical section for writing.           *)

addSvrResets(s) ==
  /\ NoReader
  /\ m_mapSvr' = [x \in DOMAIN m_mapSvr \cup {s} |->
                    IF x = s THEN NewServer ELSE m_mapSvr[x]]
  /\ UNCHANGED <<server_list, dwPos, call, usable>>

addSvr(s) ==
  /\ NoReader
  /\ s \notin DOMAIN m_mapSvr
  /\ m_mapSvr' = [x \in DOMAIN m_mapSvr \cup {s} |->
                    IF x = s THEN NewServer ELSE m_mapSvr[x]]
  /\ UNCHANGED <<server_list, dwPos, call, usable>>

rmSvr(s) ==
  /\ NoReader
  /\ s \in DOMAIN m_mapSvr
  /\ m_mapSvr' = [x \in DOMAIN m_mapSvr \ {s} |-> m_mapSvr[x]]
  /\ usable' = [c \in Callers |-> usable[c] \ {s}]
  /\ UNCHANGED <<server_list, dwPos, call>>

addSvrConn(s, h) ==
  /\ NoReader
  /\ s \in DOMAIN m_mapSvr
  /\ h \notin m_mapSvr[s].handles
  /\ Cardinality(m_mapSvr[s].handles) < MaxHandles
  /\ m_mapSvr' = [m_mapSvr EXCEPT ![s].handles = @ \cup {h},
                                  ![s].handle_list = Append(@, h)]
  /\ UNCHANGED <<server_list, dwPos, call, usable>>

rmSvrConnKeepsList(s, h) ==
  /\ NoReader
  /\ s \in DOMAIN m_mapSvr
  /\ h \in m_mapSvr[s].handles
  /\ m_mapSvr' = [m_mapSvr EXCEPT ![s].handles = @ \ {h}]
  /\ usable' = [c \in Callers |->
                  IF m_mapSvr[s].handles = {h} THEN usable[c] \ {s} ELSE usable[c]]
  /\ UNCHANGED <<server_list, dwPos, call>>

\* The list is copied again from the hashed set, in whatever order it has.
rmSvrConn(s, h) ==
  /\ NoReader
  /\ s \in DOMAIN m_mapSvr
  /\ h \in m_mapSvr[s].handles
  /\ \E l \in SetToSeqs(m_mapSvr[s].handles \ {h}) :
       m_mapSvr' = [m_mapSvr EXCEPT ![s].handles = @ \ {h}, ![s].handle_list = l]
  /\ usable' = [c \in Callers |->
                  IF m_mapSvr[s].handles = {h} THEN usable[c] \ {s} ELSE usable[c]]
  /\ UNCHANGED <<server_list, dwPos, call>>

\* ProxyMgr::addSvr and updateProxy change the route after the table.
PushServer(s) ==
  /\ NoCaller
  /\ s \in DOMAIN m_mapSvr
  /\ s \notin ToSet(server_list)
  /\ server_list' = Append(server_list, s)
  /\ UNCHANGED <<m_mapSvr, dwPos, call, usable>>

EraseServer(s) ==
  /\ NoCaller
  /\ s \in ToSet(server_list) \ DOMAIN m_mapSvr
  /\ server_list' \in SetToSeqs(ToSet(server_list) \ {s})
  /\ UNCHANGED <<m_mapSvr, dwPos, call, usable>>

----------------------------------------------------------------------------
(* getSvrConn.  Its loop tries as many servers as the route has.  It goes   *)
(* on after a server that has a connection, too: there is no break.         *)

Step(c, f) == call' = [call EXCEPT ![c] = f]

Begin(c) ==
  /\ call[c].pc = "idle"
  /\ LET n == Len(server_list)
     IN Step(c, [NoCall EXCEPT !.pc = IF n = 0 THEN "done" ELSE "inc",
                               !.left = n, !.size = n])
  /\ usable' = [usable EXCEPT ![c] = {s \in ToSet(server_list) : HasSession(s)}]
  /\ UNCHANGED <<m_mapSvr, server_list, dwPos>>

\* ++dwPos % nSvrSize: the read, then the write of the value it computed.
ReadPos(c) ==
  /\ call[c].pc = "inc"
  /\ Step(c, [call[c] EXCEPT !.pc = "store", !.pos = (dwPos + 1) % PosModulus])
  /\ UNCHANGED <<m_mapSvr, server_list, dwPos, usable>>

StorePos(c) ==
  /\ call[c].pc = "store"
  /\ dwPos' = call[c].pos
  /\ Step(c, [call[c] EXCEPT !.pc = "get", !.pos = 0,
                !.svr = server_list[(call[c].pos % call[c].size) + 1]])
  /\ UNCHANGED <<m_mapSvr, server_list, usable>>

AfterTryOnceMore(c, handle) ==
  [call[c] EXCEPT !.pc = IF call[c].left = 0 THEN "done" ELSE "inc",
                  !.left = @ - 1, !.pos = 0, !.svr = None, !.handle = handle]

\* One pass of the loop is over; the last one gives the result.
AfterTry(c, handle) ==
  [call[c] EXCEPT !.pc = IF call[c].left = 1 THEN "done" ELSE "inc",
                  !.left = @ - 1, !.pos = 0, !.svr = None, !.handle = handle]

\* getConn of a server with sessions: *(handle_list.begin() + nPos++ % dwSize).
GetConn(c) ==
  LET s == call[c].svr
      l == m_mapSvr[s].handle_list
  IN /\ call[c].pc = "get"
     /\ HasSession(s)
     /\ Step(c, [call[c] EXCEPT !.pc = "rotate", !.pos = m_mapSvr[s].nPos,
                                !.handle = l[(m_mapSvr[s].nPos % Len(l)) + 1]])
     /\ UNCHANGED <<m_mapSvr, server_list, dwPos, usable>>

StoreNPos(c) ==
  LET s == call[c].svr
  IN /\ call[c].pc = "rotate"
     /\ m_mapSvr' = [m_mapSvr EXCEPT ![s].nPos = (call[c].pos + 1) % PosModulus]
     /\ Step(c, AfterTry(c, call[c].handle))
     /\ UNCHANGED <<server_list, dwPos, usable>>

GetNoConnWhenBusy(c) ==
  /\ call[c].pc = "get"
  /\ ~NoReader \/ ~HasSession(call[c].svr)
  /\ Step(c, AfterTry(c, None))
  /\ UNCHANGED <<m_mapSvr, server_list, dwPos, usable>>

\* getConn of a server without one: -1, which replaces what was found before.
GetNoConn(c) ==
  /\ call[c].pc = "get"
  /\ ~HasSession(call[c].svr)
  /\ Step(c, AfterTry(c, None))
  /\ UNCHANGED <<m_mapSvr, server_list, dwPos, usable>>

Return(c) ==
  /\ call[c].pc = "done"
  /\ Step(c, NoCall)
  /\ usable' = [usable EXCEPT ![c] = {}]
  /\ UNCHANGED <<m_mapSvr, server_list, dwPos>>

TableStep ==
  \/ \E s \in Servers : addSvr(s) \/ rmSvr(s) \/ PushServer(s) \/ EraseServer(s)
  \/ \E s \in Servers, h \in Handles : addSvrConn(s, h) \/ rmSvrConn(s, h)

CallStep(c) ==
  \/ Begin(c)
  \/ ReadPos(c)
  \/ StorePos(c)
  \/ GetConn(c)
  \/ StoreNPos(c)
  \/ GetNoConn(c)
  \/ Return(c)

Next == TableStep \/ \E c \in Callers : CallStep(c)

Spec == Init /\ [][Next]_vars

----------------------------------------------------------------------------
(* Properties.                                                              *)

\* handle_list, the list getConn indexes, enumerates handles, the set the other
\* operations search, without a duplicate.
ListIsSet ==
  \A s \in DOMAIN m_mapSvr :
    /\ ToSet(m_mapSvr[s].handle_list) = m_mapSvr[s].handles
    /\ Len(m_mapSvr[s].handle_list) = Cardinality(m_mapSvr[s].handles)

\* The table is what SessionTable says its callers see.
Table == INSTANCE SessionTable
           WITH registered <- DOMAIN m_mapSvr,
                sessions <- [s \in Servers |->
                   IF s \in DOMAIN m_mapSvr THEN m_mapSvr[s].handles ELSE {}]
ImplementsTable == Table!SessionSpec

\* A call finds a connection if every server of the route had one all along,
\* although the counters of concurrent calls lose increments.
CallFindsConn ==
  \A c \in Callers :
    call[c].pc = "done" /\ server_list # <<>> /\ usable[c] = ToSet(server_list)
      => call[c].handle # None

=============================================================================
