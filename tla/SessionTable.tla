---------------------------- MODULE SessionTable ----------------------------
(***************************************************************************)
(* What SvrMgr (svrmgr.cpp) promises its callers: a table of registered    *)
(* back-end servers, each with the set of handles of the sessions open     *)
(* with it.  Every operator is one method of SvrMgr, that is one critical  *)
(* section of SvrMgr::m_mutex.  handle_list and nPos, the enumeration of   *)
(* the set and the cursor that getConn rotates over it, are left out: a    *)
(* caller gets some handle of the set.                                     *)
(***************************************************************************)
EXTENDS Integers, FiniteSets

CONSTANTS
  Servers,   \* addresses (ip, port) a back-end server may have
  Handles    \* descriptors the kernel gives out

VARIABLES
  registered,   \* the keys of SvrMgr::m_mapSvr
  sessions      \* server -> SServer::handles, {} when it is not registered

sessionVars == <<registered, sessions>>

SessionTypeOK ==
  /\ registered \subseteq Servers
  /\ sessions \in [Servers -> SUBSET Handles]

SessionInit ==
  /\ registered = {}
  /\ sessions = [s \in Servers |-> {}]

isSvrExist(s) == s \in registered

\* Faulty variants of getHandleNum and rmSvrConn, each a slip of one line.
getHandleNumOffByOne(s) == IF s \in registered THEN Cardinality(sessions[s]) - 1 ELSE -1
getHandleNumNoServer(s) == IF s \in registered THEN Cardinality(sessions[s]) ELSE 0
getHandleNumNoSession(s) == IF sessions[s] # {} THEN Cardinality(sessions[s]) ELSE -1

\* A session count is -1, so neither 0 nor excessive, when s is not registered.
getHandleNum(s) == IF s \in registered THEN Cardinality(sessions[s]) ELSE -1

addSvr(s) ==
  /\ registered' = registered \cup {s}
  /\ UNCHANGED sessions

rmSvr(s) ==
  /\ registered' = registered \ {s}
  /\ sessions' = [sessions EXCEPT ![s] = {}]

\* p may be any peer address: an unregistered one leaves the table alone.
addSvrConn(p, h) ==
  /\ sessions' = [s \in Servers |->
                    IF s = p /\ s \in registered THEN sessions[s] \cup {h}
                                                 ELSE sessions[s]]
  /\ UNCHANGED registered

rmSvrConnKeeps(p, h) == UNCHANGED <<registered, sessions>>

rmSvrConn(p, h) ==
  /\ sessions' = [s \in Servers |->
                    IF s = p THEN sessions[s] \ {h} ELSE sessions[s]]
  /\ UNCHANGED registered

\* The table, whatever the threads that call it do.
SessionNext ==
  \/ \E s \in Servers : addSvr(s) \/ rmSvr(s)
  \/ \E s \in Servers, h \in Handles : addSvrConn(s, h) \/ rmSvrConn(s, h)

SessionSpec == SessionInit /\ [][SessionNext]_sessionVars

=============================================================================
