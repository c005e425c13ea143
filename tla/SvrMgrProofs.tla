---------------------------- MODULE SvrMgrProofs ----------------------------
(***************************************************************************)
(* Theorems about SvrMgr, for all sets of servers, handles and callers:    *)
(* the list getConn indexes is the set of sessions, a call of getSvrConn   *)
(* finds a connection if all servers of the route had one, and the         *)
(* detailed table implements SessionTable.                                 *)
(***************************************************************************)
EXTENDS SvrMgr, FiniteSetTheorems, SequenceTheorems, TLAPS

----------------------------------------------------------------------------
(* Lists and sets.                                                          *)

\* Appending to a list adds one element to the set of its elements.
LEMMA ToSetAppend ==
  ASSUME NEW S, NEW q \in Seq(S), NEW e \in S
  PROVE  ToSet(Append(q, e)) = ToSet(q) \cup {e}
<1> DEFINE r == Append(q, e)
<1>1. /\ r \in Seq(S) /\ Len(r) = Len(q) + 1 /\ r[Len(q) + 1] = e
      /\ \A i \in 1..Len(q) : r[i] = q[i]
  BY AppendProperties
<1>2. DOMAIN r = 1..(Len(q) + 1) /\ DOMAIN q = 1..Len(q) /\ Len(q) \in Nat
  BY <1>1
<1> HIDE DEF r
<1>3. DOMAIN r = DOMAIN q \cup {Len(q) + 1}
  BY <1>2
<1> QED  BY <1>1, <1>2, <1>3 DEF ToSet

\* The copy rmSvrConn makes has the elements of the set, each once.
LEMMA SetToSeqsProperties ==
  ASSUME NEW S, IsFiniteSet(S), NEW l \in SetToSeqs(S)
  PROVE  /\ l \in Seq(S)
         /\ Len(l) = Cardinality(S)
         /\ ToSet(l) = S
<1> DEFINE D == 1..Cardinality(S)
<1>1. Cardinality(S) \in Nat
  BY FS_CardinalityType
<1>2. l \in [D -> S] /\ \A i, j \in D : i # j => l[i] # l[j]
  BY DEF SetToSeqs
<1>3. l \in Seq(S) /\ Len(l) = Cardinality(S) /\ DOMAIN l = D
  BY <1>1, <1>2
<1>4. IsFiniteSet(D) /\ Cardinality(D) = Cardinality(S)
  BY <1>1, FS_Interval
<1> HIDE DEF D
<1>5. ASSUME NEW x \in S PROVE \E i \in D : l[i] = x
  <2>1. SUFFICES ASSUME \A i \in D : l[i] # x PROVE FALSE
    OBVIOUS
  <2>2. l \in [D -> S \ {x}]
    BY <1>2, <2>1
  <2>3. IsFiniteSet(S \ {x}) /\ Cardinality(S \ {x}) = Cardinality(S) - 1
    BY FS_RemoveElement
  <2>4. \E i, j \in D : i # j /\ l[i] = l[j]
    BY <1>1, <1>4, <2>2, <2>3, FS_PigeonHole
  <2> QED  BY <1>2, <2>4
<1>6. ToSet(l) = S
  BY <1>2, <1>3, <1>5 DEF ToSet
<1> QED  BY <1>3, <1>6

\* An index modulo the size of a list is an index of the list.
LEMMA Rotation ==
  ASSUME NEW S, NEW q \in Seq(S), q # <<>>, NEW n \in Nat
  PROVE  q[(n % Len(q)) + 1] \in S /\ q[(n % Len(q)) + 1] \in ToSet(q)
<1>1. Len(q) \in Nat \ {0} /\ DOMAIN q = 1..Len(q)
  BY EmptySeq
<1>2. (n % Len(q)) + 1 \in DOMAIN q
  BY <1>1
<1> QED  BY <1>1, <1>2 DEF ToSet

\* The counters stay below PosModulus.
LEMMA PosInRange ==
  ASSUME NEW n \in Nat
  PROVE  (n + 1) % PosModulus \in 0..(PosModulus - 1)
BY PosAssumption

----------------------------------------------------------------------------
(* The inductive invariant.                                                 *)

CallRecord ==
  [pc : Pcs, left : Nat, size : Nat, pos : 0..(PosModulus - 1),
   svr : Servers \cup {None}, handle : Handles \cup {None}]

\* The route does not change during a call, so the size read at the start is
\* that of the list, and a server in hand is one of it.
InLoop(c) == call[c].pc \in {"inc", "store", "get", "rotate"}
CallOK(c) ==
  /\ InLoop(c) => /\ call[c].size = Len(server_list)
                  /\ call[c].left \in 1..Len(server_list)
  /\ ~InLoop(c) => call[c].left = 0
  /\ call[c].pc \in {"get", "rotate"} => call[c].svr \in ToSet(server_list)
  /\ call[c].pc = "rotate" => /\ call[c].svr \in DOMAIN m_mapSvr
                              /\ call[c].handle \in Handles

\* usable[c] is out of date in one way only: it is cut when sessions end.
UsableOK(c) ==
  /\ \A s \in usable[c] : HasSession(s) /\ s \in ToSet(server_list)
  /\ call[c].pc = "idle" => usable[c] = {}

IInv ==
  /\ TypeOK
  /\ call \in [Callers -> CallRecord]
  /\ ListIsSet
  /\ \A c \in Callers : CallOK(c) /\ UsableOK(c)
  /\ CallFindsConn

LEMMA InitIInv == Init => IInv
<1> SUFFICES ASSUME Init PROVE IInv
  OBVIOUS
<1>1. DOMAIN m_mapSvr = {} /\ server_list \in Seq(Servers) /\ Len(server_list) = 0
  BY DEF Init
<1>2. NoCall \in CallRecord
  BY PosAssumption DEF NoCall, CallRecord, Pcs
<1>3. call \in [Callers -> CallRecord] /\ \A c \in Callers : call[c] = NoCall
  BY <1>2 DEF Init
<1>4. TypeOK
  BY <1>1, <1>3, PosAssumption DEF Init, TypeOK, NoCall, Pcs
<1> QED
  BY <1>1, <1>3, <1>4
  DEF Init, IInv, NoCall, ListIsSet, CallOK, InLoop, UsableOK, CallFindsConn

----------------------------------------------------------------------------
(* The table.                                                               *)

\* What a change of the table must keep: its type, the agreement of list and
\* set, and the sessions callers count on.
LEMMA TableIInv ==
  ASSUME IInv, NoReader,
         UNCHANGED <<server_list, dwPos, call>>,
         DOMAIN m_mapSvr' \subseteq Servers,
         \A s \in DOMAIN m_mapSvr' : m_mapSvr'[s] \in SServer,
         ListIsSet',
         usable' \in [Callers -> SUBSET Servers],
         \A c \in Callers : /\ usable'[c] \subseteq usable[c]
                             /\ \A s \in usable'[c] : HasSession(s)'
  PROVE  IInv'
<1>1. TypeOK'
  BY DEF IInv, TypeOK
<1>2. \A c \in Callers : CallOK(c)' /\ UsableOK(c)'
  BY DEF IInv, CallOK, InLoop, UsableOK, NoReader
<1>3. CallFindsConn'
  <2> SUFFICES ASSUME NEW c \in Callers, call[c].pc = "done", server_list # <<>>,
                      usable'[c] = ToSet(server_list)
               PROVE  call[c].handle # None
    BY DEF CallFindsConn
  <2>1. usable[c] \subseteq ToSet(server_list)
    BY DEF IInv, UsableOK
  <2>2. usable[c] = ToSet(server_list)
    BY <2>1
  <2> QED  BY <2>2 DEF IInv, CallFindsConn
<1> QED  BY <1>1, <1>2, <1>3 DEF IInv

LEMMA AddSvrIInv ==
  ASSUME IInv, NEW s \in Servers, addSvr(s)
  PROVE  IInv'
<1>1. NewServer \in SServer /\ ToSet(NewServer.handle_list) = NewServer.handles
      /\ Len(NewServer.handle_list) = 0
  BY PosAssumption DEF NewServer, SServer, ToSet
<1>2. /\ DOMAIN m_mapSvr' = DOMAIN m_mapSvr \cup {s}
      /\ m_mapSvr'[s] = NewServer
      /\ \A x \in DOMAIN m_mapSvr : x # s /\ m_mapSvr'[x] = m_mapSvr[x]
  BY DEF addSvr
<1>3. ListIsSet'
  BY <1>1, <1>2, FS_EmptySet DEF IInv, ListIsSet, NewServer
<1>4. \A x \in DOMAIN m_mapSvr' : m_mapSvr'[x] \in SServer
  BY <1>1, <1>2 DEF IInv, TypeOK
<1>5. \A c \in Callers : \A x \in usable[c] : HasSession(x)'
  BY <1>2 DEF IInv, UsableOK, HasSession
<1>6. usable' = usable /\ usable \in [Callers -> SUBSET Servers]
      /\ DOMAIN m_mapSvr \subseteq Servers
  BY DEF addSvr, IInv, TypeOK
<1> QED  BY <1>2, <1>3, <1>4, <1>5, <1>6, TableIInv DEF addSvr

LEMMA RmSvrIInv ==
  ASSUME IInv, NEW s \in Servers, rmSvr(s)
  PROVE  IInv'
<1>1. /\ DOMAIN m_mapSvr' = DOMAIN m_mapSvr \ {s}
      /\ \A x \in DOMAIN m_mapSvr' : m_mapSvr'[x] = m_mapSvr[x]
  BY DEF rmSvr
<1>2. /\ usable' \in [Callers -> SUBSET Servers]
      /\ \A c \in Callers : usable'[c] = usable[c] \ {s}
  BY DEF rmSvr, IInv, TypeOK
<1>3. \A c \in Callers : \A x \in usable'[c] : HasSession(x)'
  BY <1>1, <1>2 DEF IInv, UsableOK, HasSession
<1>4. ListIsSet'
  BY <1>1 DEF IInv, ListIsSet
<1>5. DOMAIN m_mapSvr' \subseteq Servers /\ \A x \in DOMAIN m_mapSvr' : m_mapSvr'[x] \in SServer
  BY <1>1 DEF IInv, TypeOK
<1> QED  BY <1>1, <1>2, <1>3, <1>4, <1>5, TableIInv DEF rmSvr

LEMMA AddSvrConnIInv ==
  ASSUME IInv, NEW s \in Servers, NEW h \in Handles, addSvrConn(s, h)
  PROVE  IInv'
<1> DEFINE old == m_mapSvr[s]
           new == m_mapSvr'[s]
<1>1. /\ DOMAIN m_mapSvr' = DOMAIN m_mapSvr /\ s \in DOMAIN m_mapSvr
      /\ \A x \in DOMAIN m_mapSvr \ {s} : m_mapSvr'[x] = m_mapSvr[x]
  BY DEF addSvrConn
<1>2. /\ old \in SServer
      /\ ToSet(old.handle_list) = old.handles
      /\ Len(old.handle_list) = Cardinality(old.handles)
  BY <1>1 DEF IInv, TypeOK, ListIsSet
<1>3. new = [old EXCEPT !.handles = @ \cup {h}, !.handle_list = Append(@, h)]
  BY <1>1 DEF addSvrConn
<1> HIDE DEF old, new
<1>4. /\ new.handles = old.handles \cup {h}
      /\ new.handle_list = Append(old.handle_list, h)
      /\ new.nPos = old.nPos
      /\ new = [nPos |-> old.nPos, handles |-> new.handles,
                handle_list |-> new.handle_list]
  BY <1>2, <1>3 DEF SServer
<1>5. new \in SServer
  BY <1>2, <1>4, AppendProperties DEF SServer
<1>6. ToSet(new.handle_list) = new.handles
  BY <1>2, <1>4, ToSetAppend DEF SServer
<1>7. Len(new.handle_list) = Cardinality(new.handles)
  <2>1. h \notin old.handles
    BY DEF addSvrConn, old
  <2>2. old.handle_list \in Seq(Handles) /\ old.handles \in SUBSET Handles
    BY <1>2 DEF SServer
  <2>3. IsFiniteSet(old.handles)
    BY <2>2, FiniteAssumption, FS_Subset
  <2>4. Cardinality(new.handles) = Cardinality(old.handles) + 1
    BY <1>4, <2>1, <2>3, FS_AddElement
  <2>5. Len(new.handle_list) = Len(old.handle_list) + 1
    BY <1>4, <2>2, AppendProperties
  <2> QED  BY <1>2, <2>4, <2>5
<1>8. ListIsSet'
  BY <1>1, <1>6, <1>7 DEF IInv, ListIsSet, new
<1>9. \A x \in DOMAIN m_mapSvr' : m_mapSvr'[x] \in SServer
  BY <1>1, <1>5 DEF IInv, TypeOK, new
<1>10. \A c \in Callers : \A x \in usable[c] : HasSession(x)'
  BY <1>1, <1>4 DEF IInv, UsableOK, HasSession, new, old
<1>11. usable' = usable /\ usable \in [Callers -> SUBSET Servers]
      /\ DOMAIN m_mapSvr \subseteq Servers
  BY DEF addSvrConn, IInv, TypeOK
<1> QED  BY <1>1, <1>8, <1>9, <1>10, <1>11, TableIInv DEF addSvrConn

LEMMA RmSvrConnIInv ==
  ASSUME IInv, NEW s \in Servers, NEW h \in Handles, rmSvrConn(s, h)
  PROVE  IInv'
<1> DEFINE old == m_mapSvr[s]
           new == m_mapSvr'[s]
<1>1. /\ DOMAIN m_mapSvr' = DOMAIN m_mapSvr /\ s \in DOMAIN m_mapSvr
      /\ \A x \in DOMAIN m_mapSvr \ {s} : m_mapSvr'[x] = m_mapSvr[x]
  BY DEF rmSvrConn
<1>2. old \in SServer
  BY <1>1 DEF IInv, TypeOK
<1>3. PICK l \in SetToSeqs(old.handles \ {h}) :
        new = [old EXCEPT !.handles = @ \ {h}, !.handle_list = l]
  BY <1>1 DEF rmSvrConn
<1>4. \A c \in Callers : usable'[c] =
           IF old.handles = {h} THEN usable[c] \ {s} ELSE usable[c]
  BY DEF rmSvrConn
<1> HIDE DEF old, new
<1>5. /\ new.handles = old.handles \ {h}
      /\ new.handle_list = l
      /\ new.nPos = old.nPos
      /\ new = [nPos |-> old.nPos, handles |-> new.handles,
                handle_list |-> new.handle_list]
  BY <1>2, <1>3 DEF SServer
<1>6. /\ l \in Seq(new.handles) /\ new.handles \subseteq Handles
      /\ Len(l) = Cardinality(new.handles)
      /\ ToSet(l) = new.handles
  <2>1. new.handles \in SUBSET Handles
    BY <1>2, <1>5 DEF SServer
  <2>2. IsFiniteSet(new.handles)
    BY <2>1, FiniteAssumption, FS_Subset
  <2> QED  BY <1>3, <1>5, <2>1, <2>2, SetToSeqsProperties
<1>7. new \in SServer
  <2>1. l \in Seq(Handles)
    BY <1>6
  <2> QED  BY <1>2, <1>5, <1>6, <2>1 DEF SServer
<1>8. ListIsSet'
  BY <1>1, <1>5, <1>6 DEF IInv, ListIsSet, new
<1>9. \A x \in DOMAIN m_mapSvr' : m_mapSvr'[x] \in SServer
  BY <1>1, <1>7 DEF IInv, TypeOK, new
<1>10. /\ usable' \in [Callers -> SUBSET Servers]
       /\ \A c \in Callers : usable'[c] \subseteq usable[c]
  BY DEF rmSvrConn, IInv, TypeOK
<1>11. \A c \in Callers : \A x \in usable'[c] : HasSession(x)'
  BY <1>1, <1>4, <1>5, <1>10 DEF IInv, UsableOK, HasSession, new, old
<1>12. DOMAIN m_mapSvr \subseteq Servers
  BY DEF IInv, TypeOK
<1> QED  BY <1>1, <1>8, <1>9, <1>10, <1>11, <1>12, TableIInv DEF rmSvrConn

\* The route changes when nobody is in getSvrConn.
LEMMA RouteIInv ==
  ASSUME IInv, NoCaller, server_list' \in Seq(Servers),
         UNCHANGED <<m_mapSvr, dwPos, call, usable>>
  PROVE  IInv'
<1>1. TypeOK'
  <2>1. Len(server_list') \in Nat
    OBVIOUS
  <2>2. \A c \in Callers : call[c].left = 0
    BY DEF IInv, NoCaller, CallOK, InLoop
  <2> QED  BY <2>1, <2>2 DEF IInv, TypeOK
<1>2. ListIsSet'
  BY DEF IInv, ListIsSet
<1> QED
  BY <1>1, <1>2
  DEF IInv, NoCaller, CallOK, InLoop, UsableOK, HasSession, CallFindsConn

LEMMA PushServerIInv ==
  ASSUME IInv, NEW s \in Servers, PushServer(s)
  PROVE  IInv'
BY RouteIInv, AppendProperties DEF PushServer, IInv, TypeOK

LEMMA EraseServerIInv ==
  ASSUME IInv, NEW s \in Servers, EraseServer(s)
  PROVE  IInv'
<1>1. ToSet(server_list) \in SUBSET Servers
  BY DEF IInv, TypeOK, ToSet
<1>2. ToSet(server_list) \ {s} \in SUBSET Servers
  BY <1>1
<1>3. IsFiniteSet(ToSet(server_list) \ {s})
  BY <1>2, FiniteAssumption, FS_Subset
<1>4. server_list' \in Seq(ToSet(server_list) \ {s})
  BY <1>3, SetToSeqsProperties DEF EraseServer
<1>5. server_list' \in Seq(Servers)
  BY <1>2, <1>4
<1> QED  BY <1>5, RouteIInv DEF EraseServer

----------------------------------------------------------------------------
(* getSvrConn.                                                              *)

\* What a step of a call must keep: the route and the sessions stay, and the
\* state of the other calls.
LEMMA CallIInv ==
  ASSUME IInv, NEW c \in Callers, NEW f \in CallRecord, Step(c, f),
         NEW U \in SUBSET Servers, usable' = [usable EXCEPT ![c] = U],
         server_list' = server_list,
         dwPos' \in 0..(PosModulus - 1),
         DOMAIN m_mapSvr' = DOMAIN m_mapSvr,
         \A s \in DOMAIN m_mapSvr :
           /\ m_mapSvr'[s] \in SServer
           /\ m_mapSvr'[s].handles = m_mapSvr[s].handles
           /\ m_mapSvr'[s].handle_list = m_mapSvr[s].handle_list,
         CallOK(c)', UsableOK(c)',
         f.pc = "done" /\ server_list # <<>> /\ U = ToSet(server_list)
           => f.handle # None
  PROVE  IInv'
<1>1. call' \in [Callers -> CallRecord]
  BY DEF IInv, Step
<1>2. usable' \in [Callers -> SUBSET Servers]
  BY DEF IInv, TypeOK
<1>3. /\ call'[c] = f /\ usable'[c] = U
      /\ \A d \in Callers \ {c} : call'[d] = call[d] /\ usable'[d] = usable[d]
  BY DEF IInv, TypeOK, Step
<1>4. ListIsSet'
  BY DEF IInv, ListIsSet
<1>5. \A d \in Callers : CallOK(d)' /\ UsableOK(d)'
  BY <1>3 DEF IInv, CallOK, InLoop, UsableOK, HasSession
<1>6. TypeOK'
  <2>1. \A d \in Callers : call'[d] \in CallRecord
    BY <1>1
  <2>2. \A d \in Callers : call'[d].left \in 0..Len(server_list)
    <3>1. Len(server_list) \in Nat
      BY DEF IInv, TypeOK
    <3> QED  BY <1>5, <3>1 DEF CallOK
  <2>3. \A d \in Callers : call'[d].pc \in Pcs /\ call'[d].handle \in Handles \cup {None}
    BY <2>1 DEF CallRecord
  <2> QED  BY <1>2, <2>2, <2>3 DEF IInv, TypeOK
<1>7. CallFindsConn'
  BY <1>3 DEF IInv, CallFindsConn
<1> QED  BY <1>1, <1>4, <1>5, <1>6, <1>7 DEF IInv

\* A step that leaves the table and usable alone.
LEMMA InCallIInv ==
  ASSUME IInv, NEW c \in Callers, NEW f \in CallRecord, Step(c, f),
         UNCHANGED <<m_mapSvr, server_list, usable>>,
         dwPos' \in 0..(PosModulus - 1),
         CallOK(c)', UsableOK(c)',
         f.pc = "done" /\ server_list # <<>> /\ usable[c] = ToSet(server_list)
           => f.handle # None
  PROVE  IInv'
<1>1. usable' = [usable EXCEPT ![c] = usable[c]] /\ usable[c] \in SUBSET Servers
  BY DEF IInv, TypeOK
<1>2. \A s \in DOMAIN m_mapSvr : m_mapSvr[s] \in SServer
  BY DEF IInv, TypeOK
<1> QED  BY <1>1, <1>2, CallIInv

LEMMA CallFields ==
  ASSUME IInv, NEW c \in Callers
  PROVE  /\ call[c] \in CallRecord
         /\ call[c].pc \in Pcs /\ call[c].left \in Nat /\ call[c].size \in Nat
         /\ call[c].pos \in 0..(PosModulus - 1)
         /\ call[c].svr \in Servers \cup {None}
         /\ call[c].handle \in Handles \cup {None}
         /\ call[c] = [pc |-> call[c].pc, left |-> call[c].left,
                       size |-> call[c].size, pos |-> call[c].pos,
                       svr |-> call[c].svr, handle |-> call[c].handle]
<1>1. call[c] \in CallRecord
  BY DEF IInv
<1> QED  BY <1>1 DEF CallRecord

LEMMA BeginIInv ==
  ASSUME IInv, NEW c \in Callers, Begin(c)
  PROVE  IInv'
<1> DEFINE n == Len(server_list)
           f == [NoCall EXCEPT !.pc = IF n = 0 THEN "done" ELSE "inc",
                               !.left = n, !.size = n]
           U == {s \in ToSet(server_list) : HasSession(s)}
<1>1. server_list \in Seq(Servers) /\ n \in Nat
  BY DEF IInv, TypeOK
<1>2. /\ f \in CallRecord /\ f.left = n /\ f.size = n
      /\ f.pc = IF n = 0 THEN "done" ELSE "inc"
  <2>1. 0 \in 0..(PosModulus - 1)
    BY PosAssumption
  <2> QED  BY <1>1, <2>1 DEF NoCall, CallRecord, Pcs
<1>3. call' = [call EXCEPT ![c] = f]
  BY DEF Begin, Step
<1>4. /\ usable' = [usable EXCEPT ![c] = U]
      /\ UNCHANGED <<m_mapSvr, server_list, dwPos>>
  BY DEF Begin
<1>5. U \in SUBSET Servers
  BY <1>1 DEF ToSet
<1>6. call'[c] = f /\ usable'[c] = U
  BY <1>3, <1>4 DEF IInv, TypeOK
<1> HIDE DEF f, U
<1>7. CallOK(c)'
  BY <1>1, <1>2, <1>4, <1>6 DEF CallOK, InLoop
<1>8. UsableOK(c)'
  BY <1>2, <1>4, <1>6 DEF UsableOK, HasSession, U
<1>9. f.pc = "done" => server_list = <<>>
  BY <1>1, <1>2, EmptySeq
<1>10. /\ dwPos' \in 0..(PosModulus - 1)
       /\ \A s \in DOMAIN m_mapSvr : m_mapSvr[s] \in SServer
  BY <1>4 DEF IInv, TypeOK
<1> QED
  BY <1>2, <1>3, <1>4, <1>5, <1>7, <1>8, <1>9, <1>10, CallIInv DEF Step

LEMMA ReadPosIInv ==
  ASSUME IInv, NEW c \in Callers, ReadPos(c)
  PROVE  IInv'
<1> DEFINE f == [call[c] EXCEPT !.pc = "store", !.pos = (dwPos + 1) % PosModulus]
<1>1. dwPos \in 0..(PosModulus - 1) /\ dwPos \in Nat
  BY PosAssumption DEF IInv, TypeOK
<1>2. f \in CallRecord /\ f.pc = "store" /\ f.left = call[c].left
      /\ f.size = call[c].size
  BY <1>1, CallFields, PosInRange DEF CallRecord, Pcs
<1>3. call'[c] = f /\ call[c].pc = "inc"
  BY DEF ReadPos, Step, IInv
<1>4. CallOK(c)' /\ UsableOK(c)'
  BY <1>2, <1>3 DEF ReadPos, IInv, CallOK, InLoop, UsableOK, HasSession
<1> QED  BY <1>1, <1>2, <1>4, InCallIInv DEF ReadPos

LEMMA StorePosIInv ==
  ASSUME IInv, NEW c \in Callers, StorePos(c)
  PROVE  IInv'
<1> DEFINE f == [call[c] EXCEPT !.pc = "get", !.pos = 0,
                   !.svr = server_list[(call[c].pos % call[c].size) + 1]]
<1>1. /\ call[c].pos \in Nat /\ call[c].pos \in 0..(PosModulus - 1)
      /\ server_list \in Seq(Servers)
      /\ call[c].size = Len(server_list) /\ server_list # <<>>
  BY CallFields, EmptySeq DEF StorePos, IInv, TypeOK, CallOK, InLoop
<1>2. /\ server_list[(call[c].pos % call[c].size) + 1] \in Servers
      /\ server_list[(call[c].pos % call[c].size) + 1] \in ToSet(server_list)
  BY <1>1, Rotation
<1>3. /\ f \in CallRecord /\ f.pc = "get" /\ f.left = call[c].left
      /\ f.size = call[c].size /\ f.svr \in ToSet(server_list)
  <2>1. 0 \in 0..(PosModulus - 1)
    BY PosAssumption
  <2>2. \A v \in Servers :
          LET g == [call[c] EXCEPT !.pc = "get", !.pos = 0, !.svr = v]
          IN  /\ g \in CallRecord /\ g.pc = "get" /\ g.left = call[c].left
              /\ g.size = call[c].size /\ g.svr = v
    BY <2>1, CallFields DEF CallRecord, Pcs
  <2> QED  BY <1>2, <2>2
<1>4. call'[c] = f /\ call[c].pc = "store"
  BY DEF StorePos, Step, IInv
<1>5. CallOK(c)' /\ UsableOK(c)'
  BY <1>3, <1>4 DEF StorePos, IInv, CallOK, InLoop, UsableOK, HasSession
<1> QED  BY <1>1, <1>3, <1>5, InCallIInv DEF StorePos

LEMMA GetConnIInv ==
  ASSUME IInv, NEW c \in Callers, GetConn(c)
  PROVE  IInv'
<1> DEFINE s == call[c].svr
           l == m_mapSvr[s].handle_list
           f == [call[c] EXCEPT !.pc = "rotate", !.pos = m_mapSvr[s].nPos,
                   !.handle = l[(m_mapSvr[s].nPos % Len(l)) + 1]]
<1>1. s \in DOMAIN m_mapSvr /\ m_mapSvr[s] \in SServer
  BY DEF GetConn, HasSession, IInv, TypeOK
<1>2. m_mapSvr[s].nPos \in 0..(PosModulus - 1) /\ l \in Seq(Handles)
  BY <1>1 DEF SServer
<1>3. l # <<>>
  <2>1. ToSet(l) # {}
    BY <1>1 DEF GetConn, HasSession, IInv, ListIsSet
  <2>2. ToSet(<<>>) = {}
    BY DEF ToSet
  <2> QED  BY <2>1, <2>2
<1>4. l[(m_mapSvr[s].nPos % Len(l)) + 1] \in Handles
  <2>1. m_mapSvr[s].nPos \in Nat
    BY <1>2, PosAssumption
  <2> HIDE DEF l
  <2> QED  BY <1>2, <1>3, <2>1, Rotation
<1>5. /\ f \in CallRecord /\ f.pc = "rotate" /\ f.left = call[c].left
      /\ f.size = call[c].size /\ f.svr = s /\ f.handle \in Handles
  BY <1>2, <1>4, CallFields DEF CallRecord, Pcs
<1>6. call'[c] = f /\ call[c].pc = "get"
  BY DEF GetConn, Step, IInv
<1>7. CallOK(c)' /\ UsableOK(c)'
  BY <1>1, <1>5, <1>6 DEF GetConn, IInv, CallOK, InLoop, UsableOK, HasSession
<1>8. dwPos' \in 0..(PosModulus - 1)
  BY DEF GetConn, IInv, TypeOK
<1> QED  BY <1>5, <1>7, <1>8, InCallIInv DEF GetConn

\* The end of a pass of the loop.
LEMMA AfterTryOK ==
  ASSUME IInv, NEW c \in Callers, call[c].pc \in {"get", "rotate"},
         NEW h \in Handles \cup {None}
  PROVE  /\ AfterTry(c, h) \in CallRecord
         /\ AfterTry(c, h).handle = h
         /\ AfterTry(c, h).size = call[c].size
         /\ AfterTry(c, h).pc = "inc" => AfterTry(c, h).left \in 1..Len(server_list)
         /\ AfterTry(c, h).pc = "done" => AfterTry(c, h).left = 0
         /\ AfterTry(c, h).pc \in {"inc", "done"}
<1>1. call[c].left \in 1..Len(server_list) /\ Len(server_list) \in Nat
  BY DEF IInv, TypeOK, CallOK, InLoop
<1>2. 0 \in 0..(PosModulus - 1)
  BY PosAssumption
<1> DEFINE f == AfterTry(c, h)
<1>3. /\ f.handle = h /\ f.size = call[c].size /\ f.left = call[c].left - 1
      /\ f.pc = IF call[c].left = 1 THEN "done" ELSE "inc"
  BY CallFields DEF AfterTry, CallRecord
<1>4. f \in CallRecord
  <2>1. call[c].left - 1 \in Nat
    BY <1>1
  <2>2. (IF call[c].left = 1 THEN "done" ELSE "inc") \in Pcs
    BY DEF Pcs
  <2> QED  BY <1>2, <2>1, <2>2, CallFields DEF AfterTry, CallRecord
<1> QED  BY <1>1, <1>3, <1>4

LEMMA StoreNPosIInv ==
  ASSUME IInv, NEW c \in Callers, StoreNPos(c)
  PROVE  IInv'
<1> DEFINE s == call[c].svr
           f == AfterTry(c, call[c].handle)
<1>1. /\ s \in DOMAIN m_mapSvr /\ m_mapSvr[s] \in SServer
      /\ call[c].handle \in Handles /\ call[c].pc = "rotate"
  BY DEF StoreNPos, IInv, TypeOK, CallOK
<1>2. (call[c].pos + 1) % PosModulus \in 0..(PosModulus - 1)
  <2>1. call[c].pos \in 0..(PosModulus - 1)
    BY CallFields
  <2>2. call[c].pos \in Nat
    BY <2>1, PosAssumption
  <2> QED  BY <2>2, PosInRange
<1>3. /\ DOMAIN m_mapSvr' = DOMAIN m_mapSvr
      /\ \A x \in DOMAIN m_mapSvr \ {s} : m_mapSvr'[x] = m_mapSvr[x]
      /\ m_mapSvr'[s] = [m_mapSvr[s] EXCEPT !.nPos = (call[c].pos + 1) % PosModulus]
  BY <1>1 DEF StoreNPos
<1>4. /\ m_mapSvr'[s] \in SServer
      /\ m_mapSvr'[s].handles = m_mapSvr[s].handles
      /\ m_mapSvr'[s].handle_list = m_mapSvr[s].handle_list
  BY <1>1, <1>2, <1>3 DEF SServer
<1>5. \A x \in DOMAIN m_mapSvr :
        /\ m_mapSvr'[x] \in SServer
        /\ m_mapSvr'[x].handles = m_mapSvr[x].handles
        /\ m_mapSvr'[x].handle_list = m_mapSvr[x].handle_list
  BY <1>3, <1>4 DEF IInv, TypeOK
<1>6. /\ f \in CallRecord /\ f.handle = call[c].handle /\ f.size = call[c].size
      /\ f.pc = "inc" => f.left \in 1..Len(server_list)
      /\ f.pc = "done" => f.left = 0
      /\ f.pc \in {"inc", "done"}
  BY <1>1, AfterTryOK
<1>7. call' = [call EXCEPT ![c] = f] /\ UNCHANGED <<server_list, dwPos, usable>>
  BY DEF StoreNPos, Step
<1> HIDE DEF f
<1>8. call'[c] = f
  BY <1>7 DEF IInv
<1>9. CallOK(c)'
  BY <1>1, <1>6, <1>7, <1>8 DEF IInv, CallOK, InLoop
<1>10. UsableOK(c)'
  BY <1>3, <1>5, <1>6, <1>7, <1>8 DEF IInv, UsableOK, HasSession
<1>11. /\ usable' = [usable EXCEPT ![c] = usable[c]] /\ usable[c] \in SUBSET Servers
       /\ dwPos' \in 0..(PosModulus - 1)
  BY <1>7 DEF IInv, TypeOK
<1>12. f.handle # None
  BY <1>1, <1>6, CallersAssumption
<1> QED
  BY <1>3, <1>5, <1>6, <1>7, <1>9, <1>10, <1>11, <1>12, CallIInv DEF Step

\* A server without a session was not usable all along.
LEMMA GetNoConnIInv ==
  ASSUME IInv, NEW c \in Callers, GetNoConn(c)
  PROVE  IInv'
<1> DEFINE f == AfterTry(c, None)
<1>1. /\ f \in CallRecord /\ f.size = call[c].size
      /\ f.pc = "inc" => f.left \in 1..Len(server_list)
      /\ f.pc = "done" => f.left = 0
      /\ f.pc \in {"inc", "done"}
  BY AfterTryOK DEF GetNoConn
<1>2. /\ call' = [call EXCEPT ![c] = f] /\ call[c].pc = "get"
      /\ UNCHANGED <<m_mapSvr, server_list, dwPos, usable>>
      /\ ~HasSession(call[c].svr)
  BY DEF GetNoConn, Step
<1> HIDE DEF f
<1>3. call'[c] = f
  BY <1>2 DEF IInv
<1>4. CallOK(c)'
  BY <1>1, <1>2, <1>3 DEF IInv, CallOK, InLoop
<1>5. UsableOK(c)'
  BY <1>1, <1>2, <1>3 DEF IInv, UsableOK, HasSession
<1>6. usable[c] # ToSet(server_list)
  BY <1>2 DEF IInv, UsableOK, CallOK
<1>7. dwPos' \in 0..(PosModulus - 1)
  BY <1>2 DEF IInv, TypeOK
<1> QED  BY <1>1, <1>2, <1>4, <1>5, <1>6, <1>7, InCallIInv DEF Step

LEMMA ReturnIInv ==
  ASSUME IInv, NEW c \in Callers, Return(c)
  PROVE  IInv'
<1>1. NoCall \in CallRecord /\ NoCall.pc = "idle" /\ NoCall.left = 0
  BY PosAssumption DEF NoCall, CallRecord, Pcs
<1>2. Step(c, NoCall) /\ usable' = [usable EXCEPT ![c] = {}]
      /\ UNCHANGED <<m_mapSvr, server_list, dwPos>>
  BY DEF Return
<1>3. call'[c] = NoCall /\ usable'[c] = {}
  BY <1>2 DEF Step, IInv, TypeOK
<1>4. CallOK(c)' /\ UsableOK(c)'
  BY <1>1, <1>3 DEF CallOK, InLoop, UsableOK
<1>5. /\ dwPos' \in 0..(PosModulus - 1)
      /\ \A s \in DOMAIN m_mapSvr : m_mapSvr[s] \in SServer
  BY <1>2 DEF IInv, TypeOK
<1>6. {} \in SUBSET Servers
  OBVIOUS
<1> HIDE DEF NoCall
<1>7. DOMAIN m_mapSvr' = DOMAIN m_mapSvr /\ server_list' = server_list
      /\ m_mapSvr' = m_mapSvr
  BY <1>2
<1> QED  BY <1>1, <1>2, <1>4, <1>5, <1>6, <1>7, CallIInv

----------------------------------------------------------------------------
(* The theorems.                                                            *)

\* The inductive invariant holds in every reachable state.
THEOREM SvrMgrInvariant == Spec => []IInv
<1>1. ASSUME IInv, [Next]_vars PROVE IInv'
  <2>1. CASE UNCHANGED vars
    BY <1>1, <2>1
    DEF IInv, TypeOK, vars, ListIsSet, CallOK, InLoop, UsableOK, HasSession,
        CallFindsConn
  <2>2. CASE TableStep
    BY <1>1, <2>2, AddSvrIInv, RmSvrIInv, PushServerIInv, EraseServerIInv,
       AddSvrConnIInv, RmSvrConnIInv DEF TableStep
  <2>3. CASE \E c \in Callers : CallStep(c)
    BY <1>1, <2>3, BeginIInv, ReadPosIInv, StorePosIInv, GetConnIInv,
       StoreNPosIInv, GetNoConnIInv, ReturnIInv DEF CallStep
  <2> QED  BY <1>1, <2>1, <2>2, <2>3 DEF Next
<1> QED  BY InitIInv, <1>1, PTL DEF Spec

\* The table, the route and the calls have the declared types.
THEOREM SvrMgrTyping == Spec => []TypeOK
  BY SvrMgrInvariant, PTL DEF IInv

\* The list that getConn indexes is the set of sessions (svrmgr.cpp:79).
THEOREM ListAgrees == Spec => []ListIsSet
  BY SvrMgrInvariant, PTL DEF IInv

\* getSvrConn finds a connection if every server of the route has one during
\* the whole call (proxymgr.cpp:82), whatever the counters of other callers do.
THEOREM CallSucceeds == Spec => []CallFindsConn
  BY SvrMgrInvariant, PTL DEF IInv

----------------------------------------------------------------------------
(* The refinement.                                                          *)

\* The sessions of SessionTable, as the refinement reads them off the table.
SessionsOf == [s \in Servers |-> IF s \in DOMAIN m_mapSvr THEN m_mapSvr[s].handles ELSE {}]

LEMMA AddSvrRefines ==
  ASSUME IInv, NEW s \in Servers, addSvr(s)
  PROVE  Table!addSvr(s)
<1>1. /\ DOMAIN m_mapSvr' = DOMAIN m_mapSvr \cup {s}
      /\ m_mapSvr'[s].handles = {} /\ s \notin DOMAIN m_mapSvr
      /\ \A x \in DOMAIN m_mapSvr : x # s /\ m_mapSvr'[x] = m_mapSvr[x]
  BY DEF addSvr, NewServer
<1>2. SessionsOf' = SessionsOf
  BY <1>1 DEF SessionsOf
<1> QED  BY <1>1, <1>2 DEF Table!addSvr, SessionsOf

LEMMA RmSvrRefines ==
  ASSUME IInv, NEW s \in Servers, rmSvr(s)
  PROVE  Table!rmSvr(s)
<1>1. /\ DOMAIN m_mapSvr' = DOMAIN m_mapSvr \ {s}
      /\ \A x \in DOMAIN m_mapSvr \ {s} : m_mapSvr'[x] = m_mapSvr[x]
  BY DEF rmSvr
<1>2. SessionsOf' = [SessionsOf EXCEPT ![s] = {}]
  BY <1>1 DEF SessionsOf
<1> QED  BY <1>1, <1>2 DEF Table!rmSvr, SessionsOf

LEMMA AddSvrConnRefines ==
  ASSUME IInv, NEW s \in Servers, NEW h \in Handles, addSvrConn(s, h)
  PROVE  Table!addSvrConn(s, h)
<1>1. /\ DOMAIN m_mapSvr' = DOMAIN m_mapSvr /\ s \in DOMAIN m_mapSvr
      /\ m_mapSvr[s] \in SServer
      /\ \A x \in DOMAIN m_mapSvr \ {s} : m_mapSvr'[x] = m_mapSvr[x]
  BY DEF addSvrConn, IInv, TypeOK
<1>2. m_mapSvr'[s] = [m_mapSvr[s] EXCEPT !.handles = @ \cup {h},
                                         !.handle_list = Append(@, h)]
  BY <1>1 DEF addSvrConn
<1>3. m_mapSvr'[s].handles = m_mapSvr[s].handles \cup {h}
  BY <1>1, <1>2 DEF SServer
<1>4. SessionsOf' = [x \in Servers |->
                       IF x = s /\ x \in DOMAIN m_mapSvr THEN SessionsOf[x] \cup {h}
                                                         ELSE SessionsOf[x]]
  BY <1>1, <1>3 DEF SessionsOf
<1> QED  BY <1>1, <1>4 DEF Table!addSvrConn, SessionsOf

LEMMA RmSvrConnRefines ==
  ASSUME IInv, NEW s \in Servers, NEW h \in Handles, rmSvrConn(s, h)
  PROVE  Table!rmSvrConn(s, h)
<1>1. /\ DOMAIN m_mapSvr' = DOMAIN m_mapSvr /\ s \in DOMAIN m_mapSvr
      /\ m_mapSvr[s] \in SServer
      /\ \A x \in DOMAIN m_mapSvr \ {s} : m_mapSvr'[x] = m_mapSvr[x]
  BY DEF rmSvrConn, IInv, TypeOK
<1>2. PICK l : m_mapSvr'[s] = [m_mapSvr[s] EXCEPT !.handles = @ \ {h},
                                                  !.handle_list = l]
  BY <1>1 DEF rmSvrConn
<1>3. m_mapSvr'[s].handles = m_mapSvr[s].handles \ {h}
  BY <1>1, <1>2 DEF SServer
<1>4. SessionsOf' = [x \in Servers |->
                       IF x = s THEN SessionsOf[x] \ {h} ELSE SessionsOf[x]]
  BY <1>1, <1>3 DEF SessionsOf
<1> QED  BY <1>1, <1>4 DEF Table!rmSvrConn, SessionsOf

\* The cursor of getConn is not part of what SessionTable shows.
LEMMA CallRefines ==
  ASSUME IInv, NEW c \in Callers, CallStep(c)
  PROVE  UNCHANGED Table!sessionVars
<1>1. CASE StoreNPos(c)
  <2> DEFINE s == call[c].svr
  <2>1. s \in DOMAIN m_mapSvr /\ m_mapSvr[s] \in SServer
    BY <1>1 DEF StoreNPos, IInv, TypeOK, CallOK
  <2>2. /\ DOMAIN m_mapSvr' = DOMAIN m_mapSvr
        /\ \A x \in DOMAIN m_mapSvr \ {s} : m_mapSvr'[x] = m_mapSvr[x]
        /\ m_mapSvr'[s].handles = m_mapSvr[s].handles
    BY <1>1, <2>1 DEF StoreNPos, SServer
  <2> HIDE DEF s
  <2>3. SessionsOf' = SessionsOf
    BY <2>2 DEF SessionsOf
  <2> QED  BY <2>2, <2>3 DEF Table!sessionVars, SessionsOf
<1>2. CASE m_mapSvr' = m_mapSvr
  BY <1>2 DEF Table!sessionVars
<1> QED
  BY <1>1, <1>2 DEF CallStep, Begin, ReadPos, StorePos, GetConn, GetNoConn, Return

\* The detailed table, list, cursor and all, implements the table of sessions
\* that ConnRouting builds on (svrmgr.cpp).
THEOREM TableImplemented == Spec => ImplementsTable
<1>1. Init => Table!SessionInit
  BY DEF Init, Table!SessionInit
<1>2. ASSUME IInv, [Next]_vars PROVE [Table!SessionNext]_(Table!sessionVars)
  <2>1. CASE UNCHANGED vars
    BY <2>1 DEF vars, Table!sessionVars
  <2>2. ASSUME NEW s \in Servers, addSvr(s) \/ rmSvr(s)
        PROVE  Table!SessionNext
    BY <1>2, <2>2, AddSvrRefines, RmSvrRefines DEF Table!SessionNext
  <2>3. ASSUME NEW s \in Servers, PushServer(s) \/ EraseServer(s)
        PROVE  UNCHANGED Table!sessionVars
    BY <2>3 DEF PushServer, EraseServer, Table!sessionVars
  <2>4. ASSUME NEW s \in Servers, NEW h \in Handles,
               addSvrConn(s, h) \/ rmSvrConn(s, h)
        PROVE  Table!SessionNext
    BY <1>2, <2>4, AddSvrConnRefines, RmSvrConnRefines DEF Table!SessionNext
  <2>5. CASE TableStep
    BY <2>2, <2>3, <2>4, <2>5 DEF TableStep
  <2> QED  BY <1>2, <2>1, <2>5, CallRefines DEF Next
<1> QED
  BY <1>1, <1>2, SvrMgrInvariant, PTL DEF Spec, ImplementsTable, Table!SessionSpec

=============================================================================
