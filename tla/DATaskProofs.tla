---------------------------- MODULE DATaskProofs ----------------------------
(***************************************************************************)
(* Theorems about DATask, for every set of connections and threads, every  *)
(* size of requests and of the queue.  Requests are numbered as they come; *)
(* the inductive invariant IInv follows the numbers from the reactor       *)
(* through the queue and the threads to the application.                   *)
(***************************************************************************)
EXTENDS DATask, FiniteSetTheorems, SequenceTheorems, TLAPS

\* The youngest request that is past putq.
Youngest == IF reactor.pc = "put" THEN arrived - 1 ELSE arrived

PcsOK ==
  /\ IF reactor.pc = "put" THEN reactor.msg \in Data /\ reactor.msg.id = arrived
                           ELSE reactor.msg = NoMsg
  /\ \A w \in Workers :
       /\ worker[w].pc \in {"getq", "exit"} => worker[w].msg = NoMsg
       /\ worker[w].pc = "got" => worker[w].msg \in Data \cup {MB_STOP}
       /\ worker[w].pc \in {"check", "process"} => worker[w].msg \in Data

BoundOK ==
  /\ \A n \in 1..Len(queue) : queue[n].id <= Youngest
  /\ \A w \in Workers : worker[w].msg.id <= Youngest
  /\ \A i \in 1..Len(served) : served[i] <= Youngest

OrderOK ==
  \A n \in 1..Len(queue) : queue[n] # MB_STOP =>
    /\ \A m \in 1..(n - 1) : queue[m].id < queue[n].id
    /\ \A w \in Workers : worker[w].msg.id < queue[n].id
    /\ \A i \in 1..Len(served) : served[i] < queue[n].id

\* No two threads have the same request, nor one the application was given.
HeldOK ==
  /\ \A v, w \in Workers : v # w /\ worker[v].msg.id # 0 =>
       worker[v].msg.id # worker[w].msg.id
  /\ \A w \in Workers, i \in 1..Len(served) :
       worker[w].pc \in {"got", "check"} => served[i] # worker[w].msg.id
  /\ \A i, j \in 1..Len(served) : i # j => served[i] # served[j]

IInv == TypeOK /\ PcsOK /\ BoundOK /\ OrderOK /\ HeldOK

----------------------------------------------------------------------------
LEMMA CardWorkers ==
  /\ Cardinality(Workers) \in Nat
  /\ Cardinality(Workers) \in 0..Cardinality(Workers)
  /\ 0 \in 0..Cardinality(Workers)
  BY QueueAssumption, FS_CardinalityType

LEMMA InitIInv == Init => IInv
<1> SUFFICES ASSUME Init PROVE IInv
  OBVIOUS
<1>1. TypeOK
  <2>1. reactor \in [pc : {"loop", "put", "ended", "finalize", "done"},
                     msg : Data \cup {NoMsg}, left : 0..Cardinality(Workers)]
    BY CardWorkers DEF Init
  <2>2. worker \in [Workers -> [pc : {"getq", "got", "check", "process", "exit"},
                                msg : Data \cup {NoMsg, MB_STOP}]]
    BY DEF Init
  <2>3. /\ arrived \in 0..MaxReqs
        /\ queue \in Seq(Data \cup {MB_STOP})
        /\ served \in Seq(1..MaxReqs)
        /\ m_mConn \in [Handles -> Conns \cup {None}]
    BY QueueAssumption DEF Init
  <2>4. g_run \in BOOLEAN /\ m_pProc \in BOOLEAN
    BY DEF Init
  <2> QED  BY <2>1, <2>2, <2>3, <2>4 DEF TypeOK
<1>2. PcsOK
  BY DEF Init, PcsOK
<1>3. BoundOK /\ OrderOK /\ HeldOK
  BY DEF Init, BoundOK, OrderOK, HeldOK, NoMsg, Youngest
<1> QED  BY <1>1, <1>2, <1>3 DEF IInv

LEMMA TypeStep == ASSUME TypeOK, PcsOK, [Next]_vars PROVE TypeOK'
<1> USE QueueAssumption, CardWorkers DEF TypeOK
<1>1. ASSUME NEW h \in Handles, NEW c \in Conns, Open(h, c) PROVE TypeOK'
  BY <1>1 DEF Open
<1>2. ASSUME NEW h \in Handles, Close(h) PROVE TypeOK'
  BY <1>2 DEF Close
<1>3. ASSUME NEW h \in Handles, NEW n \in Sizes, HandleInput(h, n) PROVE TypeOK'
  <2>1. reactor'.msg \in Data /\ arrived' \in 0..MaxReqs
    BY <1>3 DEF HandleInput, Data
  <2>2. reactor' = [pc |-> "put", msg |-> reactor'.msg, left |-> reactor.left]
    BY <1>3 DEF HandleInput
  <2> QED  BY <1>3, <2>1, <2>2 DEF HandleInput
<1>4. CASE Put
  <2>1. reactor.msg \in Data
    BY <1>4 DEF PcsOK, Put
  <2>2. queue' \in Seq(Data \cup {MB_STOP})
    BY <1>4, <2>1 DEF Put
  <2>3. reactor' \in [pc : {"loop", "put", "ended", "finalize", "done"},
                      msg : Data \cup {NoMsg}, left : 0..Cardinality(Workers)]
    BY <1>4 DEF Put
  <2> QED  BY <1>4, <2>2, <2>3 DEF Put
<1>5. CASE SetProc
  BY <1>5 DEF SetProc
<1>11. CASE RunEnds
  BY <1>11 DEF RunEnds
<1>6. CASE Stop
  <2>1. reactor' \in [pc : {"loop", "put", "ended", "finalize", "done"},
                      msg : Data \cup {NoMsg}, left : 0..Cardinality(Workers)]
    BY <1>6 DEF Stop
  <2> QED  BY <1>6, <2>1 DEF Stop
<1>7. CASE Finalize
  <2>1. reactor' \in [pc : {"loop", "put", "ended", "finalize", "done"},
                      msg : Data \cup {NoMsg}, left : 0..Cardinality(Workers)]
    <3>1. reactor.left \in 0..Cardinality(Workers) /\ reactor.left > 0
      BY <1>7 DEF Finalize
    <3>2. reactor.left - 1 \in 0..Cardinality(Workers)
      BY <3>1
    <3> QED  BY <1>7, <3>2 DEF Finalize
  <2>2. queue' \in Seq(Data \cup {MB_STOP})
    BY <1>7 DEF Finalize
  <2> QED  BY <1>7, <2>1, <2>2 DEF Finalize
<1>8. CASE Done
  <2>1. reactor' \in [pc : {"loop", "put", "ended", "finalize", "done"},
                      msg : Data \cup {NoMsg}, left : 0..Cardinality(Workers)]
    BY <1>8 DEF Done
  <2> QED  BY <1>8, <2>1 DEF Done
<1>9. ASSUME NEW w \in Workers, WorkerStep(w) PROVE TypeOK'
  <2>1. CASE Getq(w)
    <3>1. Head(queue) \in Data \cup {MB_STOP} /\ queue' \in Seq(Data \cup {MB_STOP})
      BY <2>1, HeadTailProperties DEF Getq
    <3> QED  BY <2>1, <3>1 DEF Getq
  <2>2. CASE Exit(w)
    BY <2>2 DEF Exit, Back
  <2>3. CASE Take(w)
    BY <2>3 DEF Take, Goto
  <2>4. CASE Drop(w)
    BY <2>4 DEF Drop, Back
  <2>5. CASE Process(w)
    <3>1. worker[w].msg.id \in 1..MaxReqs
      BY <2>5 DEF Process, PcsOK, Data
    <3>2. served' \in Seq(1..MaxReqs)
      <4>1. served \in Seq(1..MaxReqs) /\ Append(served, worker[w].msg.id) \in Seq(1..MaxReqs)
        BY <3>1, AppendProperties
      <4> QED  BY <2>5, <4>1, Zenon DEF Process
    <3>3. worker' \in [Workers -> [pc : {"getq", "got", "check", "process", "exit"},
                                   msg : Data \cup {NoMsg, MB_STOP}]]
      BY <2>5 DEF Process, Goto
    <3> QED  BY <2>5, <3>2, <3>3 DEF Process
  <2>6. CASE Processed(w)
    BY <2>6 DEF Processed, Back
  <2> QED  BY <1>9, <2>1, <2>2, <2>3, <2>4, <2>5, <2>6 DEF WorkerStep
<1>10. CASE UNCHANGED vars
  BY <1>10 DEF vars
<1> QED
  BY <1>1, <1>2, <1>3, <1>4, <1>5, <1>6, <1>7, <1>8, <1>9, <1>10, <1>11
  DEF Next, Ended, ReactorStep

----------------------------------------------------------------------------
LEMMA Numbers ==
  ASSUME TypeOK
  PROVE  /\ \A n \in 1..Len(queue) :
              /\ queue[n] \in Data \cup {MB_STOP}
              /\ queue[n].id \in 0..MaxReqs
              /\ queue[n] # MB_STOP => queue[n].id > 0
         /\ \A w \in Workers : worker[w].msg.id \in 0..MaxReqs
         /\ \A i \in 1..Len(served) : served[i] \in 1..MaxReqs
         /\ arrived \in 0..MaxReqs
<1> USE QueueAssumption DEF TypeOK
<1>1. \A m \in Data : m.id \in 1..MaxReqs
  BY DEF Data
<1>2. MB_STOP.id = 0 /\ NoMsg.id = 0
  BY DEF MB_STOP, NoMsg
<1>3. \A n \in 1..Len(queue) : queue[n] \in Data \cup {MB_STOP}
  OBVIOUS
<1>4. \A w \in Workers : worker[w].msg \in Data \cup {NoMsg, MB_STOP}
  OBVIOUS
<1>5. \A i \in 1..Len(served) : served[i] \in 1..MaxReqs
  OBVIOUS
<1>6. arrived \in 0..MaxReqs
  OBVIOUS
<1>7. \A m \in Data \cup {NoMsg, MB_STOP} : m.id \in 0..MaxReqs
  BY <1>1, <1>2
<1>8. \A m \in Data \cup {MB_STOP} : m # MB_STOP => m.id > 0
  BY <1>1
<1> HIDE DEF TypeOK
<1> QED  BY <1>3, <1>4, <1>5, <1>6, <1>7, <1>8

\* A step that touches neither requests nor the threads.
LEMMA RequestsSame ==
  ASSUME IInv, UNCHANGED <<queue, worker, served, arrived>>,
         reactor'.msg = reactor.msg, reactor.pc # "put", reactor'.pc # "put"
  PROVE  PcsOK' /\ BoundOK' /\ OrderOK' /\ HeldOK'
  BY DEF IInv, PcsOK, BoundOK, OrderOK, HeldOK, Youngest

LEMMA ReactorIInv == ASSUME IInv, ReactorStep, TypeOK' PROVE IInv'
<1> USE DEF IInv
<1>1. CASE \E h \in Handles : (\E c \in Conns : Open(h, c)) \/ Close(h)
  BY <1>1, RequestsSame DEF Open, Close
<1>2. CASE \E h \in Handles, n \in Sizes : HandleInput(h, n)
  <2>1. /\ UNCHANGED <<queue, worker, served>>
        /\ arrived' = arrived + 1
        /\ Youngest' = arrived /\ Youngest = arrived
        /\ reactor'.pc = "put" /\ reactor'.msg.id = arrived'
    BY <1>2, Numbers DEF HandleInput, Youngest, TypeOK
  <2>2. reactor'.msg \in Data
    BY <1>2, QueueAssumption DEF HandleInput, TypeOK, Data
  <2> QED  BY <2>1, <2>2 DEF PcsOK, BoundOK, OrderOK, HeldOK
<1>3. CASE Put
  <2>1. /\ UNCHANGED <<worker, served, arrived>>
        /\ Youngest' = arrived /\ Youngest = arrived - 1
        /\ reactor'.pc = "loop" /\ reactor'.msg = NoMsg
        /\ reactor.msg.id = arrived /\ reactor.msg \in Data
        /\ queue' = Append(queue, reactor.msg)
    BY <1>3 DEF Put, Youngest, PcsOK, TypeOK
  <2>2. /\ Len(queue') = Len(queue) + 1
        /\ \A n \in 1..Len(queue') :
             queue'[n] = IF n <= Len(queue) THEN queue[n] ELSE reactor.msg
    BY <2>1, AppendProperties DEF TypeOK
  <2>3. PcsOK'
    BY <2>1 DEF PcsOK
  <2>4. BoundOK' /\ HeldOK'
    BY <2>1, <2>2, Numbers DEF BoundOK, HeldOK
  <2>5. OrderOK'
    BY <2>1, <2>2, Numbers DEF OrderOK, BoundOK
  <2> QED  BY <2>3, <2>4, <2>5
<1>4. CASE Finalize
  <2>1. /\ UNCHANGED <<worker, served, arrived>>
        /\ Youngest' = Youngest
        /\ reactor'.pc = reactor.pc /\ reactor'.msg = reactor.msg
        /\ reactor.pc # "put"
        /\ queue' = Append(queue, MB_STOP)
    BY <1>4 DEF Finalize, Youngest, TypeOK
  <2>2. /\ Len(queue') = Len(queue) + 1
        /\ \A n \in 1..Len(queue') :
             queue'[n] = IF n <= Len(queue) THEN queue[n] ELSE MB_STOP
    BY <2>1, AppendProperties DEF TypeOK
  <2>3. PcsOK' /\ HeldOK' /\ OrderOK'
    BY <2>1, <2>2 DEF PcsOK, HeldOK, OrderOK
  <2>4. BoundOK'
    BY <2>1, <2>2, Numbers DEF BoundOK, MB_STOP, Youngest
  <2> QED  BY <2>3, <2>4
<1>5. CASE SetProc
  BY <1>5 DEF SetProc, PcsOK, BoundOK, OrderOK, HeldOK, Youngest
<1>6. CASE RunEnds \/ Stop \/ Done
  BY <1>6, RequestsSame DEF RunEnds, Stop, Done, TypeOK
<1> QED  BY <1>1, <1>2, <1>3, <1>4, <1>5, <1>6 DEF ReactorStep

LEMMA WorkerIInv ==
  ASSUME IInv, NEW w \in Workers, WorkerStep(w), TypeOK' PROVE IInv'
<1> USE DEF IInv
<1>1. CASE Getq(w)
  <2>1. /\ UNCHANGED <<reactor, served, arrived>>
        /\ Youngest' = Youngest
        /\ worker' = [worker EXCEPT ![w] = [pc |-> "got", msg |-> Head(queue)]]
        /\ Len(queue) > 0 /\ Head(queue) = queue[1]
        /\ Len(queue') = Len(queue) - 1
        /\ \A n \in 1..Len(queue') : queue'[n] = queue[n + 1]
    BY <1>1, HeadTailProperties DEF Getq, Youngest, TypeOK
  <2>2. /\ worker'[w].pc = "got" /\ worker'[w].msg = queue[1]
        /\ \A v \in Workers : v # w => worker'[v] = worker[v]
    BY <2>1 DEF TypeOK
  <2>3. PcsOK'
    BY <2>1, <2>2, Numbers DEF PcsOK
  <2>4. BoundOK'
    BY <2>1, <2>2 DEF BoundOK
  <2>5. OrderOK'
    <3> SUFFICES ASSUME NEW n \in 1..Len(queue'), queue'[n] # MB_STOP
                 PROVE  /\ \A m \in 1..(n - 1) : queue'[m].id < queue'[n].id
                        /\ \A v \in Workers : worker'[v].msg.id < queue'[n].id
                        /\ \A i \in 1..Len(served') : served'[i] < queue'[n].id
      BY DEF OrderOK
    <3>1. /\ Len(queue) \in Nat /\ n + 1 \in 1..Len(queue)
          /\ 1 \in 1..((n + 1) - 1)
          /\ queue'[n] = queue[n + 1] /\ queue[n + 1] # MB_STOP
          /\ \A m \in 1..(n - 1) : queue'[m] = queue[m + 1] /\ m + 1 \in 1..((n + 1) - 1)
      BY <2>1 DEF TypeOK
    <3>2. /\ \A m \in 1..((n + 1) - 1) : queue[m].id < queue[n + 1].id
          /\ \A v \in Workers : worker[v].msg.id < queue[n + 1].id
          /\ \A i \in 1..Len(served) : served[i] < queue[n + 1].id
      BY <3>1 DEF OrderOK
    <3> QED  BY <2>1, <2>2, <3>1, <3>2
  <2>6. HeldOK'
    <3>1. CASE queue[1] = MB_STOP
      BY <3>1, <2>1, <2>2, Numbers DEF HeldOK, MB_STOP
    <3>2. CASE queue[1] # MB_STOP
      <4>1. /\ \A v \in Workers : worker[v].msg.id < queue[1].id
            /\ \A i \in 1..Len(served) : served[i] < queue[1].id
        BY <3>2, <2>1 DEF OrderOK
      <4> QED  BY <4>1, <2>1, <2>2, Numbers DEF HeldOK
    <3> QED  BY <3>1, <3>2
  <2> QED  BY <2>3, <2>4, <2>5, <2>6
<1>2. CASE Exit(w) \/ Drop(w) \/ Processed(w)
  <2>1. /\ UNCHANGED <<reactor, queue, served, arrived>>
        /\ worker'[w].pc \in {"exit", "getq"} /\ worker'[w].msg = NoMsg
        /\ \A v \in Workers : v # w => worker'[v] = worker[v]
    BY <1>2 DEF Exit, Drop, Processed, Back, TypeOK
  <2>2. Youngest' = Youngest /\ NoMsg.id = 0 /\ Youngest >= 0
    BY <2>1, Numbers DEF Youngest, NoMsg, PcsOK, Data
  <2>3. PcsOK' /\ BoundOK' /\ OrderOK'
    BY <2>1, <2>2, Numbers DEF PcsOK, BoundOK, OrderOK
  <2>4. HeldOK'
    BY <2>1, <2>2, Numbers DEF HeldOK
  <2> QED  BY <2>3, <2>4
<1>3. CASE Take(w)
  <2>1. /\ UNCHANGED <<reactor, queue, served, arrived>>
        /\ worker[w].pc = "got" /\ worker'[w].pc = "check"
        /\ worker[w].msg # MB_STOP
        /\ \A v \in Workers : worker'[v].msg = worker[v].msg
        /\ \A v \in Workers : v # w => worker'[v].pc = worker[v].pc
    BY <1>3 DEF Take, Goto, TypeOK
  <2>2. PcsOK' /\ BoundOK' /\ OrderOK'
    BY <2>1 DEF PcsOK, BoundOK, OrderOK, Youngest
  <2>3. HeldOK'
    BY <2>1 DEF HeldOK
  <2> QED  BY <2>2, <2>3
<1>4. CASE Process(w)
  <2>1. /\ UNCHANGED <<reactor, queue, arrived>>
        /\ worker[w].pc = "check" /\ worker'[w].pc = "process"
        /\ \A v \in Workers : worker'[v].msg = worker[v].msg
        /\ \A v \in Workers : v # w => worker'[v].pc = worker[v].pc
    BY <1>4 DEF Process, Goto, TypeOK
  <2>2. worker[w].msg \in Data /\ worker[w].msg.id # 0
    BY <2>1 DEF PcsOK, Data
  <2>3. \/ served' = served
        \/ /\ Len(served') = Len(served) + 1
           /\ \A i \in 1..Len(served') : served'[i] =
                IF i <= Len(served) THEN served[i] ELSE worker[w].msg.id
    <3>1. worker[w].msg.id \in 1..MaxReqs
      BY <2>2 DEF Data
    <3> QED  BY <1>4, <3>1, AppendProperties DEF Process, TypeOK
  <2>4. PcsOK'
    BY <2>1, <2>2 DEF PcsOK
  <2>5. BoundOK'
    BY <2>1, <2>3 DEF BoundOK, Youngest
  <2>6. OrderOK'
    BY <2>1, <2>3 DEF OrderOK
  <2>7. HeldOK'
    BY <2>1, <2>2, <2>3 DEF HeldOK
  <2> QED  BY <2>4, <2>5, <2>6, <2>7
<1> QED  BY <1>1, <1>2, <1>3, <1>4 DEF WorkerStep

----------------------------------------------------------------------------
\* IInv holds in every reachable state.
THEOREM DATaskInvariant == Spec => []IInv
<1>1. ASSUME IInv, [Next]_vars PROVE IInv'
  <2>1. TypeOK'
    BY <1>1, TypeStep DEF IInv
  <2>2. CASE UNCHANGED vars
    BY <1>1, <2>2
    DEF IInv, TypeOK, vars, PcsOK, BoundOK, OrderOK, HeldOK, Youngest
  <2> QED  BY <1>1, <2>1, <2>2, ReactorIInv, WorkerIInv DEF Next, Ended
<1> QED  BY InitIInv, <1>1, PTL DEF Spec

\* Every reachable state of DATask has the declared types.
THEOREM DATaskTyping == Spec => []TypeOK
  BY DATaskInvariant, PTL DEF IInv

\* Whatever the number of threads (datask.cpp:37), no request is given to the
\* application twice.
THEOREM EachServedOnce == Spec => []ServedOnce
<1>1. IInv => ServedOnce
  <2> SUFFICES ASSUME IInv PROVE ServedOnce
    OBVIOUS
  <2>1. DOMAIN queue = 1..Len(queue) /\ DOMAIN served = 1..Len(served)
    BY DEF IInv, TypeOK
  <2>2. ASSUME NEW n \in 1..Len(queue), NEW i \in 1..Len(served)
        PROVE  queue[n].id # served[i]
    BY Numbers DEF IInv, OrderOK, MB_STOP
  <2> QED  BY <2>1, <2>2 DEF IInv, HeldOK, ServedOnce
<1> QED  BY <1>1, DATaskInvariant, PTL

\* The threads start on requests in the order in which they arrived.
THEOREM OrderOfArrival == Spec => []TakenInOrder
<1>1. IInv => TakenInOrder
  <2> SUFFICES ASSUME IInv PROVE TakenInOrder
    OBVIOUS
  <2>1. DOMAIN queue = 1..Len(queue) /\ DOMAIN served = 1..Len(served)
    BY DEF IInv, TypeOK
  <2> QED  BY <2>1 DEF IInv, OrderOK, TakenInOrder
<1> QED  BY <1>1, DATaskInvariant, PTL

=============================================================================
