------------------------------- MODULE DATask -------------------------------
(***************************************************************************)
(* The path of a request: DASvcHandler::handle_input, on the reactor       *)
(* thread, puts a complete message with the handle of its connection on    *)
(* the queue of DATask; the threads of DATask::svc take messages, look     *)
(* whether the handle is still known and call the application.  The queue  *)
(* is ACE's: putq waits while it holds HighWater or more, getq while it    *)
(* is empty.  The destructor of SVCMgr stops the threads.                  *)
(***************************************************************************)
EXTENDS Integers, FiniteSets, SequencesExt

CONSTANTS
  Handles,    \* descriptors
  Conns,      \* connections, to tell two that have the same handle apart
  Workers,    \* threads of DATask, thread_num of the configuration
  None,
  Sizes,      \* sizes of a request on the queue
  HighWater,  \* size of the queue at which putq waits
  MaxReqs     \* bound: requests that arrive

ASSUME QueueAssumption ==
  /\ Sizes \subseteq Nat \ {0}
  /\ HighWater \in Nat \ {0}
  /\ MaxReqs \in Nat
  /\ IsFiniteSet(Workers)
ASSUME NoneAssumption == None \notin Handles \cup Conns

VARIABLES
  m_mConn,   \* handle -> the connection open under it, or None
  queue,     \* the message queue of DATask
  reactor,   \* the main thread: [pc, msg it puts, MB_STOPs left to put]
  worker,    \* thread -> [pc, msg it took]
  g_run,
  m_pProc,   \* whether a NetProcessor is registered
  arrived,   \* requests received so far, which number them
  served     \* the numbers of those given to the application, in order

vars == <<m_mConn, queue, reactor, worker, g_run, m_pProc, arrived, served>>

Data == [type : {"data"}, h : Handles, conn : Conns, id : 1..MaxReqs, size : Sizes]
MB_STOP == [type |-> "stop", h |-> None, conn |-> None, id |-> 0, size |-> 0]
NoMsg == [type |-> "none", h |-> None, conn |-> None, id |-> 0, size |-> 0]

\* The message_length of ACE's queue; an MB_STOP is an empty block.
Length(q) == FoldSeq(LAMBDA m, n : m.size + n, 0, q)

TypeOK ==
  /\ m_mConn \in [Handles -> Conns \cup {None}]
  /\ queue \in Seq(Data \cup {MB_STOP})
  /\ reactor \in [pc : {"loop", "put", "ended", "finalize", "done"},
                  msg : Data \cup {NoMsg}, left : 0..Cardinality(Workers)]
  /\ worker \in [Workers -> [pc : {"getq", "got", "check", "process", "exit"},
                             msg : Data \cup {NoMsg, MB_STOP}]]
  /\ g_run \in BOOLEAN
  /\ m_pProc \in BOOLEAN
  /\ arrived \in 0..MaxReqs
  /\ served \in Seq(1..MaxReqs)

Init ==
  /\ m_mConn = [h \in Handles |-> None]
  /\ queue = <<>>
  /\ reactor = [pc |-> "loop", msg |-> NoMsg, left |-> 0]
  /\ worker = [w \in Workers |-> [pc |-> "getq", msg |-> NoMsg]]
  /\ g_run = TRUE
  /\ m_pProc = FALSE
  /\ arrived = 0
  /\ served = <<>>

----------------------------------------------------------------------------
(* The reactor thread.                                                      *)

\* A connection is accepted under a free handle; a handle is used again.
Open(h, c) ==
  /\ reactor.pc = "loop"
  /\ m_mConn[h] = None
  /\ \A g \in Handles : m_mConn[g] # c
  /\ m_mConn' = [m_mConn EXCEPT ![h] = c]
  /\ UNCHANGED <<queue, reactor, worker, g_run, m_pProc, arrived, served>>

Close(h) ==
  /\ reactor.pc = "loop"
  /\ m_mConn[h] # None
  /\ m_mConn' = [m_mConn EXCEPT ![h] = None]
  /\ UNCHANGED <<queue, reactor, worker, g_run, m_pProc, arrived, served>>

\* handle_input has a complete message and calls DATask::put.
HandleInput(h, size) ==
  /\ reactor.pc = "loop"
  /\ m_mConn[h] # None
  /\ arrived < MaxReqs
  /\ arrived' = arrived + 1
  /\ reactor' = [reactor EXCEPT !.pc = "put",
                   !.msg = [type |-> "data", h |-> h, conn |-> m_mConn[h],
                            id |-> arrived + 1, size |-> size]]
  /\ UNCHANGED <<m_mConn, queue, worker, g_run, m_pProc, served>>

PutFirst ==
  /\ reactor.pc = "put"
  /\ Length(queue) < HighWater
  /\ queue' = <<reactor.msg>> \o queue
  /\ reactor' = [reactor EXCEPT !.pc = "loop", !.msg = NoMsg]
  /\ UNCHANGED <<m_mConn, worker, g_run, m_pProc, arrived, served>>

Put ==
  /\ reactor.pc = "put"
  /\ Length(queue) < HighWater
  /\ queue' = Append(queue, reactor.msg)
  /\ reactor' = [reactor EXCEPT !.pc = "loop", !.msg = NoMsg]
  /\ UNCHANGED <<m_mConn, worker, g_run, m_pProc, arrived, served>>

\* onRegistProcessor; a second registration is refused.
SetProc ==
  /\ ~m_pProc
  /\ m_pProc' = TRUE
  /\ UNCHANGED <<m_mConn, queue, reactor, worker, g_run, arrived, served>>

\* The event loop of onRun ends, and onRun deletes g_parser.
RunEnds ==
  /\ reactor.pc = "loop"
  /\ reactor' = [reactor EXCEPT !.pc = "ended"]
  /\ UNCHANGED <<m_mConn, queue, worker, g_run, m_pProc, arrived, served>>
g_parser == reactor.pc \in {"loop", "put"}

StopOneShort ==
  /\ reactor.pc = "ended"
  /\ g_run' = FALSE
  /\ reactor' = [reactor EXCEPT !.pc = "finalize", !.left = Cardinality(Workers) - 1]
  /\ UNCHANGED <<m_mConn, queue, worker, m_pProc, arrived, served>>

StopOneMore ==
  /\ reactor.pc = "ended"
  /\ g_run' = FALSE
  /\ reactor' = [reactor EXCEPT !.pc = "finalize", !.left = Cardinality(Workers) + 1]
  /\ UNCHANGED <<m_mConn, queue, worker, m_pProc, arrived, served>>

\* The destructor of SVCMgr: g_run, then one MB_STOP for each thread.
Stop ==
  /\ reactor.pc = "ended"
  /\ g_run' = FALSE
  /\ reactor' = [reactor EXCEPT !.pc = "finalize", !.left = Cardinality(Workers)]
  /\ UNCHANGED <<m_mConn, queue, worker, m_pProc, arrived, served>>

Finalize ==
  /\ reactor.pc = "finalize"
  /\ reactor.left > 0
  /\ Length(queue) < HighWater
  /\ queue' = Append(queue, MB_STOP)
  /\ reactor' = [reactor EXCEPT !.left = @ - 1]
  /\ UNCHANGED <<m_mConn, worker, g_run, m_pProc, arrived, served>>

Done ==
  /\ reactor.pc = "finalize"
  /\ reactor.left = 0
  /\ reactor' = [reactor EXCEPT !.pc = "done"]
  /\ UNCHANGED <<m_mConn, queue, worker, g_run, m_pProc, arrived, served>>

----------------------------------------------------------------------------
(* DATask::svc.                                                             *)

Back(w, pc) == worker' = [worker EXCEPT ![w] = [pc |-> pc, msg |-> NoMsg]]
Goto(w, pc) == worker' = [worker EXCEPT ![w].pc = pc]

GetqKeeps(w) ==
  /\ worker[w].pc = "getq"
  /\ queue # <<>>
  /\ worker' = [worker EXCEPT ![w] = [pc |-> "got", msg |-> Head(queue)]]
  /\ UNCHANGED <<m_mConn, queue, reactor, g_run, m_pProc, arrived, served>>

Getq(w) ==
  /\ worker[w].pc = "getq"
  /\ queue # <<>>
  /\ worker' = [worker EXCEPT ![w] = [pc |-> "got", msg |-> Head(queue)]]
  /\ queue' = Tail(queue)
  /\ UNCHANGED <<m_mConn, reactor, g_run, m_pProc, arrived, served>>

ExitBeforeGetq(w) ==
  /\ worker[w].pc \in {"getq", "got"}
  /\ ~g_run \/ worker[w].msg = MB_STOP
  /\ Back(w, "exit")
  /\ UNCHANGED <<m_mConn, queue, reactor, g_run, m_pProc, arrived, served>>

\* g_run is read after getq: the message in hand is dropped when it is false.
Exit(w) ==
  /\ worker[w].pc = "got"
  /\ ~g_run \/ worker[w].msg = MB_STOP
  /\ Back(w, "exit")
  /\ UNCHANGED <<m_mConn, queue, reactor, g_run, m_pProc, arrived, served>>

Take(w) ==
  /\ worker[w].pc = "got"
  /\ g_run
  /\ worker[w].msg # MB_STOP
  /\ Goto(w, "check")
  /\ UNCHANGED <<m_mConn, queue, reactor, g_run, m_pProc, arrived, served>>

DropBreaks(w) ==
  /\ worker[w].pc = "check"
  /\ m_mConn[worker[w].msg.h] = None
  /\ Back(w, "exit")
  /\ UNCHANGED <<m_mConn, queue, reactor, g_run, m_pProc, arrived, served>>

\* CONNMGR->isExist, by the handle alone.
Drop(w) ==
  /\ worker[w].pc = "check"
  /\ m_mConn[worker[w].msg.h] = None
  /\ Back(w, "getq")
  /\ UNCHANGED <<m_mConn, queue, reactor, g_run, m_pProc, arrived, served>>

\* The application is called if it has registered and there is a parser.
Process(w) ==
  /\ worker[w].pc = "check"
  /\ m_mConn[worker[w].msg.h] # None
  /\ Goto(w, "process")
  /\ served' = IF m_pProc /\ g_parser THEN Append(served, worker[w].msg.id) ELSE served
  /\ UNCHANGED <<m_mConn, queue, reactor, g_run, m_pProc, arrived>>

\* onProcessor returns.
Processed(w) ==
  /\ worker[w].pc = "process"
  /\ Back(w, "getq")
  /\ UNCHANGED <<m_mConn, queue, reactor, g_run, m_pProc, arrived, served>>

ReactorStep ==
  \/ \E h \in Handles, c \in Conns : Open(h, c)
  \/ \E h \in Handles : Close(h)
  \/ \E h \in Handles, n \in Sizes : HandleInput(h, n)
  \/ Put
  \/ SetProc
  \/ RunEnds
  \/ Stop
  \/ Finalize
  \/ Done

WorkerStep(w) ==
  \/ Getq(w)
  \/ Exit(w)
  \/ Take(w)
  \/ Drop(w)
  \/ Process(w)
  \/ Processed(w)

\* The process ends when main returns; its threads are not waited for.
Ended == reactor.pc = "done" /\ UNCHANGED vars

Next == ReactorStep \/ (\E w \in Workers : WorkerStep(w)) \/ Ended

\* The threads keep running, the application's callback returns, and a call of
\* the main thread that can go on does; when messages arrive and whether the
\* process stops are up to the outside.
Fairness ==
  /\ \A w \in Workers : WF_vars(WorkerStep(w))
  /\ WF_vars(Put \/ Finalize \/ Done)

Spec == Init /\ [][Next]_vars /\ Fairness

----------------------------------------------------------------------------
(* Properties.                                                              *)

InHand(i) ==
  \/ \E n \in DOMAIN queue : queue[n].id = i
  \/ \E w \in Workers : worker[w].msg.id = i
  \/ reactor.msg.id = i

\* No request is given to the application twice, nor is one it was given still
\* waiting, however the threads of DATask interleave.
ServedOnce ==
  /\ \A i, j \in DOMAIN served : i # j => served[i] # served[j]
  /\ \A n \in DOMAIN queue, i \in DOMAIN served : queue[n].id # served[i]

\* The threads start on requests in the order in which they arrived: what still
\* waits is younger than all that was taken, and waits in order.  (With several
\* threads a request may be served before an older one that another took.)
TakenInOrder ==
  \A n \in DOMAIN queue :
    queue[n] # MB_STOP =>
      /\ \A m \in 1..(n - 1) : queue[m].id < queue[n].id
      /\ \A w \in Workers : worker[w].msg.id < queue[n].id
      /\ \A i \in DOMAIN served : served[i] < queue[n].id

\* A request does not wait forever while the service runs: the reactor gets over
\* a full queue and some thread takes the request off it.
RequestHandled == \A i \in 1..MaxReqs : InHand(i) ~> ~InHand(i) \/ ~g_run

\* The destructor of SVCMgr gets its MB_STOPs on a full queue if the threads that
\* call getq once more make room.  Threads that hold a message they have not looked
\* at yet leave without taking another: if they all do, the destructor waits for
\* ever (processor.cpp:89).
Drainers == {w \in Workers : worker[w].pc \in {"getq", "check", "process"}}
ShutdownReturnsIfRoom ==
  reactor.pc = "finalize" /\ Length(queue) - Cardinality(Drainers) < HighWater
    ~> reactor.pc = "done"

\* All threads leave svc after the destructor, none is left waiting in getq.
WorkersExit ==
  reactor.pc = "done" ~> \A w \in Workers : worker[w].pc = "exit"

\* A request is not processed once its connection is gone (datask.cpp:47).
ConnChecked ==
  [][\A w \in Workers :
       worker[w].pc = "check" /\ worker'[w].pc = "process" =>
         m_mConn[worker[w].msg.h] = worker[w].msg.conn]_vars

=============================================================================
