------------------------------- MODULE Timers -------------------------------
(***************************************************************************)
(* Timers of the application and of the framework.  onRegistTimer makes a  *)
(* DataTimer, whose constructor enters it in the timer queue of the        *)
(* reactor, and then files it in TimerTask::m_mTProc under the id that     *)
(* queue gave it.  When a timer expires, handle_timeout puts its id on the *)
(* queue of TimerTask, and the thread of TimerTask::svc calls the          *)
(* processor filed under the id.  No lock protects m_mTProc or m_thandle.  *)
(* The application is assumed to make one registration at a time.          *)
(*                                                                         *)
(* fault ends an execution: "early" when a timer expires before its        *)
(* constructor has stored the id, "race" when svc searches m_mTProc while  *)
(* another thread inserts, "deleted" when handle_timeout outlives its      *)
(* timer.                                                                  *)
(***************************************************************************)
EXTENDS Integers, Sequences

CONSTANTS
  Timers,      \* DataTimers, each with a processor of its own
  Repeating,   \* those with an interval
  Rebuild,     \* the one that onRun registers
  Ids,         \* ids the reactor gives to timers, used again when free
  Main,        \* the thread of onRun, later the reactor thread
  TimerThread, \* the thread of TimerTask
  Apps,        \* other threads that register timers
  None,
  HighWater    \* expiries on the queue at which putq waits

Registrars == Apps \cup {Main, TimerThread}

ASSUME TimerAssumption ==
  /\ Rebuild \in Repeating /\ Repeating \subseteq Timers
  /\ None \notin Timers \cup Ids \cup Registrars
  /\ Main # TimerThread /\ Apps \cap {Main, TimerThread} = {}
  /\ HighWater \in Nat \ {0}

VARIABLES
  scheduled,  \* id -> timer in the reactor's timer queue, or None
  m_thandle,  \* timer -> the id stored in it, or None
  m_mTProc,   \* id -> timer filed in TimerTask, or None
  left,       \* timers not made yet
  alive,      \* timers made and not deleted
  reg,        \* the registration going on: [pc, thread, timer]
  reactor,    \* the main thread: [pc, expiry it puts on the queue]
  queue,      \* the message queue of TimerTask
  task,       \* the thread of TimerTask: [pc, message it took]
  g_run,
  fault

regVars == <<scheduled, m_thandle, m_mTProc, left, alive, reg>>
vars == <<regVars, reactor, queue, task, g_run, fault>>

\* An expiry; filed says whether its timer was in m_mTProc when it expired.
Expiry == [id : Ids, timer : Timers, filed : BOOLEAN]
MB_STOP == [id |-> None, timer |-> None, filed |-> FALSE]
NoReg == [pc |-> "none", thread |-> None, timer |-> None]

TypeOK ==
  /\ scheduled \in [Ids -> Timers \cup {None}]
  /\ m_thandle \in [Timers -> Ids \cup {None}]
  /\ m_mTProc \in [Ids -> Timers \cup {None}]
  /\ left \subseteq Timers
  /\ alive \subseteq Timers \ left
  /\ reg \in [pc : {"constructor", "addTimeProc", "insert", "delete"},
              thread : Registrars, timer : Timers] \cup {NoReg}
  /\ reactor \in [pc : {"boot", "loop", "putq", "finalize", "done"},
                  expiry : Expiry \cup {MB_STOP}]
  /\ queue \in Seq(Expiry \cup {MB_STOP}) /\ Len(queue) <= HighWater
  /\ task \in [pc : {"getq", "got", "find", "process", "exit"},
               msg : Expiry \cup {MB_STOP}]
  /\ g_run \in BOOLEAN
  /\ fault \in {"none", "early", "race", "deleted"}

Init ==
  /\ scheduled = [i \in Ids |-> None]
  /\ m_thandle = [t \in Timers |-> None]
  /\ m_mTProc = [i \in Ids |-> None]
  /\ left = Timers
  /\ alive = {}
  /\ reg = NoReg
  /\ reactor = [pc |-> "boot", expiry |-> MB_STOP]
  /\ queue = <<>>
  /\ task = [pc |-> "getq", msg |-> MB_STOP]
  /\ g_run = TRUE
  /\ fault = "none"

----------------------------------------------------------------------------
(* onRegistTimer.                                                           *)

At(pc) == fault = "none" /\ reg.pc = pc
Own == m_thandle[reg.timer]

\* The main thread registers before the loop, onRun the timer of reBuild at
\* last; the timer thread only from a processor it calls.
MayRegister(r, t) ==
  /\ r = Main => reactor.pc = "boot"
  /\ r = TimerThread => task.pc = "process"
  /\ t = Rebuild => r = Main

\* schedule_timer, in the constructor of DataTimer.
Schedule(r, t, i) ==
  /\ At("none")
  /\ MayRegister(r, t)
  /\ t \in left
  /\ scheduled[i] = None
  /\ scheduled' = [scheduled EXCEPT ![i] = t]
  /\ left' = left \ {t}
  /\ alive' = alive \cup {t}
  /\ reg' = [pc |-> "constructor", thread |-> r, timer |-> t]
  /\ UNCHANGED <<m_thandle, m_mTProc, reactor, queue, task, g_run, fault>>

\* schedule_timer returns -1: the timer is deleted and onRegistTimer returns false,
\* which onRun does not look at.
ScheduleFails(r, t) ==
  /\ At("none")
  /\ MayRegister(r, t)
  /\ t \in left
  /\ left' = left \ {t}
  /\ UNCHANGED <<scheduled, m_thandle, m_mTProc, alive, reg, reactor, queue, task,
                 g_run, fault>>

\* The id that schedule_timer returned is stored.
StoreHandle(i) ==
  /\ At("constructor")
  /\ m_thandle' = [m_thandle EXCEPT ![reg.timer] = i]
  /\ reg' = [reg EXCEPT !.pc = "addTimeProc"]
  /\ UNCHANGED <<scheduled, m_mTProc, left, alive, reactor, queue, task, g_run, fault>>

AddTimeProcBlindly ==
  /\ At("addTimeProc")
  /\ reg' = [reg EXCEPT !.pc = "insert"]
  /\ UNCHANGED <<scheduled, m_thandle, m_mTProc, left, alive, reactor, queue, task,
                 g_run, fault>>

\* An id that is filed already is refused, also when its timer is over.
AddTimeProc ==
  /\ At("addTimeProc")
  /\ reg' = [reg EXCEPT !.pc = IF m_mTProc[Own] = None THEN "insert" ELSE "delete"]
  /\ UNCHANGED <<scheduled, m_thandle, m_mTProc, left, alive, reactor, queue, task,
                 g_run, fault>>

Insert ==
  /\ At("insert")
  /\ m_mTProc' = [m_mTProc EXCEPT ![Own] = reg.timer]
  /\ reg' = NoReg
  /\ UNCHANGED <<scheduled, m_thandle, left, alive, reactor, queue, task, g_run, fault>>

DeleteOnly ==
  /\ At("delete")
  /\ alive' = alive \ {reg.timer}
  /\ reg' = NoReg
  /\ UNCHANGED <<scheduled, m_thandle, m_mTProc, left, reactor, queue, task, g_run,
                 fault>>

\* The refused timer is deleted, and its destructor cancels it.
Delete ==
  /\ At("delete")
  /\ alive' = alive \ {reg.timer}
  /\ scheduled' = [scheduled EXCEPT ![Own] = None]
  /\ reg' = NoReg
  /\ UNCHANGED <<m_thandle, m_mTProc, left, reactor, queue, task, g_run, fault>>

Register ==
  \/ \E i \in Ids : scheduled[i] = reg.timer /\ StoreHandle(i)
  \/ AddTimeProc
  \/ Insert
  \/ Delete

----------------------------------------------------------------------------
(* The main thread.                                                         *)

MainAt(pc) == fault = "none" /\ reactor.pc = pc
StepTo(pc) == reactor' = [pc |-> pc, expiry |-> MB_STOP]

\* onRun goes on to the reactor loop.
RunLoop ==
  /\ MainAt("boot")
  /\ Rebuild \notin left
  /\ reg.thread # Main
  /\ StepTo("loop")
  /\ UNCHANGED <<regVars, queue, task, g_run, fault>>

\* Timer i expires and handle_timeout is called; one without interval is over,
\* and its id is free again.
HandleTimeoutOnce(i) ==
  LET t == scheduled[i]
  IN /\ MainAt("loop")
     /\ t # None
     /\ m_thandle[t] # None
     /\ reactor' = [pc |-> "putq",
          expiry |-> [id |-> m_thandle[t], timer |-> t, filed |-> m_mTProc[i] = t]]
     /\ scheduled' = [scheduled EXCEPT ![i] = None]
     /\ UNCHANGED <<m_thandle, m_mTProc, left, alive, reg, queue, task, g_run, fault>>

HandleTimeout(i) ==
  LET t == scheduled[i]
  IN /\ MainAt("loop")
     /\ t # None
     /\ m_thandle[t] # None
     /\ reactor' = [pc |-> "putq",
          expiry |-> [id |-> m_thandle[t], timer |-> t, filed |-> m_mTProc[i] = t]]
     /\ scheduled' = [scheduled EXCEPT ![i] = IF t \in Repeating THEN t ELSE None]
     /\ UNCHANGED <<m_thandle, m_mTProc, left, alive, reg, queue, task, g_run, fault>>

TooEarly(i) ==
  /\ MainAt("loop")
  /\ scheduled[i] # None
  /\ m_thandle[scheduled[i]] = None
  /\ fault' = "early"
  /\ UNCHANGED <<regVars, reactor, queue, task, g_run>>

PutqAtOnce ==
  /\ MainAt("putq")
  /\ queue' = Append(queue, reactor.expiry)
  /\ StepTo("loop")
  /\ UNCHANGED <<regVars, task, g_run, fault>>

\* putq waits for room; handle_timeout uses the timer once more after it.
Putq ==
  /\ MainAt("putq")
  /\ Len(queue) < HighWater
  /\ queue' = Append(queue, reactor.expiry)
  /\ StepTo("loop")
  /\ fault' = IF reactor.expiry.timer \in alive THEN "none" ELSE "deleted"
  /\ UNCHANGED <<regVars, task, g_run>>

\* The loop ends; the destructor of SVCMgr sets g_run and calls finalize.
Stop ==
  /\ MainAt("loop")
  /\ g_run' = FALSE
  /\ StepTo("finalize")
  /\ UNCHANGED <<regVars, queue, task, fault>>

FinalizeNoStop ==
  /\ MainAt("finalize")
  /\ StepTo("done")
  /\ UNCHANGED <<regVars, queue, task, g_run, fault>>

Finalize ==
  /\ MainAt("finalize")
  /\ Len(queue) < HighWater
  /\ queue' = Append(queue, MB_STOP)
  /\ StepTo("done")
  /\ UNCHANGED <<regVars, task, g_run, fault>>

----------------------------------------------------------------------------
(* TimerTask::svc.                                                          *)

TaskAt(pc) == fault = "none" /\ task.pc = pc
Frees(pc) == task' = [pc |-> pc, msg |-> MB_STOP]

Getq ==
  /\ TaskAt("getq")
  /\ queue # <<>>
  /\ queue' = Tail(queue)
  /\ task' = [pc |-> "got", msg |-> Head(queue)]
  /\ UNCHANGED <<regVars, reactor, g_run, fault>>

Exit ==
  /\ TaskAt("got")
  /\ ~g_run \/ task.msg = MB_STOP
  /\ Frees("exit")
  /\ UNCHANGED <<regVars, reactor, queue, g_run, fault>>

Take ==
  /\ TaskAt("got")
  /\ g_run
  /\ task.msg # MB_STOP
  /\ task' = [task EXCEPT !.pc = "find"]
  /\ UNCHANGED <<regVars, reactor, queue, g_run, fault>>

\* m_mTProc is searched; an id nothing is filed under is passed over.
FindDropsOneShot ==
  /\ TaskAt("find")
  /\ reg.pc # "insert"
  /\ IF scheduled[task.msg.id] = None
       THEN Frees("getq") ELSE task' = [task EXCEPT !.pc = "process"]
  /\ UNCHANGED <<regVars, reactor, queue, g_run, fault>>

Find ==
  /\ TaskAt("find")
  /\ reg.pc # "insert"
  /\ IF m_mTProc[task.msg.id] = None
       THEN Frees("getq") ELSE task' = [task EXCEPT !.pc = "process"]
  /\ UNCHANGED <<regVars, reactor, queue, g_run, fault>>

FindRace ==
  /\ TaskAt("find")
  /\ reg.pc = "insert"
  /\ fault' = "race"
  /\ UNCHANGED <<regVars, reactor, queue, task, g_run>>

\* onProcessor returns.
Processed ==
  /\ TaskAt("process")
  /\ reg.thread # TimerThread
  /\ Frees("getq")
  /\ UNCHANGED <<regVars, reactor, queue, g_run, fault>>

Svc ==
  \/ Getq
  \/ Exit
  \/ Take
  \/ Find
  \/ FindRace
  \/ Processed

Next ==
  \/ \E r \in Registrars, t \in Timers :
       ScheduleFails(r, t) \/ \E i \in Ids : Schedule(r, t, i)
  \/ Register
  \/ RunLoop
  \/ \E i \in Ids : HandleTimeout(i) \/ TooEarly(i)
  \/ Putq
  \/ Stop
  \/ Finalize
  \/ Svc

\* The threads keep running and processors return; when timers expire, and
\* whether the process stops, is left open.
Spec ==
  /\ Init /\ [][Next]_vars
  /\ WF_vars(Register) /\ WF_vars(Putq \/ Finalize) /\ WF_vars(Svc)

----------------------------------------------------------------------------
(* Properties.                                                              *)

\* The expiry of a timer reaches the processor of that timer, although only its id
\* is on the queue and ids are given out again.  But one that comes before its timer
\* is filed may run another, if the id was that of an older timer: one that is over
\* and filed for ever; the new timer is not filed then.  No timer that still ticks is
\* called for another.
RightProcessor ==
  LET p == m_mTProc[task.msg.id]
  IN task.pc = "process" =>
       \/ p = task.msg.timer
       \/ /\ ~task.msg.filed
          /\ p # None /\ p \notin Repeating
          /\ \A i \in Ids : scheduled[i] # p /\ m_mTProc[i] # task.msg.timer

\* A filed timer with an interval never stops, whatever other registrations are
\* refused and cancelled; from the start of the loop the timer of reBuild is one,
\* unless the reactor did not take it.
KeepsTicking ==
  /\ \A i \in Ids : m_mTProc[i] \in Repeating => scheduled[i] = m_mTProc[i]
  /\ reactor.pc # "boot" /\ m_thandle[Rebuild] # None
       => \E i \in Ids : m_mTProc[i] = Rebuild

\* The reactor never holds a timer that was deleted.
NoDeadTimer == \A i \in Ids : scheduled[i] # None => scheduled[i] \in alive

\* The expiry of a filed timer is processed while the service runs, also that of
\* a timer that is over by then, however often the queue is full.
ExpiryProcessed ==
  \A t \in Timers :
    (\E n \in DOMAIN queue : queue[n].timer = t /\ queue[n].filed)
      ~> \/ task.pc = "process" /\ task.msg.timer = t
         \/ ~g_run
         \/ fault # "none"

\* When the destructor is through, the timer thread leaves svc.
ThreadExits ==
  reactor.pc = "done" ~> task.pc = "exit" \/ fault # "none"

=============================================================================
