---------------------------- MODULE TimersProofs ----------------------------
(***************************************************************************)
(* Theorems about Timers, for every set of timers, ids and threads and     *)
(* every length of the queue.  The inductive invariant IInv says where the *)
(* id of a timer can be found while it is made, filed and over, so that    *)
(* an id that is given out again never leads from one timer to another.    *)
(***************************************************************************)
EXTENDS Timers, SequenceTheorems, TLAPS

Filed(t) == \E i \in Ids : m_mTProc[i] = t

\* A timer whose constructor is through, and which is not filed yet.
Pending == reg.pc \in {"addTimeProc", "insert", "delete"}
Booting == reactor.pc = "boot"

ScheduledOK ==
  \A i \in Ids : scheduled[i] # None =>
    /\ scheduled[i] \in alive
    /\ m_thandle[scheduled[i]] \in {None, i}
    /\ \A j \in Ids : scheduled[j] = scheduled[i] => j = i
    /\ m_mTProc[i] = scheduled[i] \/ reg.timer = scheduled[i]

FiledOK ==
  \A i \in Ids : m_mTProc[i] # None =>
    /\ m_thandle[m_mTProc[i]] = i
    /\ m_mTProc[i] # reg.timer
    /\ m_mTProc[i] \in Repeating \/ Booting => scheduled[i] = m_mTProc[i]

RegOK ==
  /\ reg.pc # "none" => reg.timer \in alive
  /\ reg.pc = "constructor" =>
       /\ m_thandle[reg.timer] = None
       /\ \E i \in Ids : scheduled[i] = reg.timer
  /\ Pending =>
       /\ Own \in Ids
       /\ m_mTProc[Own] \notin Repeating
       /\ reg.timer \in Repeating \/ Booting => scheduled[Own] = reg.timer
  /\ reg.pc = "insert" => m_mTProc[Own] = None
  /\ reg.pc = "delete" => m_mTProc[Own] # None
  /\ reg.timer = Rebuild => reg.thread = Main
  /\ Booting => reg.pc # "delete"
  /\ reg.thread = Main => Booting

LeftOK ==
  /\ \A t \in left : m_thandle[t] = None
  /\ m_thandle[Rebuild] # None => Filed(Rebuild) \/ reg.timer = Rebuild

\* An expiry leads to its timer, or that is still being made, or was refused; then
\* the timer its id leads to is over.
ExpiryOK(e) ==
  LET p == m_mTProc[e.id]
  IN e # MB_STOP =>
       \/ p = e.timer
       \/ /\ ~e.filed /\ e.timer \notin left
          /\ \A i \in Ids : m_mTProc[i] # e.timer
          /\ p # None => p \notin Repeating /\ \A i \in Ids : scheduled[i] # p
          /\ p = None => reg.timer = e.timer
          /\ reg.timer = e.timer => Own = e.id
ExpiriesOK ==
  /\ ExpiryOK(reactor.expiry)
  /\ \A n \in 1..Len(queue) : ExpiryOK(queue[n])
  /\ ExpiryOK(task.msg)

TaskOK ==
  /\ task.pc \in {"find", "process"} => task.msg # MB_STOP
  /\ task.pc = "process" => m_mTProc[task.msg.id] # None

IInv == TypeOK /\ ScheduledOK /\ FiledOK /\ RegOK /\ LeftOK /\ ExpiriesOK /\ TaskOK

----------------------------------------------------------------------------
LEMMA InitIInv == Init => IInv
  BY TimerAssumption, SMT DEF Init, IInv, TypeOK, ScheduledOK, FiledOK, RegOK, LeftOK, ExpiriesOK,
     ExpiryOK, TaskOK, Filed, Pending, Booting, Own, NoReg, MB_STOP, Expiry, Registrars

\* The types alone, action by action.
LEMMA TypeStep == ASSUME TypeOK, [Next]_vars PROVE TypeOK'
<1> USE TimerAssumption DEF Registrars, TypeOK
<1>1. ASSUME NEW r \in Registrars, NEW t \in Timers, NEW i \in Ids, Schedule(r, t, i)
      PROVE  TypeOK'
  BY <1>1 DEF Schedule
<1>11. ASSUME NEW r \in Registrars, NEW t \in Timers, ScheduleFails(r, t)
       PROVE  TypeOK'
  BY <1>11 DEF ScheduleFails
<1>2. ASSUME Register PROVE TypeOK'
  BY <1>2 DEF Register, StoreHandle, AddTimeProc, Insert, Delete, Own, At, NoReg, Registrars
<1>3. ASSUME RunLoop PROVE TypeOK'
  BY <1>3 DEF RunLoop, StepTo, regVars
<1>4. ASSUME NEW i \in Ids, HandleTimeout(i) PROVE TypeOK'
  BY <1>4 DEF HandleTimeout, Expiry
<1>5. ASSUME NEW i \in Ids, TooEarly(i) PROVE TypeOK'
  BY <1>5 DEF TooEarly, regVars
<1>6. ASSUME Putq PROVE TypeOK'
  BY <1>6 DEF Putq, StepTo, regVars
<1>7. ASSUME Stop PROVE TypeOK'
  BY <1>7 DEF Stop, StepTo, regVars
<1>8. ASSUME Finalize PROVE TypeOK'
  BY <1>8 DEF Finalize, StepTo, regVars
<1>9. ASSUME Svc PROVE TypeOK'
  <2>1. CASE Getq
    BY <2>1, HeadTailProperties DEF Getq, regVars
  <2>2. CASE Exit \/ Take \/ Find \/ FindRace \/ Processed
    BY <2>2 DEF Exit, Take, Find, FindRace, Processed, Frees, TaskAt, regVars
  <2> QED  BY <1>9, <2>1, <2>2 DEF Svc
<1>10. CASE UNCHANGED vars
  BY <1>10 DEF vars, regVars
<1> QED
  BY <1>1, <1>2, <1>3, <1>4, <1>5, <1>6, <1>7, <1>8, <1>9, <1>10, <1>11 DEF Next

----------------------------------------------------------------------------
(* Registration.                                                            *)

\* What is said of an expiry lasts through every step of a registration.
LEMMA ExpiryStays ==
  ASSUME IInv, TypeOK', NEW e \in Expiry \cup {MB_STOP}, ExpiryOK(e),
         \/ \E r \in Registrars, t \in Timers :
              ScheduleFails(r, t) \/ \E i \in Ids : Schedule(r, t, i)
         \/ Register
  PROVE  ExpiryOK(e)'
<1> SUFFICES ASSUME e # MB_STOP PROVE ExpiryOK(e)'
  BY DEF ExpiryOK
<1>0. e.id \in Ids /\ e.timer \in Timers /\ e.filed \in BOOLEAN
  BY DEF Expiry
<1> USE TimerAssumption, <1>0 DEF IInv, TypeOK, ExpiryOK, Own, At, NoReg, Registrars
<1>1. ASSUME NEW r \in Registrars, NEW t \in Timers, ScheduleFails(r, t)
      PROVE  ExpiryOK(e)'
  BY <1>1 DEF ScheduleFails
<1>2. ASSUME NEW r \in Registrars, NEW t \in Timers, NEW i \in Ids, Schedule(r, t, i)
      PROVE  ExpiryOK(e)'
  BY <1>2 DEF Schedule, LeftOK, FiledOK
<1>3. ASSUME NEW i \in Ids, StoreHandle(i) PROVE ExpiryOK(e)'
  BY <1>3 DEF StoreHandle, RegOK
<1>4. CASE AddTimeProc
  BY <1>4 DEF AddTimeProc
<1>5. CASE Insert
  BY <1>5 DEF Insert, RegOK, Pending
<1>6. CASE Delete
  BY <1>6 DEF Delete, RegOK
<1> QED  BY <1>1, <1>2, <1>3, <1>4, <1>5, <1>6 DEF Register

LEMMA ExpiriesStay ==
  ASSUME IInv, TypeOK',
         \/ \E r \in Registrars, t \in Timers :
              ScheduleFails(r, t) \/ \E i \in Ids : Schedule(r, t, i)
         \/ Register
  PROVE  ExpiriesOK' /\ TaskOK'
<1>1. /\ reactor.expiry \in Expiry \cup {MB_STOP} /\ task.msg \in Expiry \cup {MB_STOP}
      /\ \A n \in 1..Len(queue) : queue[n] \in Expiry \cup {MB_STOP}
  BY DEF IInv, TypeOK
<1>2. UNCHANGED <<reactor, queue, task>>
  BY DEF ScheduleFails, Schedule, Register, StoreHandle, AddTimeProc, Insert, Delete
<1>3. ExpiriesOK'
  <2>1. ASSUME NEW e \in Expiry \cup {MB_STOP}, ExpiryOK(e) PROVE ExpiryOK(e)'
    BY <2>1, ExpiryStays
  <2>2. /\ ExpiryOK(reactor.expiry) /\ ExpiryOK(task.msg)
        /\ \A n \in 1..Len(queue) : ExpiryOK(queue[n])
    BY DEF IInv, ExpiriesOK
  <2>3. \A n \in 1..Len(queue) : ExpiryOK(queue[n])'
    <3> SUFFICES ASSUME NEW n \in 1..Len(queue) PROVE ExpiryOK(queue[n])'
      OBVIOUS
    <3>1. PICK e \in Expiry \cup {MB_STOP} : e = queue[n]
      BY <1>1
    <3>2. ExpiryOK(e)'
      BY <2>1, <2>2, <3>1
    <3> QED  BY <1>2, <3>1, <3>2 DEF ExpiryOK, Own
  <2>4. ExpiryOK(reactor.expiry)'
    <3>1. PICK e \in Expiry \cup {MB_STOP} : e = reactor.expiry
      BY <1>1
    <3>2. ExpiryOK(e)'
      BY <2>1, <2>2, <3>1
    <3> QED  BY <1>2, <3>1, <3>2 DEF ExpiryOK, Own
  <2>5. ExpiryOK(task.msg)'
    <3>1. PICK e \in Expiry \cup {MB_STOP} : e = task.msg
      BY <1>1
    <3>2. ExpiryOK(e)'
      BY <2>1, <2>2, <3>1
    <3> QED  BY <1>2, <3>1, <3>2 DEF ExpiryOK, Own
  <2> QED  BY <1>2, <2>3, <2>4, <2>5 DEF ExpiriesOK
<1>4. TaskOK'
  <2>1. \A i \in Ids : m_mTProc[i] # None => m_mTProc'[i] # None
    <3>1. CASE Insert
      BY <3>1, TimerAssumption DEF Insert, IInv, TypeOK, NoReg, At
    <3>2. CASE ~Insert
      BY <3>2 DEF ScheduleFails, Schedule, Register, StoreHandle, AddTimeProc, Delete
    <3> QED  BY <3>1, <3>2
  <2>2. task.msg # MB_STOP => task.msg.id \in Ids
    BY <1>1 DEF Expiry
  <2> QED  BY <1>2, <2>1, <2>2 DEF IInv, TaskOK
<1> QED  BY <1>3, <1>4

LEMMA ScheduleStep ==
  ASSUME IInv, NEW r \in Registrars, NEW t \in Timers, NEW i \in Ids,
         Schedule(r, t, i), TypeOK'
  PROVE  IInv'
<1>5. ExpiriesOK' /\ TaskOK'
  BY ExpiriesStay
<1> USE TimerAssumption DEF Registrars, IInv, Schedule, MayRegister, At, TypeOK, Own, NoReg
<1>1. ScheduledOK'
  BY DEF ScheduledOK, LeftOK
<1>2. FiledOK'
  BY DEF FiledOK, LeftOK, Booting
<1>3. RegOK'
  BY DEF RegOK, LeftOK, Pending, Booting
<1>4. LeftOK'
  BY DEF LeftOK, Filed
<1> QED  BY <1>1, <1>2, <1>3, <1>4, <1>5

LEMMA ScheduleFailsStep ==
  ASSUME IInv, NEW r \in Registrars, NEW t \in Timers, ScheduleFails(r, t), TypeOK'
  PROVE  IInv'
<1>5. ExpiriesOK' /\ TaskOK'
  BY ExpiriesStay
<1> USE TimerAssumption DEF IInv, ScheduleFails
<1>1. ScheduledOK' /\ FiledOK'
  BY DEF ScheduledOK, FiledOK, Booting
<1>2. RegOK' /\ LeftOK'
  BY DEF RegOK, LeftOK, Filed, Pending, Booting, Own
<1> QED  BY <1>1, <1>2, <1>5

LEMMA RegisterStep == ASSUME IInv, Register, TypeOK' PROVE IInv'
<1>5. ExpiriesOK' /\ TaskOK'
  BY ExpiriesStay
<1> USE TimerAssumption DEF Registrars, IInv, At, TypeOK, Own, NoReg, Pending, Booting
<1>1. ASSUME NEW i \in Ids, scheduled[i] = reg.timer, StoreHandle(i) PROVE IInv'
  <2> USE <1>1 DEF StoreHandle
  <2>1. ScheduledOK'
    BY DEF ScheduledOK
  <2>2. FiledOK'
    BY DEF FiledOK
  <2>3. RegOK'
    BY DEF RegOK, FiledOK
  <2>4. LeftOK'
    BY DEF RegOK, LeftOK, Filed
  <2> QED  BY <1>5, <2>1, <2>2, <2>3, <2>4
<1>2. CASE AddTimeProc
  <2> USE <1>2 DEF AddTimeProc
  <2>1. ScheduledOK' /\ FiledOK'
    BY DEF ScheduledOK, FiledOK
  <2>2. RegOK'
    BY DEF RegOK, FiledOK
  <2>3. LeftOK'
    BY DEF LeftOK, Filed
  <2> QED  BY <1>5, <2>1, <2>2, <2>3
<1>3. CASE Insert
  <2> USE <1>3 DEF Insert
  <2>1. ScheduledOK' /\ RegOK'
    BY DEF ScheduledOK, RegOK
  <2>2. FiledOK'
    BY DEF FiledOK, RegOK
  <2>3. LeftOK'
    <3>1. Filed(Rebuild) \/ reg.timer = Rebuild => Filed(Rebuild)'
      BY DEF Filed, RegOK
    <3> QED  BY <3>1 DEF LeftOK
  <2> QED  BY <1>5, <2>1, <2>2, <2>3
<1>4. CASE Delete
  <2> USE <1>4 DEF Delete
  <2>1. ScheduledOK'
    BY DEF ScheduledOK, RegOK
  <2>2. FiledOK'
    BY DEF FiledOK, RegOK
  <2>3. RegOK' /\ LeftOK'
    BY DEF RegOK, LeftOK, Filed
  <2> QED  BY <1>5, <2>1, <2>2, <2>3
<1> QED  BY <1>1, <1>2, <1>3, <1>4 DEF Register

----------------------------------------------------------------------------
(* The main thread.                                                         *)

\* A step that leaves the tables and the registration alone, but for the end of
\* the start of onRun.
LEMMA TablesSame ==
  ASSUME IInv, UNCHANGED regVars, Booting' = Booting
  PROVE  ScheduledOK' /\ FiledOK' /\ RegOK' /\ LeftOK'
  BY DEF IInv, regVars, ScheduledOK, FiledOK, RegOK, LeftOK, Filed, Pending, Own

LEMMA ExpirySame ==
  ASSUME UNCHANGED regVars, NEW e, ExpiryOK(e)
  PROVE  ExpiryOK(e)'
BY DEF regVars, ExpiryOK, Own

LEMMA RunLoopStep == ASSUME IInv, RunLoop, TypeOK' PROVE IInv'
<1> USE TimerAssumption DEF Registrars, IInv, RunLoop, StepTo, MainAt, Booting, regVars, TypeOK
<1>1. ScheduledOK' /\ FiledOK'
  BY DEF ScheduledOK, FiledOK
<1>2. RegOK' /\ LeftOK'
  BY DEF RegOK, LeftOK, Filed, Pending, Own
<1>3. ExpiriesOK' /\ TaskOK'
  BY DEF ExpiriesOK, ExpiryOK, Own, TaskOK
<1> QED  BY <1>1, <1>2, <1>3

LEMMA HandleTimeoutStep ==
  ASSUME IInv, NEW i \in Ids, HandleTimeout(i), TypeOK' PROVE IInv'
<1> USE TimerAssumption DEF Registrars, IInv, HandleTimeout, MainAt, Booting, TypeOK, Own
<1>1. ScheduledOK'
  BY DEF ScheduledOK
<1>2. FiledOK'
  BY DEF FiledOK
<1>3. RegOK'
  BY DEF RegOK, Pending, ScheduledOK
<1>4. LeftOK'
  BY DEF LeftOK, Filed
<1>5. ASSUME NEW e \in Expiry \cup {MB_STOP}, ExpiryOK(e) PROVE ExpiryOK(e)'
  BY <1>5 DEF ExpiryOK
<1>6. ExpiryOK(reactor.expiry)'
  <2> DEFINE t == scheduled[i]
             e == [id |-> m_thandle[t], timer |-> t, filed |-> m_mTProc[i] = t]
  <2>1. /\ t # None /\ t \in Timers /\ m_thandle[t] = i /\ reactor'.expiry = e
        /\ m_mTProc[i] = t \/ reg.timer = t
    BY DEF ScheduledOK
  <2>2. CASE m_mTProc[i] = t
    BY <2>1, <2>2 DEF ExpiryOK
  <2>3. CASE m_mTProc[i] # t
    <3>1. t \notin left
      BY <2>1 DEF LeftOK
    <3>2. \A j \in Ids : m_mTProc[j] # t
      BY <2>1, <2>3 DEF FiledOK
    <3>3. m_mTProc[i] # None =>
            m_mTProc[i] \notin Repeating /\ \A j \in Ids : scheduled'[j] # m_mTProc[i]
      BY <2>1, <2>3 DEF FiledOK, ScheduledOK
    <3>4. ~e.filed /\ e.id = i /\ e.timer = t
      BY <2>1, <2>3
    <3> QED  BY <2>1, <2>3, <3>1, <3>2, <3>3, <3>4 DEF ExpiryOK
  <2> QED  BY <2>2, <2>3
<1>7. ExpiriesOK' /\ TaskOK'
  <2>1. /\ task.msg \in Expiry \cup {MB_STOP}
        /\ \A n \in 1..Len(queue) : queue[n] \in Expiry \cup {MB_STOP}
    OBVIOUS
  <2>2. UNCHANGED <<queue, task, m_mTProc>>
    OBVIOUS
  <2>3. /\ ExpiryOK(task.msg) /\ \A n \in 1..Len(queue) : ExpiryOK(queue[n])
    BY DEF ExpiriesOK
  <2>4. ExpiryOK(task.msg)'
    <3>1. PICK e \in Expiry \cup {MB_STOP} : e = task.msg
      BY <2>1
    <3>2. ExpiryOK(e)'
      BY <1>5, <2>3, <3>1
    <3> QED  BY <2>2, <3>1, <3>2 DEF ExpiryOK
  <2>5. \A n \in 1..Len(queue) : ExpiryOK(queue[n])'
    <3> SUFFICES ASSUME NEW n \in 1..Len(queue) PROVE ExpiryOK(queue[n])'
      OBVIOUS
    <3>1. PICK e \in Expiry \cup {MB_STOP} : e = queue[n]
      BY <2>1
    <3>2. ExpiryOK(e)'
      BY <1>5, <2>3, <3>1
    <3> QED  BY <2>2, <3>1, <3>2 DEF ExpiryOK
  <2> QED  BY <1>6, <2>2, <2>4, <2>5 DEF ExpiriesOK, TaskOK
<1> QED  BY <1>1, <1>2, <1>3, <1>4, <1>7

\* The other steps put expiries on the queue or take them off it.
LEMMA QueueStep ==
  ASSUME IInv, TypeOK',
         Putq \/ Stop \/ Finalize \/ Svc \/ \E i \in Ids : TooEarly(i)
  PROVE  IInv'
<1>1. UNCHANGED regVars /\ Booting' = Booting
  BY DEF Putq, Stop, Finalize, Svc, TooEarly, Getq, Exit, Take, Find, FindRace,
         Processed, StepTo, MainAt, Booting
<1>2. \A e : ExpiryOK(e) => ExpiryOK(e)'
  BY <1>1, ExpirySame
<1>3. ExpiryOK(MB_STOP)
  BY DEF ExpiryOK
<1>4. /\ queue \in Seq(Expiry \cup {MB_STOP}) /\ reactor.expiry \in Expiry \cup {MB_STOP}
  BY DEF IInv, TypeOK
<1>5. /\ ExpiryOK(reactor.expiry) /\ ExpiryOK(task.msg)
      /\ \A n \in 1..Len(queue) : ExpiryOK(queue[n])
  BY DEF IInv, ExpiriesOK
<1>6. reactor'.expiry \in {reactor.expiry, MB_STOP}
  BY DEF Putq, Stop, Finalize, Svc, TooEarly, Getq, Exit, Take, Find, FindRace,
         Processed, StepTo
<1>7. task'.msg \in {task.msg, MB_STOP} \/ (queue # <<>> /\ task'.msg = Head(queue))
  BY DEF IInv, TypeOK, Putq, Stop, Finalize, Svc, TooEarly, Getq, Exit, Take, Find, FindRace,
         Processed, Frees
<1>8. \/ queue' = queue
      \/ \E e \in {reactor.expiry, MB_STOP} : queue' = Append(queue, e)
      \/ queue # <<>> /\ queue' = Tail(queue)
  BY DEF Putq, Stop, Finalize, Svc, TooEarly, Getq, Exit, Take, Find, FindRace, Processed
<1>9. \A n \in 1..Len(queue') : ExpiryOK(queue'[n])
  <2>1. ASSUME NEW e \in {reactor.expiry, MB_STOP}, queue' = Append(queue, e)
        PROVE  \A n \in 1..Len(queue') : ExpiryOK(queue'[n])
    <3>1. /\ Len(queue') = Len(queue) + 1
          /\ \A n \in 1..Len(queue') :
               queue'[n] = IF n <= Len(queue) THEN queue[n] ELSE e
      BY <1>4, <2>1, AppendProperties
    <3>2. ExpiryOK(e)
      BY <1>3, <1>5
    <3> HIDE DEF ExpiryOK, MB_STOP
    <3>3. ASSUME NEW n \in 1..Len(queue') PROVE ExpiryOK(queue'[n])
      <4>1. CASE n <= Len(queue)
        BY <1>4, <1>5, <3>1, <4>1
      <4>2. CASE ~(n <= Len(queue))
        BY <3>1, <3>2, <4>2
      <4> QED  BY <4>1, <4>2
    <3> QED  BY <3>3
  <2>2. ASSUME queue # <<>>, queue' = Tail(queue)
        PROVE  \A n \in 1..Len(queue') : ExpiryOK(queue'[n])
    <3>1. Len(queue') = Len(queue) - 1 /\ \A n \in 1..Len(queue') : queue'[n] = queue[n + 1]
      BY <1>4, <2>2, HeadTailProperties
    <3>2. \A n \in 1..Len(queue') : n + 1 \in 1..Len(queue)
      BY <1>4, <3>1
    <3> QED  BY <1>5, <3>1, <3>2
  <2> QED  BY <1>5, <1>8, <2>1, <2>2
<1>10. ExpiryOK(task'.msg)
  <2>1. queue # <<>> => Head(queue) = queue[1] /\ 1 \in 1..Len(queue)
    BY <1>4
  <2> QED  BY <1>3, <1>5, <1>7, <2>1
<1>11. ExpiryOK(reactor'.expiry)
  BY <1>3, <1>5, <1>6
<1>12. ExpiriesOK'
  <2>1. ASSUME NEW e, ExpiryOK(e) PROVE ExpiryOK(e)'
    BY <1>2, <2>1
  <2>2. ExpiryOK(task.msg)' /\ ExpiryOK(reactor.expiry)'
    <3>1. \A e : e = task'.msg => (ExpiryOK(e)' <=> ExpiryOK(task.msg)')
      BY DEF ExpiryOK, Own
    <3>2. \A e : e = reactor'.expiry => (ExpiryOK(e)' <=> ExpiryOK(reactor.expiry)')
      BY DEF ExpiryOK, Own
    <3> QED  BY <1>2, <1>10, <1>11, <3>1, <3>2
  <2>3. ASSUME NEW n \in 1..Len(queue') PROVE ExpiryOK(queue[n])'
    <3>1. \A e : e = queue'[n] => (ExpiryOK(e)' <=> ExpiryOK(queue[n])')
      BY DEF ExpiryOK, Own
    <3> QED  BY <1>2, <1>9, <3>1
  <2> QED  BY <2>2, <2>3 DEF ExpiriesOK
<1>13. TaskOK'
  <2>1. m_mTProc' = m_mTProc
    BY <1>1 DEF regVars
  <2>2. CASE Find
    BY <2>1, <2>2 DEF Find, Frees, TaskAt, IInv, TaskOK, TypeOK
  <2>3. CASE Take
    BY <2>3 DEF Take, IInv, TaskOK, TypeOK
  <2>4. CASE Getq \/ Exit \/ Processed
    BY <2>4 DEF Getq, Exit, Processed, Frees, TaskOK
  <2>5. CASE UNCHANGED task
    BY <2>1, <2>5 DEF IInv, TaskOK
  <2> QED
    BY <2>2, <2>3, <2>4, <2>5 DEF Svc, FindRace, Putq, Stop, Finalize, TooEarly
<1>14. TypeOK'
  OBVIOUS
<1> QED  BY <1>1, <1>12, <1>13, <1>14, TablesSame DEF IInv

----------------------------------------------------------------------------
\* IInv holds in every reachable state.
THEOREM TimersInvariant == Spec => []IInv
<1>1. ASSUME IInv, [Next]_vars PROVE IInv'
  <2>1. TypeOK'
    BY <1>1, TypeStep DEF IInv
  <2>2. CASE UNCHANGED vars
    <3>1. /\ UNCHANGED regVars /\ Booting' = Booting
          /\ UNCHANGED <<reactor, queue, task, m_mTProc>>
      BY <2>2 DEF vars, regVars, Booting
    <3>2. ExpiriesOK' /\ TaskOK'
      BY <1>1, <3>1 DEF IInv, ExpiriesOK, ExpiryOK, TaskOK, regVars, Own
    <3> QED  BY <1>1, <2>1, <3>1, <3>2, TablesSame DEF IInv
  <2> QED
    BY <1>1, <2>1, <2>2, ScheduleStep, ScheduleFailsStep, RegisterStep, RunLoopStep,
       HandleTimeoutStep, QueueStep DEF Next
<1> QED  BY InitIInv, <1>1, PTL DEF Spec

\* Every reachable state of Timers has the declared types, and the queue of
\* TimerTask no more than its high water mark.
THEOREM TimersTyping == Spec => []TypeOK
  BY TimersInvariant, PTL DEF IInv

\* What an expiry runs (timertask.cpp:49) is the processor of its timer, or, before
\* that is filed, the one of an older timer that is over; ids are given out again.
THEOREM ProcessorIsRight == Spec => []RightProcessor
<1>1. IInv => RightProcessor
  <2> SUFFICES ASSUME IInv, task.pc = "process"
               PROVE  LET p == m_mTProc[task.msg.id]
                      IN \/ p = task.msg.timer
                         \/ /\ ~task.msg.filed
                            /\ p # None /\ p \notin Repeating
                            /\ \A i \in Ids : scheduled[i] # p /\ m_mTProc[i] # task.msg.timer
    BY DEF RightProcessor
  <2> QED  BY DEF IInv, ExpiriesOK, ExpiryOK, TaskOK
<1> QED  BY <1>1, TimersInvariant, PTL

\* The reactor's timer queue holds no timer that was deleted.
THEOREM DeadNotScheduled == Spec => []NoDeadTimer
<1>1. IInv => NoDeadTimer
  BY DEF IInv, ScheduledOK, NoDeadTimer
<1> QED  BY <1>1, TimersInvariant, PTL

\* A filed timer with an interval keeps its place in the reactor's queue, and
\* reBuild has one from the start of the loop.
THEOREM Ticking == Spec => []KeepsTicking
<1>1. IInv => KeepsTicking
  BY TimerAssumption DEF IInv, TypeOK, FiledOK, RegOK, LeftOK, Filed, Booting, KeepsTicking
<1> QED  BY <1>1, TimersInvariant, PTL

=============================================================================
