------------------------------ MODULE SendQueue ------------------------------
(***************************************************************************)
(* The way out of a connection: DASvcHandler::write, on the threads of     *)
(* DATask and TimerTask, puts a message on the handler's queue and asks    *)
(* the reactor to watch for room on the socket; handle_output, on the      *)
(* reactor thread, sends from the queue and stops the watch when it is     *)
(* empty.  The queue is declared with ACE_NULL_SYNCH and has no lock; the  *)
(* writers only hold the mutex of ConnMgr for reading.  An operation on    *)
(* the queue while another thread is in putq is a data race: fault ends    *)
(* the execution there.                                                    *)
(*                                                                         *)
(* The queue is full once the messages on it have HighWater bytes.  Since  *)
(* ACE_NULL_SYNCH has no condition to wait on, putq and ungetq then fail   *)
(* at once; handle_output does not look whether ungetq did.                *)
(***************************************************************************)
EXTENDS Integers, SequencesExt

CONSTANTS
  Writers,
  Sizes,         \* bytes of a message
  MAX_SEND_NUM,
  HighWater,     \* bytes on the queue from which on it takes no message
  MaxMsgs        \* bound: messages written

ASSUME SizesAssumption ==
  /\ Sizes \subseteq Nat \ {0}
  /\ MAX_SEND_NUM \in Nat
  /\ HighWater \in Nat \ {0}
  /\ MaxMsgs \in Nat

VARIABLES
  queue,     \* msg_queue(): messages with the bytes already sent of each
  wakeup,    \* WRITE_MASK of the handler in the reactor
  open,      \* the connection is in m_mConn
  output,    \* handle_output: [pc, mb, iCount, result of is_empty]
  writer,    \* thread in write: [pc, msg]
  written,   \* messages begun, which numbers them
  accepted,  \* the messages put on the queue, in order
  lost,      \* history: those of which ungetq dropped what was left, by number
  sent,      \* the bytes given to the socket, in order
  missed,    \* history: a message came between is_empty and cancel_wakeup
  fault      \* a data race happened

vars == <<queue, wakeup, open, output, writer, written, accepted, lost, sent, missed,
          fault>>

Msg == [id : 1..MaxMsgs, size : Sizes, off : Nat]
NoMsg == [id |-> 0, size |-> 0, off |-> 0]
\* The variables of handle_output, while no call of it is under way.
NoCall == [pc |-> "idle", mb |-> NoMsg, iCount |-> 0, empty |-> FALSE]

\* What is left to send of a message: from rd_ptr, length() bytes.  A byte is the
\* pos-th of its message.
Rest(m) == m.size - m.off
Bytes(m) == [k \in 1..Rest(m) |-> [id |-> m.id, size |-> m.size, pos |-> m.off + k]]
AllBytes(ms) == FlattenSeq([n \in DOMAIN ms |-> Bytes(ms[n])])

\* message_bytes() counts the whole of a message, also when a part of it was sent.
Full == FoldSeq(LAMBDA m, n : m.size + n, 0, queue) >= HighWater

TypeOK ==
  /\ \A n \in DOMAIN queue : queue[n] \in Msg /\ Rest(queue[n]) > 0
  /\ wakeup \in BOOLEAN
  /\ open \in BOOLEAN
  /\ output.pc \in {"idle", "getq", "send", "is_empty", "wakeup", "close"}
  /\ output.mb \in Msg \cup {NoMsg}
  /\ output.iCount \in 0..(MAX_SEND_NUM + 1)
  /\ output.empty \in BOOLEAN
  /\ \A w \in Writers : writer[w].pc \in {"idle", "putq", "register"}
  /\ written \in 0..MaxMsgs
  /\ lost \subseteq 1..MaxMsgs
  /\ missed \in BOOLEAN
  /\ fault \in BOOLEAN

Init ==
  /\ queue = <<>>
  /\ wakeup = FALSE
  /\ open = TRUE
  /\ output = NoCall
  /\ writer = [w \in Writers |-> [pc |-> "idle", msg |-> NoMsg]]
  /\ written = 0
  /\ accepted = <<>>
  /\ lost = {}
  /\ sent = <<>>
  /\ missed = FALSE
  /\ fault = FALSE

InPutq(w) == writer[w].pc = "putq"
Quiet == \A w \in Writers : ~InPutq(w)

----------------------------------------------------------------------------
(* write, under the read guard of ConnMgr::write.                           *)

Putq(w, size) ==
  /\ ~fault
  /\ open
  /\ writer[w].pc = "idle"
  /\ written < MaxMsgs
  /\ written' = written + 1
  /\ writer' = [writer EXCEPT ![w] =
       [pc |-> "putq", msg |-> [id |-> written + 1, size |-> size, off |-> 0]]]
  /\ fault' = ~Quiet
  /\ UNCHANGED <<queue, wakeup, open, output, accepted, lost, sent, missed>>

PutqReturns(w) ==
  /\ ~fault
  /\ InPutq(w)
  /\ ~Full
  /\ queue' = Append(queue, writer[w].msg)
  /\ accepted' = Append(accepted, writer[w].msg)
  /\ writer' = [writer EXCEPT ![w] = [pc |-> "register", msg |-> NoMsg]]
  /\ UNCHANGED <<wakeup, open, output, written, lost, sent, missed, fault>>

\* putq returns -1, and write with it, before register_handler.
PutqRefused(w) ==
  /\ ~fault
  /\ InPutq(w)
  /\ Full
  /\ writer' = [writer EXCEPT ![w] = [pc |-> "idle", msg |-> NoMsg]]
  /\ UNCHANGED <<queue, wakeup, open, output, written, accepted, lost, sent, missed,
                 fault>>

\* register_handler(this, WRITE_MASK)
Register(w) ==
  /\ ~fault
  /\ writer[w].pc = "register"
  /\ writer' = [writer EXCEPT ![w].pc = "idle"]
  /\ wakeup' = TRUE
  /\ UNCHANGED <<queue, open, output, written, accepted, lost, sent, missed, fault>>

----------------------------------------------------------------------------
(* handle_output.                                                           *)

At(pc) == ~fault /\ output.pc = pc

\* The socket has room, or an error to report.
Dispatch ==
  /\ At("idle")
  /\ open
  /\ wakeup
  /\ output' = [output EXCEPT !.pc = "getq"]
  /\ UNCHANGED <<queue, wakeup, open, writer, written, accepted, lost, sent,
                 missed, fault>>

Getq ==
  /\ At("getq")
  /\ Quiet
  /\ \/ /\ queue # <<>>
        /\ output' = [output EXCEPT !.pc = "send", !.mb = Head(queue)]
        /\ queue' = Tail(queue)
     \/ /\ queue = <<>>
        /\ output' = [output EXCEPT !.pc = "is_empty"]
        /\ UNCHANGED queue
  /\ UNCHANGED <<wakeup, open, writer, written, accepted, lost, sent, missed, fault>>

AfterSendLate ==
  [output EXCEPT !.mb = NoMsg, !.iCount = @ + 1,
     !.pc = IF output.iCount > MAX_SEND_NUM THEN "is_empty" ELSE "getq"]

\* ++iCount, and the loop ends when more than MAX_SEND_NUM sends were made.
AfterSend ==
  [output EXCEPT !.mb = NoMsg, !.iCount = @ + 1,
     !.pc = IF output.iCount + 1 > MAX_SEND_NUM THEN "is_empty" ELSE "getq"]

UngetqWhole(m) == queue' = <<[m EXCEPT !.off = 0]>> \o queue /\ lost' = lost

\* ungetq: in front of the queue, unless it is full; its result is ignored.
Ungetq(m) ==
  IF Full THEN queue' = queue /\ lost' = lost \cup {m.id}
  ELSE queue' = <<m>> \o queue /\ lost' = lost

SendAll ==
  /\ At("send")
  /\ sent' = sent \o Bytes(output.mb)
  /\ output' = AfterSend
  /\ UNCHANGED <<queue, wakeup, open, writer, written, accepted, lost, missed, fault>>

SendPartPutsLast(k) ==
  /\ At("send")
  /\ Quiet
  /\ k < Rest(output.mb)
  /\ sent' = sent \o SubSeq(Bytes(output.mb), 1, k)
  /\ queue' = Append(queue, [output.mb EXCEPT !.off = @ + k])
  /\ output' = AfterSend
  /\ UNCHANGED <<wakeup, open, writer, written, accepted, lost, missed, fault>>

\* The socket took k bytes: the rest goes back to the queue.
SendPart(k) ==
  /\ At("send")
  /\ Quiet
  /\ k < Rest(output.mb)
  /\ sent' = sent \o SubSeq(Bytes(output.mb), 1, k)
  /\ Ungetq([output.mb EXCEPT !.off = @ + k])
  /\ output' = AfterSend
  /\ UNCHANGED <<wakeup, open, writer, written, accepted, missed, fault>>

\* ETIME, EWOULDBLOCK or EAGAIN.
WouldBlock ==
  /\ At("send")
  /\ Quiet
  /\ Ungetq(output.mb)
  /\ output' = [output EXCEPT !.pc = "is_empty", !.mb = NoMsg]
  /\ UNCHANGED <<wakeup, open, writer, written, accepted, sent, missed, fault>>

\* Any other error returns -1; the message in hand is never released.
SendFails ==
  /\ At("send")
  /\ output' = [output EXCEPT !.pc = "close", !.mb = NoMsg]
  /\ UNCHANGED <<queue, wakeup, open, writer, written, accepted, lost, sent,
                 missed, fault>>

\* handle_close; rmConn waits for the threads that are in ConnMgr::write.
HandleClose ==
  /\ At("close")
  /\ \A w \in Writers : writer[w].pc = "idle"
  /\ open' = FALSE
  /\ wakeup' = FALSE
  /\ queue' = <<>>
  /\ output' = NoCall
  /\ UNCHANGED <<writer, written, accepted, lost, sent, missed, fault>>

IsEmpty ==
  /\ At("is_empty")
  /\ Quiet
  /\ output' = [output EXCEPT !.pc = "wakeup", !.empty = (queue = <<>>)]
  /\ UNCHANGED <<queue, wakeup, open, writer, written, accepted, lost, sent,
                 missed, fault>>

CancelWakeup ==
  /\ At("wakeup")
  /\ output.empty
  /\ wakeup' = FALSE
  /\ missed' = (missed \/ queue # <<>>)
  /\ output' = NoCall
  /\ UNCHANGED <<queue, open, writer, written, accepted, lost, sent, fault>>

ScheduleCancels ==
  /\ At("wakeup")
  /\ ~output.empty
  /\ wakeup' = FALSE
  /\ output' = NoCall
  /\ UNCHANGED <<queue, open, writer, written, accepted, lost, sent, missed, fault>>

ScheduleWakeup ==
  /\ At("wakeup")
  /\ ~output.empty
  /\ wakeup' = TRUE
  /\ output' = NoCall
  /\ UNCHANGED <<queue, open, writer, written, accepted, lost, sent, missed, fault>>

\* getq, ungetq or is_empty while a writer is in putq.
Race ==
  /\ At("getq") \/ At("send") \/ At("is_empty")
  /\ ~Quiet
  /\ fault' = TRUE
  /\ UNCHANGED <<queue, wakeup, open, output, writer, written, accepted, lost,
                 sent, missed>>

SendSome == SendAll \/ \E k \in 1..(Rest(output.mb) - 1) : SendPart(k)

HandleOutput ==
  \/ Dispatch
  \/ Getq
  \/ SendSome
  \/ WouldBlock
  \/ SendFails
  \/ HandleClose
  \/ IsEmpty
  \/ CancelWakeup
  \/ ScheduleWakeup
  \/ Race

WriteReturns(w) == PutqReturns(w) \/ PutqRefused(w) \/ Register(w)

Next ==
  \/ HandleOutput
  \/ \E w \in Writers, n \in Sizes : Putq(w, n)
  \/ \E w \in Writers : WriteReturns(w)

\* The threads keep running.  A socket that the reactor finds writable again and
\* again takes something at last: the peer reads.
Fairness ==
  /\ WF_vars(HandleOutput)
  /\ SF_vars(SendSome)
  /\ \A w \in Writers : WF_vars(WriteReturns(w))

Spec == Init /\ [][Next]_vars /\ Fairness

----------------------------------------------------------------------------
(* Properties.                                                              *)

Pending == Bytes(output.mb) \o AllBytes(queue)

\* No rest was dropped of the first n messages.
Kept(n) == \A i \in 1..n : accepted[i].id \notin lost

\* The bytes sent and those that wait are the messages in the order in which
\* putq took them: partial sends, full sockets and the limit on the sends of one
\* call neither lose, repeat nor reorder any; an error cuts the stream off.  When
\* ungetq has dropped the rest of a message, all messages before it were sent.
StreamIntact ==
  ~fault =>
    /\ lost = {} => IsPrefix(sent, AllBytes(accepted))
    /\ lost = {} /\ open /\ output.pc # "close" => sent \o Pending = AllBytes(accepted)
    /\ lost # {} =>
         \A n \in DOMAIN accepted :
           Kept(n) => IsPrefix(AllBytes(SubSeq(accepted, 1, n)), sent)

\* Also past a message that lost its rest, no byte goes out twice or behind one of
\* a later message.
SentInOrder ==
  ~fault =>
    \A i \in 1..(Len(sent) - 1) :
      \/ sent[i].id < sent[i + 1].id
      \/ sent[i].id = sent[i + 1].id /\ sent[i].pos < sent[i + 1].pos

\* Every message of the queue was sent to its last byte, or ungetq dropped its rest.
SentWhole(i) == \E n \in DOMAIN sent : sent[n].id = i /\ sent[n].pos = sent[n].size
AllSent ==
  \A n \in DOMAIN accepted : SentWhole(accepted[n].id) \/ accepted[n].id \in lost

\* The wakeup is cancelled only when the queue has no data (dasvchandler.cpp:168).
CancelledWhenEmpty ==
  [][wakeup /\ ~wakeup' /\ output.pc = "wakeup" => queue = <<>>]_vars

=============================================================================
