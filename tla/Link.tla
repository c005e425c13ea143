-------------------------------- MODULE Link --------------------------------
(***************************************************************************)
(* A connection between two processes of the framework: the sender's       *)
(* DASvcHandler with its queue (SendQueue), the bytes on their way, and    *)
(* the receiver's handle_input (Framing).                                  *)
(***************************************************************************)
EXTENDS SendQueue, ParsePkg

VARIABLES
  stream,    \* the bytes sent, with their values
  recvd,     \* as in Framing, of the receiver
  block,
  pc,
  errno,
  requests   \* the blocks the receiver gave to DATask::put

sendVars == vars
recvVars == <<recvd, block, pc, errno, requests>>
linkVars == <<sendVars, stream, recvVars>>

\* What write(strMsg) makes of message id, so that it has size bytes with head and
\* tail: which message it is can be seen from its data.
Data(id, size) == [k \in 1..(size - MIN_PKG_SIZE) |-> id % Base]
Encoded(m) == mkMsg(Data(m.id, m.size))

\* Messages with head and tail, whose length has room in two bytes.
ASSUME MessageSizes == Sizes \subseteq MIN_PKG_SIZE..MAX_PKG_SIZE

\* The bytes on the wire, with their values.
Wire(b) == Encoded(b)[b.pos]

Receiver ==
  INSTANCE Framing WITH
    Msgs <- {}, Junk <- {}, MaxWrites <- MaxMsgs, written <- <<>>,
    ended <- ~open, queue <- requests

LinkInit == Init /\ Receiver!Init

\* An event at the receiver while the sender stands still, and the reverse.  The
\* receiver has no other connection, and what comes after a data race at the sender
\* is left out.
Receives == ~fault /\ UNCHANGED sendVars /\ Receiver!Receiver
RecvFails == ~fault /\ UNCHANGED sendVars /\ Receiver!RecvFails
ReceiverStep == Receives \/ RecvFails
SenderStep ==
  /\ Next
  /\ stream' = [n \in DOMAIN sent' |->
                 IF n \in DOMAIN stream THEN stream[n] ELSE Wire(sent'[n])]
  /\ UNCHANGED recvVars

LinkNext == SenderStep \/ ReceiverStep

LinkSpec ==
  /\ LinkInit /\ [][LinkNext]_linkVars
  /\ Fairness
  /\ WF_linkVars(Receives)

----------------------------------------------------------------------------
(* Properties.                                                              *)

\* What one process writes the other gets: the requests of the receiver are the
\* first messages of the sender, whole and in the order in which putq took them,
\* whatever the two sockets split, hold back or break off; all before the first
\* message whose rest was dropped.
RequestsAreMessages ==
  /\ lost = {} => Len(requests) <= Len(accepted)
  /\ \A n \in DOMAIN requests :
       n <= Len(accepted) /\ Kept(n) => requests[n] = Encoded(accepted[n])

\* Again and again nothing is left on the way: the sender has sent all it took, so
\* that what EAGAIN or the limit leave on the queue is not forgotten, and every
\* message up to the first whose rest was dropped is a request of the receiver,
\* unless that closed the connection.  Only the sender's end of the connection and
\* a message between is_empty and cancel_wakeup excuse it.
AllArrived == \A n \in DOMAIN accepted : Kept(n) => n \in DOMAIN requests
Arrives ==
  []<>(\/ AllSent /\ (AllArrived \/ pc = "closed")
       \/ ~open
       \/ missed
       \/ fault)

=============================================================================
