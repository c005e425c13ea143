------------------------------- MODULE Framing -------------------------------
(***************************************************************************)
(* The way in of a connection: DASvcHandler::handle_input cuts the stream  *)
(* of bytes of its socket into messages with the help of ParsePkg.  It     *)
(* reads four bytes first, learns the length, and reads on into a block of *)
(* that size; the kernel gives it the bytes in fragments of any size.  The *)
(* peer writes messages with DASvcHandler::write, or other bytes.          *)
(***************************************************************************)
EXTENDS ParsePkg

CONSTANTS
  Msgs,       \* data of the messages a peer sends
  Junk,       \* bytes a peer sends that is not of this framework
  MaxWrites   \* bound: messages and pieces of junk

ASSUME InputAssumption ==
  /\ Msgs \subseteq Seq(Byte)
  /\ Junk \subseteq Seq(Byte) \ {<<>>}
  /\ MaxWrites \in Nat

VARIABLES
  stream,   \* the bytes the peer has sent, in order
  written,  \* what they are: [junk, data, end of it in the stream]
  ended,    \* the peer has closed its side
  recvd,    \* how many of the bytes recv has given to the handler
  block,    \* m_phead: [size of the block, bytes in it]
  pc,       \* handle_input: not running, in its first recv, in a later one
  errno,    \* of the reactor thread: "ETIME" or another value
  queue     \* the blocks given to DATask::put, in order

peerVars == <<stream, written, ended>>
vars == <<stream, written, ended, recvd, block, pc, errno, queue>>

----------------------------------------------------------------------------
NewBlockLarge == [size |-> 2 * MIN_PKG_SIZE, bytes |-> <<>>]
NewBlock == [size |-> MIN_PKG_SIZE, bytes |-> <<>>]
Bytes(w) == IF w.junk THEN w.data ELSE mkMsg(w.data)

TypeOK ==
  /\ stream \in Seq(Byte)
  /\ written \in Seq([junk : BOOLEAN, data : Msgs \cup Junk, end : Nat])
  /\ ended \in BOOLEAN
  /\ recvd \in 0..Len(stream)
  /\ block \in [size : MIN_PKG_SIZE..MAX_PKG_SIZE, bytes : Seq(Byte)]
  /\ pc \in {"wait", "first", "again", "closed"}
  /\ errno \in {"ETIME", "other"}
  /\ queue \in Seq(Seq(Byte))

Init ==
  /\ stream = <<>>
  /\ written = <<>>
  /\ ended = FALSE
  /\ recvd = 0
  /\ block = NewBlock
  /\ pc = "wait"
  /\ errno = "other"
  /\ queue = <<>>

\* write of the peer, whose bytes arrive one after the other.
PeerSends(w) ==
  /\ ~ended
  /\ Len(written) < MaxWrites
  /\ stream' = stream \o Bytes(w)
  /\ written' = Append(written, w)
  /\ UNCHANGED <<ended, recvd, block, pc, errno, queue>>

PeerWrite(d) ==
  PeerSends([junk |-> FALSE, data |-> d, end |-> Len(stream) + Len(mkMsg(d))])
PeerJunk(b) ==
  PeerSends([junk |-> TRUE, data |-> b, end |-> Len(stream) + Len(b)])

PeerEnds ==
  /\ ~ended
  /\ ended' = TRUE
  /\ UNCHANGED <<stream, written, recvd, block, pc, errno, queue>>

----------------------------------------------------------------------------
(* handle_input.                                                            *)

\* The reactor calls it while there are bytes to read or the stream has ended.
HandleInput ==
  /\ pc = "wait"
  /\ recvd < Len(stream) \/ ended
  /\ pc' = "first"
  /\ UNCHANGED <<peerVars, recvd, block, errno, queue>>

InRecv == pc \in {"first", "again"}
Space == block.size - Len(block.bytes)
After(n) == block.bytes \o SubSeq(stream, recvd + 1, recvd + n)

\* recv gives n bytes: fewer than there is room for if fewer have arrived.
Recv(n) ==
  /\ InRecv
  /\ n <= Space
  /\ n <= Len(stream) - recvd
  /\ recvd' = recvd + n
  /\ UNCHANGED <<peerVars, errno>>

PutMessageKeepsBlock(n) ==
  /\ Recv(n)
  /\ Finished(After(n))
  /\ queue' = Append(queue, After(n))
  /\ block' = [block EXCEPT !.bytes = After(n)]
  /\ pc' = "wait"

\* A whole message: it goes to DATask, and handle_input lets others have a turn.
PutMessage(n) ==
  /\ Recv(n)
  /\ Finished(After(n))
  /\ queue' = Append(queue, After(n))
  /\ block' = NewBlock
  /\ pc' = "wait"

RefuseData(n) ==
  /\ Recv(n)
  /\ Invalid(After(n))
  /\ pc' = "closed"
  /\ UNCHANGED <<block, queue>>

BlockSizeOfData(m) == IF HasLen(m) THEN MsgLen(m) - MIN_PKG_SIZE ELSE block.size
BlockSize(m) ==
  IF HasLen(m) /\ MsgLen(m) > block.size THEN MsgLen(m) ELSE block.size

\* Part of a message: once its length is known, in a block of that length.  A
\* block without room means an error and the end of the connection.
KeepReading(n) ==
  LET m == After(n)
  IN /\ Recv(n)
     /\ ~Finished(m)
     /\ ~Invalid(m)
     /\ block' = [size |-> BlockSize(m), bytes |-> m]
     /\ pc' = IF Len(m) = BlockSize(m) THEN "closed" ELSE "again"
     /\ UNCHANGED queue

\* The rest of a message is not there yet.
TimedOut ==
  /\ pc = "again"
  /\ pc' = "wait"
  /\ errno' = "ETIME"
  /\ UNCHANGED <<peerVars, recvd, block, queue>>

EndOfStreamIgnored ==
  /\ InRecv /\ ended /\ recvd = Len(stream)
  /\ pc' = "wait"
  /\ UNCHANGED <<peerVars, recvd, block, errno, queue>>

\* recv returns 0, which leaves errno alone, and handle_input looks at errno.
EndOfStream ==
  /\ InRecv
  /\ ended
  /\ recvd = Len(stream)
  /\ pc' = IF errno = "ETIME" THEN "wait" ELSE "closed"
  /\ UNCHANGED <<peerVars, recvd, block, errno, queue>>

RecvFails ==
  /\ InRecv
  /\ pc' = "closed"
  /\ errno' = "other"
  /\ UNCHANGED <<peerVars, recvd, block, queue>>

\* A call that failed for another handler of the reactor.
OtherHandler ==
  /\ pc = "wait"
  /\ errno' \in {"ETIME", "other"}
  /\ UNCHANGED <<peerVars, recvd, block, pc, queue>>

RecvSome ==
  \E n \in 1..Space : PutMessage(n) \/ RefuseData(n) \/ KeepReading(n)

Receiver ==
  \/ HandleInput
  \/ RecvSome
  \/ TimedOut
  \/ EndOfStream

Next ==
  \/ \E d \in Msgs : PeerWrite(d)
  \/ \E b \in Junk : PeerJunk(b)
  \/ PeerEnds
  \/ Receiver
  \/ RecvFails
  \/ OtherHandler

\* The reactor thread keeps running; errors and what the peer does are left open.
Spec == Init /\ [][Next]_vars /\ WF_vars(Receiver)

----------------------------------------------------------------------------
(* Properties.                                                              *)

\* The peer keeps to the protocol up to its i-th write.
Fits(d) == Len(d) + MIN_PKG_SIZE <= MAX_PKG_SIZE
Sound(i) == \A j \in 1..i : ~written[j].junk /\ Fits(written[j].data)

\* The application gets the data of the messages the peer sent, whole and in
\* order, however the stream is cut into fragments and whatever times out: all
\* before the first that does not fit or is no message.
MessagesIntact ==
  \A i \in DOMAIN queue :
    i <= Len(written) /\ Sound(i) => getMsgData(queue[i]) = written[i].data

\* Whatever the peer sends, DATask gets blocks that hold one message each and no
\* byte besides, so that process never meets the -1 of getDataLen and never
\* passes on bytes past the end of a block.
BlockIsMessage ==
  \A i \in DOMAIN queue :
    /\ Len(queue[i]) = MsgLen(queue[i])
    /\ getDataLen(queue[i]) = Len(queue[i]) - MIN_PKG_SIZE

\* The bytes received close a connection only if they are no message: the block is
\* large enough for whatever is not refused, so that the test for a full block
\* (dasvchandler.cpp:104) never fires and no recv has an empty room, where its 0
\* would be taken for the end of the stream.
ClosedOnlyIfInvalid ==
  [][recvd' # recvd /\ pc' = "closed"
       => Invalid(block.bytes \o SubSeq(stream, recvd + 1, recvd'))]_vars

\* A peer that keeps to the protocol is not refused.
NotRefused ==
  [][recvd' # recvd /\ Sound(Len(written)) => pc' # "closed"]_vars

\* A message that fits is delivered unless the connection is closed.
Delivered ==
  \A i \in 1..MaxWrites :
    Len(written) >= i /\ Sound(i) ~> Len(queue) >= i \/ pc = "closed"

\* The end of the stream is noticed unless an ETIME of an earlier call is there
\* whenever recv returns 0 (dasvchandler.cpp:92).
EndNoticed == <>ended => <>(pc = "closed") \/ []<>(errno = "ETIME")

=============================================================================
