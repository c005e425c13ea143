--------------------------- MODULE FramingProofs ----------------------------
(***************************************************************************)
(* Theorems about Framing for every size of a byte, every set of messages  *)
(* and of junk and any number of writes: the messages come out as they     *)
(* went in, and every block put holds one.                                 *)
(***************************************************************************)
EXTENDS Framing, ParsePkgProofs

----------------------------------------------------------------------------
(* The inductive invariant.                                                 *)

\* Bytes of the stream before the i-th write.
Start(i) == IF i = 1 THEN 0 ELSE written[i - 1].end

\* The stream begins with the bytes of the writes, one after the other.
WrittenOK ==
  /\ \A i \in 1..Len(written) :
       /\ written[i].end = Start(i) + Len(Bytes(written[i]))
       /\ written[i].end <= Len(stream)
       /\ \A k \in 1..Len(Bytes(written[i])) :
            stream[Start(i) + k] = Bytes(written[i])[k]

\* The block holds the last bytes received, the beginning of a message, and is
\* as large as it, once its length is known.
BlockOK ==
  pc # "closed" =>
    /\ Len(block.bytes) <= recvd
    /\ \A k \in 1..Len(block.bytes) :
         block.bytes[k] = stream[recvd - Len(block.bytes) + k]
    /\ Len(block.bytes) < block.size
    /\ HeadOK(block.bytes)
    /\ block.size = IF HasLen(block.bytes) THEN MsgLen(block.bytes) ELSE MIN_PKG_SIZE

OneMessage(m) == HasLen(m) /\ m[1] = PKG_HEAD /\ MsgLen(m) = Len(m)

\* The first i writes are there and keep to the protocol.
Known(i) == i <= Len(written) /\ Sound(i)

\* As long as all is sound, blocks put and writes correspond.
QueueOK ==
  /\ \A i \in 1..Len(queue) : OneMessage(queue[i])
  /\ \A i \in 1..Len(queue) : Known(i) => queue[i] = mkMsg(written[i].data)
  /\ pc # "closed" /\ Known(Len(queue))
       => recvd - Len(block.bytes) = Start(Len(queue) + 1)

\* There is nothing else in the stream, and no more blocks are put than written.
NothingElse ==
  /\ Start(Len(written) + 1) = Len(stream)
  /\ Sound(Len(written)) => Len(queue) <= Len(written)

\* The first part holds also of a stream in which something follows the writes.
PInv == TypeOK /\ WrittenOK /\ BlockOK /\ QueueOK
IInv == PInv /\ NothingElse

----------------------------------------------------------------------------
(* What a state of the right types has.                                     *)

LEMMA Sizes ==
  /\ MIN_PKG_SIZE \in Nat /\ MAX_PKG_SIZE \in Nat /\ MIN_PKG_SIZE < MAX_PKG_SIZE
  /\ NewBlock \in [size : MIN_PKG_SIZE..MAX_PKG_SIZE, bytes : Seq(Byte)]
<1>1. /\ MIN_PKG_SIZE \in Nat /\ MAX_PKG_SIZE \in Nat
      /\ MIN_PKG_SIZE < MAX_PKG_SIZE
  BY SquareOfBase DEF MIN_PKG_SIZE, MAX_PKG_SIZE
<1>2. <<>> \in Seq(Byte)
  OBVIOUS
<1> HIDE DEF MIN_PKG_SIZE, MAX_PKG_SIZE
<1> QED  BY <1>1, <1>2 DEF NewBlock

LEMMA BlockFields ==
  ASSUME TypeOK
  PROVE  /\ block.size \in Nat
         /\ MIN_PKG_SIZE <= block.size /\ block.size <= MAX_PKG_SIZE
         /\ block.bytes \in Seq(Byte) /\ Len(block.bytes) \in Nat
         /\ recvd \in Nat /\ recvd <= Len(stream) /\ Len(stream) \in Nat
         /\ stream \in Seq(Byte)
         /\ Len(written) \in Nat /\ Len(queue) \in Nat
<1>1. /\ block.size \in MIN_PKG_SIZE..MAX_PKG_SIZE
      /\ block.bytes \in Seq(Byte)
  BY DEF TypeOK
<1>2. recvd \in 0..Len(stream) /\ Len(stream) \in Nat
  BY DEF TypeOK
<1> QED  BY <1>1, <1>2, Sizes DEF TypeOK

LEMMA WrittenFields ==
  ASSUME TypeOK, NEW i \in 1..Len(written)
  PROVE  /\ written[i].junk \in BOOLEAN /\ written[i].data \in Seq(Byte)
         /\ written[i].end \in Nat
<1>0. written \in Seq([junk : BOOLEAN, data : Msgs \cup Junk, end : Nat])
  BY DEF TypeOK
<1>1. written[i] \in [junk : BOOLEAN, data : Msgs \cup Junk, end : Nat]
  BY <1>0, ElementOfSeq
<1>2. written[i].data \in Msgs \cup Junk /\ written[i].end \in Nat
  BY <1>1
<1>3. written[i].junk \in BOOLEAN
  BY <1>1
<1> QED  BY <1>2, <1>3, InputAssumption

LEMMA BytesType ==
  ASSUME NEW w \in [junk : BOOLEAN, data : Msgs \cup Junk, end : Nat]
  PROVE  Bytes(w) \in Seq(Byte)
BY MessageParts, InputAssumption DEF Bytes

LEMMA InitIInv == Init => IInv
<1> SUFFICES ASSUME Init PROVE IInv
  OBVIOUS
<1>0. Len(stream) = 0 /\ Len(written) = 0 /\ Len(queue) = 0 /\ recvd = 0
  BY DEF Init
<1>1. /\ stream = <<>> /\ written = <<>> /\ queue = <<>>
      /\ block = NewBlock /\ pc = "wait"
  BY DEF Init
<1>2. block.bytes = <<>> /\ block.size = MIN_PKG_SIZE
  BY <1>1 DEF NewBlock
<1>a. Len(block.bytes) = 0
  BY <1>2
<1>3. TypeOK
  <2>1. ended \in BOOLEAN /\ pc \in {"wait", "first", "again", "closed"}
        /\ errno \in {"ETIME", "other"}
    BY DEF Init
  <2>2. /\ stream \in Seq(Byte) /\ queue \in Seq(Seq(Byte))
        /\ written \in Seq([junk : BOOLEAN, data : Msgs \cup Junk, end : Nat])
    BY <1>1
  <2>3. block \in [size : MIN_PKG_SIZE..MAX_PKG_SIZE, bytes : Seq(Byte)]
    BY <1>1, Sizes
  <2>4. recvd \in 0..Len(stream)
    BY <1>0
  <2> QED  BY <2>1, <2>2, <2>3, <2>4 DEF TypeOK
<1>4. WrittenOK
  BY <1>0 DEF WrittenOK, Start
<1>5. BlockOK
  BY <1>0, <1>1, <1>2, <1>a DEF BlockOK, HeadOK, HasLen, MIN_PKG_SIZE
<1>6. QueueOK
  <2>1. \A i \in 1..Len(queue) : FALSE
    BY <1>0
  <2>2. recvd - Len(block.bytes) = 0
    BY <1>0, <1>a
  <2>3. Start(Len(queue) + 1) = 0
    BY <1>0 DEF Start
  <2> QED  BY <2>1, <2>2, <2>3 DEF QueueOK
<1>7. NothingElse
  BY <1>0 DEF NothingElse, Start
<1> QED  BY <1>3, <1>4, <1>5, <1>6, <1>7 DEF IInv, PInv

----------------------------------------------------------------------------
(* The peer.                                                                *)

\* The bytes of w come at the end of the stream, whether or not the peer may send
\* more.
Comes(w) ==
  /\ stream' = stream \o Bytes(w) /\ written' = Append(written, w)
  /\ UNCHANGED <<ended, recvd, block, pc, errno, queue>>

LEMMA StreamGrows ==
  ASSUME IInv, NEW w \in [junk : BOOLEAN, data : Msgs \cup Junk, end : Nat],
         w.end = Len(stream) + Len(Bytes(w)),
         Comes(w)
  PROVE  IInv'
<1> DEFINE b == Bytes(w)
           sent == Len(stream)
<1>0. PICK count \in Nat : count = Len(written)
  BY BlockFields DEF IInv, PInv
<1>d. PICK put \in Nat : put = Len(queue)
  BY BlockFields DEF IInv, PInv
<1>1. b \in Seq(Byte) /\ Len(b) \in Nat
  BY BytesType
<1>2. /\ stream' = stream \o b /\ written' = Append(written, w)
      /\ UNCHANGED <<ended, recvd, block, pc, errno, queue>>
  BY DEF Comes
<1>3. sent \in Nat /\ count \in Nat /\ recvd \in Nat /\ recvd <= sent
      /\ Len(queue) \in Nat /\ Len(block.bytes) \in Nat
  BY BlockFields DEF IInv, PInv
<1>c. w.end = sent + Len(b)
  OBVIOUS
<1> HIDE DEF b
<1>4. /\ stream' \in Seq(Byte) /\ Len(stream') = sent + Len(b)
      /\ \A k \in 1..sent : stream'[k] = stream[k]
      /\ \A k \in 1..Len(b) : stream'[sent + k] = b[k]
  <2>1. stream \in Seq(Byte)
    BY DEF IInv, PInv, TypeOK
  <2>2. \A k \in 1..(Len(stream) + Len(b)) :
          stream'[k] = IF k <= Len(stream) THEN stream[k] ELSE b[k - Len(stream)]
    BY <1>1, <1>2, <2>1, ConcatProperties
  <2>3. stream' \in Seq(Byte) /\ Len(stream') = sent + Len(b)
    BY <1>1, <1>2, <2>1, ConcatProperties
  <2>4. ASSUME NEW k \in 1..Len(b) PROVE stream'[sent + k] = b[k]
    <3>1. sent + k \in 1..(sent + Len(b)) /\ ~(sent + k <= sent) /\ (sent + k) - sent = k
      BY <1>1, <1>3
    <3> QED  BY <2>2, <3>1
  <2> QED  BY <1>1, <1>3, <2>2, <2>3, <2>4
<1>5. written' \in Seq([junk : BOOLEAN, data : Msgs \cup Junk, end : Nat])
  BY <1>2 DEF IInv, PInv, TypeOK
<1>a. Len(written') = count + 1 /\ written'[count + 1] = w
  BY <1>0, <1>2, AppendProperties DEF IInv, PInv, TypeOK
<1>b. \A i \in 1..count : written'[i] = written[i]
  BY <1>0, <1>2, AppendProperties DEF IInv, PInv, TypeOK
<1>6. TypeOK'
  <2>1. recvd' \in 0..Len(stream')
    BY <1>1, <1>2, <1>3, <1>4
  <2> QED  BY <1>2, <1>4, <1>5, <2>1 DEF IInv, PInv, TypeOK
<1>7. \A i \in 1..(count + 1) : Start(i)' = Start(i)
  <2> SUFFICES ASSUME NEW i \in 1..(count + 1) PROVE Start(i)' = Start(i)
    OBVIOUS
  <2>1. CASE i = 1
    BY <2>1 DEF Start
  <2>2. CASE i # 1
    <3>1. i - 1 \in 1..count
      BY <1>3, <2>2
    <3>2. written'[i - 1] = written[i - 1]
      BY <1>b, <3>1
    <3> QED  BY <2>2, <3>2 DEF Start
  <2> QED  BY <2>1, <2>2
<1>8. Start(count + 1) = sent
  BY <1>0 DEF IInv, NothingElse
<1>9. WrittenOK'
  <2>1. ASSUME NEW i \in 1..count
        PROVE  /\ written'[i].end = Start(i)' + Len(Bytes(written'[i]))
               /\ written'[i].end <= Len(stream')
               /\ \A k \in 1..Len(Bytes(written'[i])) :
                    stream'[Start(i)' + k] = Bytes(written'[i])[k]
    <3> DEFINE old == Bytes(written[i])
    <3>1. /\ written[i].end = Start(i) + Len(old) /\ written[i].end <= sent
          /\ \A k \in 1..Len(old) : stream[Start(i) + k] = old[k]
      BY <1>0 DEF IInv, PInv, WrittenOK
    <3>2. written'[i] = written[i] /\ Start(i)' = Start(i)
      BY <1>3, <1>7, <1>b
    <3>3. Start(i) \in Nat
      <4>1. i # 1 => i - 1 \in 1..Len(written)
        BY <1>0
      <4> QED  BY <4>1, WrittenFields DEF IInv, PInv, Start
    <3>4. Len(old) \in Nat
      BY <1>0, BytesType, ElementOfSeq DEF IInv, PInv, TypeOK
    <3>5. \A k \in 1..Len(old) : Start(i) + k \in 1..sent
      BY <1>3, <3>1, <3>3, <3>4
    <3>6. written[i].end <= Len(stream')
      BY <1>1, <1>3, <1>4, <3>1, <3>3, <3>4
    <3> HIDE DEF old
    <3>7. \A k \in 1..Len(old) : stream'[Start(i) + k] = old[k]
      BY <1>4, <3>1, <3>5
    <3> QED  BY <3>1, <3>2, <3>6, <3>7 DEF old
  <2>2. /\ w.end = Start(count + 1)' + Len(b)
        /\ w.end <= Len(stream')
        /\ \A k \in 1..Len(b) : stream'[Start(count + 1)' + k] = b[k]
    <3>1. Start(count + 1)' = sent
      BY <1>3, <1>7, <1>8
    <3>2. w.end <= Len(stream')
      BY <1>1, <1>3, <1>4, <1>c
    <3> QED  BY <1>4, <1>c, <3>1, <3>2
  <2>4. \A i \in 1..Len(written') : i \in 1..count \/ i = count + 1
    BY <1>3, <1>a
  <2>5. \A i \in 1..Len(written') :
          /\ written'[i].end = Start(i)' + Len(Bytes(written'[i]))
          /\ written'[i].end <= Len(stream')
          /\ \A k \in 1..Len(Bytes(written'[i])) :
               stream'[Start(i)' + k] = Bytes(written'[i])[k]
    <3> SUFFICES ASSUME NEW i \in 1..Len(written')
                 PROVE  /\ written'[i].end = Start(i)' + Len(Bytes(written'[i]))
                        /\ written'[i].end <= Len(stream')
                        /\ \A k \in 1..Len(Bytes(written'[i])) :
                             stream'[Start(i)' + k] = Bytes(written'[i])[k]
      OBVIOUS
    <3>1. CASE i \in 1..count
      BY <2>1, <3>1
    <3>2. CASE i = count + 1
      <4>1. written'[i] = w /\ Bytes(written'[i]) = b
        BY <1>a, <3>2 DEF b
      <4> QED  BY <2>2, <3>2, <4>1
    <3> QED  BY <2>4, <3>1, <3>2
  <2> QED  BY <2>5 DEF WrittenOK, Bytes
<1>10. BlockOK'
  <2>1. Len(block.bytes) <= recvd
          => \A k \in 1..Len(block.bytes) : recvd - Len(block.bytes) + k \in 1..sent
    BY <1>3
  <2> QED  BY <1>2, <1>4, <2>1 DEF IInv, PInv, BlockOK
<1>11. QueueOK'
  <2>1. ASSUME NEW i \in Nat, i <= count, Sound(i)' PROVE Sound(i)
    <3>1. \A j \in 1..i : written'[j] = written[j]
      BY <1>3, <1>b, <2>1
    <3> QED  BY <2>1, <3>1 DEF Sound
  <2>2. ASSUME NEW i \in Nat, i = count + 1, Sound(i)' PROVE Sound(count)
    <3>1. \A j \in 1..count : written'[j] = written[j] /\ j \in 1..i
      BY <1>3, <1>b, <2>2
    <3> QED  BY <2>2, <3>1 DEF Sound
  <2>3. Sound(count) => put <= count
    BY <1>0, <1>d DEF IInv, NothingElse
  <2>4. ASSUME NEW i \in Nat, i <= put, Known(i)' PROVE Known(i) /\ i <= count
    <3>1. i <= count + 1 /\ Sound(i)'
      BY <1>a, <2>4 DEF Known
    <3>2. i # count + 1
      BY <1>3, <2>2, <2>3, <2>4, <3>1
    <3>3. i <= count
      BY <1>3, <3>1, <3>2
    <3> QED  BY <1>0, <2>1, <3>1, <3>3 DEF Known
  <2>5. ASSUME NEW i \in 1..put, Known(i)' PROVE queue[i] = mkMsg(written'[i].data)
    <3>1. i \in Nat /\ i <= put
      OBVIOUS
    <3>2. Known(i) /\ i \in 1..count
      BY <1>3, <2>4, <2>5, <3>1
    <3> QED  BY <1>b, <1>d, <3>2 DEF IInv, PInv, QueueOK
  <2>6. ASSUME pc # "closed", Known(put)'
        PROVE  recvd - Len(block.bytes) = Start(put + 1)'
    <3>1. Known(put) /\ put <= count
      BY <2>4, <2>6
    <3>2. recvd - Len(block.bytes) = Start(put + 1)
      BY <1>d, <2>6, <3>1 DEF IInv, PInv, QueueOK
    <3>3. put + 1 \in 1..(count + 1)
      BY <3>1
    <3> QED  BY <1>7, <3>2, <3>3
  <2>8. queue' = queue /\ pc' = pc /\ recvd' = recvd /\ block' = block /\ Len(queue') = put
    BY <1>2, <1>d
  <2>9. Start(put + 1)' = Start(Len(queue) + 1)' /\ (Known(put)' <=> Known(Len(queue))')
    BY <2>8
  <2>10. \A i \in 1..Len(queue) : OneMessage(queue[i])
    BY DEF IInv, PInv, QueueOK
  <2>11. /\ \A i \in 1..Len(queue') : OneMessage(queue'[i])
         /\ \A i \in 1..Len(queue') : Known(i)' => queue'[i] = mkMsg(written'[i].data)
    BY <2>5, <2>8, <2>10, <1>d
  <2>13. pc' # "closed" /\ Known(Len(queue))'
           => recvd' - Len(block.bytes)' = Start(Len(queue) + 1)'
    BY <2>6, <2>8, <2>9
  <2> QED  BY <2>11, <2>13 DEF QueueOK, OneMessage
<1>12. NothingElse'
  <2>1. Sound(count) => put <= count
    BY <1>0, <1>d DEF IInv, NothingElse
  <2>2. Len(written') \in Nat /\ Len(written') = count + 1
    BY <1>a
  <2>3. Sound(Len(written))' => Sound(count)
    <3>1. Sound(Len(written))'
            => \A j \in 1..(count + 1) : ~written'[j].junk /\ Fits(written'[j].data)
      BY <2>2 DEF Sound, Fits
    <3>2. \A j \in 1..count : written'[j] = written[j] /\ j \in 1..(count + 1)
      BY <1>b
    <3> QED  BY <3>1, <3>2 DEF Sound
  <2>4. Start(Len(written) + 1)' = Len(stream')
    <3>1. Start(Len(written) + 1)' = w.end
      BY <1>3, <1>a DEF Start
    <3>2. w.end = sent + Len(b)
      BY <1>c
    <3> QED  BY <1>4, <3>1, <3>2
  <2>5. Sound(Len(written))' => Len(queue') <= Len(written')
    BY <1>2, <1>d, <2>1, <2>2, <2>3
  <2> QED  BY <2>4, <2>5 DEF NothingElse
<1> QED  BY <1>6, <1>9, <1>10, <1>11, <1>12 DEF IInv, PInv

LEMMA PeerSendsIInv ==
  ASSUME IInv, NEW w \in [junk : BOOLEAN, data : Msgs \cup Junk, end : Nat],
         w.end = Len(stream) + Len(Bytes(w)), PeerSends(w)
  PROVE  IInv'
<1>1. Comes(w)
  BY DEF PeerSends, Comes
<1> QED  BY <1>1, StreamGrows

LEMMA PeerWriteIInv ==
  ASSUME IInv, NEW d \in Msgs, PeerWrite(d)
  PROVE  IInv'
<1> DEFINE w == [junk |-> FALSE, data |-> d, end |-> Len(stream) + Len(mkMsg(d))]
<1>1. d \in Seq(Byte)
  BY InputAssumption
<1>2. Len(stream) + Len(mkMsg(d)) \in Nat
  BY <1>1, MessageParts, BlockFields DEF IInv, PInv
<1>3. w \in [junk : BOOLEAN, data : Msgs \cup Junk, end : Nat]
      /\ w.end = Len(stream) + Len(Bytes(w))
  BY <1>2 DEF Bytes
<1> HIDE DEF w
<1>4. PeerSends(w)
  BY DEF PeerWrite, w
<1> QED  BY <1>3, <1>4, PeerSendsIInv

LEMMA PeerJunkIInv ==
  ASSUME IInv, NEW b \in Junk, PeerJunk(b)
  PROVE  IInv'
<1> DEFINE w == [junk |-> TRUE, data |-> b, end |-> Len(stream) + Len(b)]
<1>1. b \in Seq(Byte)
  BY InputAssumption
<1>2. Len(stream) + Len(b) \in Nat
  BY <1>1, BlockFields DEF IInv, PInv
<1>3. w \in [junk : BOOLEAN, data : Msgs \cup Junk, end : Nat]
      /\ w.end = Len(stream) + Len(Bytes(w))
  BY <1>2 DEF Bytes
<1> HIDE DEF w
<1>4. PeerSends(w)
  BY DEF PeerJunk, w
<1> QED  BY <1>3, <1>4, PeerSendsIInv

----------------------------------------------------------------------------
(* What recv puts together.                                                 *)

\* The guards of Recv.
CanRecv(n) == InRecv /\ n \in Nat /\ 1 <= n /\ n <= Space /\ n <= Len(stream) - recvd

\* The block continues with the next bytes of the stream.
LEMMA Received ==
  ASSUME PInv, NEW n, CanRecv(n)
  PROVE  /\ After(n) \in Seq(Byte)
         /\ Len(After(n)) = Len(block.bytes) + n
         /\ \A k \in 1..Len(block.bytes) : After(n)[k] = block.bytes[k]
         /\ \A k \in 1..Len(After(n)) :
              After(n)[k] = stream[recvd - Len(block.bytes) + k]
<1> DEFINE old == block.bytes
           new == SubSeq(stream, recvd + 1, recvd + n)
<1>1. /\ old \in Seq(Byte) /\ Len(old) \in Nat /\ n \in Nat /\ 1 <= n
      /\ recvd \in Nat /\ recvd + n <= Len(stream) /\ stream \in Seq(Byte)
      /\ Len(stream) \in Nat
  BY BlockFields DEF PInv, CanRecv
<1>2. /\ pc # "closed" /\ Len(old) <= recvd
      /\ \A k \in 1..Len(old) : old[k] = stream[recvd - Len(old) + k]
  BY DEF PInv, BlockOK, CanRecv, InRecv
<1> HIDE DEF old
<1>3. \A i \in (recvd + 1)..(recvd + n) : stream[i] \in Byte
  <2>1. \A i \in (recvd + 1)..(recvd + n) : i \in 1..Len(stream)
    BY <1>1
  <2> QED  BY <1>1, <2>1, ElementOfSeq
<1>4. /\ new \in Seq(Byte) /\ Len(new) = n
      /\ \A k \in 1..n : new[k] = stream[recvd + k]
  <2> DEFINE lo == recvd + 1
             hi == recvd + n
  <2>1. lo \in Int /\ hi \in Int /\ hi - lo + 1 = n /\ lo <= hi
    BY <1>1
  <2>2. \A k \in 1..n : lo + k - 1 = recvd + k
    BY <1>1
  <2>3. \A i \in lo..hi : stream[i] \in Byte
    BY <1>3
  <2> HIDE DEF lo, hi
  <2>4. /\ SubSeq(stream, lo, hi) \in Seq(Byte)
        /\ Len(SubSeq(stream, lo, hi)) = IF lo <= hi THEN hi - lo + 1 ELSE 0
        /\ \A k \in 1..(hi - lo + 1) : SubSeq(stream, lo, hi)[k] = stream[lo + k - 1]
    BY <2>1, <2>3, SubSeqProperties
  <2>5. new = SubSeq(stream, lo, hi)
    BY DEF lo, hi
  <2> HIDE DEF new
  <2> QED  BY <2>1, <2>2, <2>4, <2>5
<1> HIDE DEF new
<1>5. /\ old \o new \in Seq(Byte) /\ Len(old \o new) = Len(old) + n
      /\ \A k \in 1..(Len(old) + n) :
           (old \o new)[k] = IF k <= Len(old) THEN old[k] ELSE new[k - Len(old)]
  BY <1>1, <1>4, ConcatProperties
<1>6. ASSUME NEW k \in 1..(Len(old) + n)
      PROVE  (old \o new)[k] = stream[recvd - Len(old) + k]
  <2>1. CASE k <= Len(old)
    BY <1>1, <1>2, <1>5, <2>1
  <2>2. CASE ~(k <= Len(old))
    <3>1. k - Len(old) \in 1..n /\ recvd + (k - Len(old)) = recvd - Len(old) + k
      BY <1>1, <2>2
    <3>2. (old \o new)[k] = new[k - Len(old)]
      BY <1>5, <2>2
    <3> QED  BY <1>4, <3>1, <3>2
  <2> QED  BY <2>1, <2>2
<1>7. After(n) = old \o new
  BY DEF After, old, new
<1>8. \A k \in 1..Len(old) : (old \o new)[k] = old[k]
  BY <1>1, <1>5
<1> QED  BY <1>5, <1>6, <1>7, <1>8 DEF old

\* A block never holds more than one message: its size was that of the message
\* or, with the length unknown, is the least there is.
LEMMA NoMoreThanOne ==
  ASSUME PInv, NEW n, CanRecv(n)
  PROVE  /\ After(n) # <<>>
         /\ HasLen(After(n)) /\ HasLen(block.bytes)
              => MsgLen(After(n)) = block.size
         /\ ~HasLen(block.bytes) => block.size = MIN_PKG_SIZE
         /\ Len(After(n)) <= block.size
         /\ Len(After(n)) \in Nat
<1>1. /\ block.bytes \in Seq(Byte) /\ Len(block.bytes) \in Nat /\ n \in Nat /\ 1 <= n
      /\ block.size \in Nat /\ n <= block.size - Len(block.bytes)
  BY BlockFields DEF PInv, CanRecv, Space
<1>2. Len(After(n)) = Len(block.bytes) + n /\ After(n) \in Seq(Byte)
  BY Received
<1>3. Len(After(n)) <= block.size /\ Len(After(n)) \in Nat /\ Len(After(n)) # 0
  BY <1>1, <1>2
<1>4. After(n) # <<>>
  BY <1>3, EmptySeq
<1>5. block.size = IF HasLen(block.bytes) THEN MsgLen(block.bytes) ELSE MIN_PKG_SIZE
  BY DEF PInv, BlockOK, CanRecv, InRecv
<1>6. ASSUME HasLen(block.bytes) PROVE MsgLen(After(n)) = MsgLen(block.bytes)
  <2>1. 2 \in 1..Len(block.bytes) /\ 3 \in 1..Len(block.bytes)
    BY <1>1, <1>6 DEF HasLen, MIN_PKG_SIZE
  <2> QED  BY <2>1, Received DEF MsgLen
<1> QED  BY <1>3, <1>4, <1>5, <1>6

\* What is whole is one message.
LEMMA WholeIsOne ==
  ASSUME PInv, NEW n, CanRecv(n), Finished(After(n))
  PROVE  OneMessage(After(n))
<1> DEFINE m == After(n)
<1>1. /\ HasLen(m) /\ HeadOK(m) /\ m # <<>>
      /\ MsgLen(m) \in MIN_PKG_SIZE..Len(m)
  BY NoMoreThanOne DEF Finished
<1>2. m \in Seq(Byte) /\ MsgLen(m) \in Nat
  BY <1>1, Received, MsgLenInRange
<1>3. MsgLen(m) = Len(m)
  <2> HIDE DEF m
  <2>1. CASE HasLen(block.bytes)
    <3>1. MsgLen(m) = block.size /\ Len(m) <= block.size /\ Len(m) \in Nat
      BY <1>1, <2>1, NoMoreThanOne DEF m
    <3> QED  BY <1>1, <1>2, <3>1
  <2>2. CASE ~HasLen(block.bytes)
    <3>1. Len(m) <= MIN_PKG_SIZE /\ Len(m) \in Nat
      BY <2>2, NoMoreThanOne DEF m
    <3> QED  BY <1>1, <1>2, <3>1, Sizes
  <2> QED  BY <2>1, <2>2
<1> QED  BY <1>1, <1>3 DEF OneMessage, HeadOK

\* While the peer keeps to the protocol, there is a write that the bytes
\* received belong to.
LEMMA NextIsKnown ==
  ASSUME IInv, NEW n, CanRecv(n), Sound(Len(written))
  PROVE  Known(Len(queue) + 1)
<1>1. /\ Len(queue) <= Len(written)
      /\ Known(Len(queue)) => recvd - Len(block.bytes) = Start(Len(queue) + 1)
  BY DEF IInv, PInv, NothingElse, QueueOK, CanRecv, InRecv
<1>2. /\ Len(queue) \in Nat /\ Len(written) \in Nat /\ recvd \in Nat
      /\ Len(block.bytes) \in Nat /\ Len(stream) \in Nat
      /\ n \in Nat /\ 1 <= n /\ n <= Len(stream) - recvd
  BY BlockFields DEF IInv, PInv, CanRecv
<1>3. \A i \in Nat : i <= Len(written) => Sound(i)
  BY <1>2 DEF Sound
<1>4. Len(queue) # Len(written)
  <2> SUFFICES ASSUME Len(queue) = Len(written) PROVE FALSE
    OBVIOUS
  <2>1. Start(Len(queue) + 1) = Len(stream)
    BY DEF IInv, NothingElse
  <2>2. Known(Len(queue))
    BY <1>2, <1>3 DEF Known
  <2> QED  BY <1>1, <1>2, <2>1, <2>2
<1>5. Len(queue) + 1 \in Nat /\ Len(queue) + 1 <= Len(written)
  BY <1>1, <1>2, <1>4
<1> QED  BY <1>3, <1>5 DEF Known

\* The bytes in hand are the first ones of the next message written.
LEMMA BeginningOfNext ==
  ASSUME PInv, NEW n, CanRecv(n), Known(Len(queue) + 1)
  PROVE  LET d == written[Len(queue) + 1].data
         IN  /\ d \in Seq(Byte) /\ Len(d) + MIN_PKG_SIZE <= MAX_PKG_SIZE
             /\ Len(After(n)) <= Len(mkMsg(d))
             /\ \A k \in 1..Len(After(n)) : After(n)[k] = mkMsg(d)[k]
             /\ written[Len(queue) + 1].end
                  = recvd - Len(block.bytes) + Len(mkMsg(d))
<1> DEFINE next == Len(queue) + 1
           d == written[next].data
           m == After(n)
           whole == mkMsg(d)
<1>1. /\ next \in Nat /\ next <= Len(written) /\ Sound(next) /\ 1 <= next
      /\ Len(written) \in Nat /\ Len(queue) \in Nat
  BY BlockFields DEF PInv, Known
<1>2. ~written[next].junk /\ Fits(d)
  BY <1>1 DEF Sound
<1>3. d \in Seq(Byte)
  BY <1>1, WrittenFields DEF PInv
<1>4. Bytes(written[next]) = whole
  BY <1>2 DEF Bytes
<1>5. Known(Len(queue))
  BY <1>1 DEF Known, Sound
<1>6. recvd - Len(block.bytes) = Start(next)
  BY <1>5 DEF PInv, QueueOK, CanRecv, InRecv
<1> HIDE DEF whole, d, m
<1>7. /\ written[next].end = Start(next) + Len(whole)
      /\ \A k \in 1..Len(whole) : stream[Start(next) + k] = whole[k]
  BY <1>1, <1>4 DEF PInv, WrittenOK
<1>8. /\ whole \in Seq(Byte) /\ Len(whole) = Len(d) + MIN_PKG_SIZE
      /\ MsgLen(whole) = Len(whole)
      /\ Len(whole) \in Nat /\ MIN_PKG_SIZE <= Len(whole)
  <2>1. /\ whole \in Seq(Byte) /\ Len(whole) = Len(d) + MIN_PKG_SIZE
        /\ MsgLen(whole) = Len(whole)
    BY <1>2, <1>3, MessageParts, LengthInHead DEF whole, Fits
  <2> QED  BY <1>3, <2>1, Sizes
<1>9. /\ m \in Seq(Byte) /\ Len(m) \in Nat
      /\ \A k \in 1..Len(m) : m[k] = stream[Start(next) + k]
      /\ \A k \in 1..Len(block.bytes) : m[k] = block.bytes[k]
  BY <1>6, Received, NoMoreThanOne DEF m
<1>10. Len(m) <= Len(whole)
  <2>1. Len(m) <= block.size /\ (~HasLen(block.bytes) => block.size = MIN_PKG_SIZE)
    BY NoMoreThanOne DEF m
  <2>2. CASE ~HasLen(block.bytes)
    <3>1. Len(m) <= MIN_PKG_SIZE
      BY <2>1, <2>2
    <3> QED  BY <1>8, <1>9, <3>1, Sizes
  <2>3. CASE HasLen(block.bytes)
    <3>1. HasLen(m)
      <4>1. Len(m) = Len(block.bytes) + n /\ n \in Nat /\ Len(block.bytes) \in Nat
        BY Received, BlockFields DEF m, CanRecv, PInv
      <4> QED  BY <2>3, <4>1 DEF HasLen, MIN_PKG_SIZE
    <3>2. m[2] = whole[2] /\ m[3] = whole[3]
      <4>1. 2 \in 1..Len(m) /\ 3 \in 1..Len(m) /\ 2 \in 1..Len(whole) /\ 3 \in 1..Len(whole)
        BY <1>8, <1>9, <3>1 DEF HasLen, MIN_PKG_SIZE
      <4> QED  BY <1>7, <1>9, <4>1
    <3>3. MsgLen(m) = Len(whole)
      BY <1>8, <3>2 DEF MsgLen
    <3>4. MsgLen(m) = block.size
      BY <2>3, <3>1, NoMoreThanOne DEF m
    <3> QED  BY <2>1, <3>3, <3>4
  <2> QED  BY <2>2, <2>3
<1>11. \A k \in 1..Len(m) : m[k] = whole[k]
  <2>1. \A k \in 1..Len(m) : k \in 1..Len(whole)
    BY <1>8, <1>9, <1>10
  <2> QED  BY <1>7, <1>9, <2>1
<1>12. Len(d) + MIN_PKG_SIZE <= MAX_PKG_SIZE
  BY <1>2 DEF Fits
<1>13. written[next].end = recvd - Len(block.bytes) + Len(whole)
  BY <1>6, <1>7
<1> QED  BY <1>3, <1>10, <1>11, <1>12, <1>13 DEF whole, m, d

----------------------------------------------------------------------------
(* handle_input.                                                            *)

LEMMA PutMessagePInv ==
  ASSUME PInv, NEW n \in 1..Space, PutMessage(n)
  PROVE  PInv'
<1> DEFINE m == After(n)
<1>1. n \in Nat /\ 1 <= n
  BY BlockFields DEF PInv, Space
<1>2. CanRecv(n)
  BY <1>1 DEF CanRecv, PutMessage, Recv
<1>3. /\ recvd' = recvd + n /\ queue' = Append(queue, m) /\ block' = NewBlock
      /\ pc' = "wait" /\ UNCHANGED <<stream, written, ended, errno>>
  BY DEF PutMessage, Recv, peerVars
<1>4. m \in Seq(Byte) /\ OneMessage(m)
  BY <1>2, Received, WholeIsOne DEF PutMessage
<1>5. PICK put \in Nat : put = Len(queue)
  BY BlockFields DEF PInv
<1>6. PICK count \in Nat : count = Len(written)
  BY BlockFields DEF PInv
<1>7. /\ Known(put + 1) => m = mkMsg(written[put + 1].data)
      /\ Known(put + 1) => written[put + 1].end = recvd'
  <2> SUFFICES ASSUME Known(put + 1)
               PROVE  m = mkMsg(written[put + 1].data) /\ written[put + 1].end = recvd'
    OBVIOUS
  <2> DEFINE d == written[put + 1].data
  <2>1. /\ d \in Seq(Byte) /\ Len(d) + MIN_PKG_SIZE <= MAX_PKG_SIZE
        /\ Len(m) <= Len(mkMsg(d))
        /\ \A k \in 1..Len(m) : m[k] = mkMsg(d)[k]
        /\ written[put + 1].end = recvd - Len(block.bytes) + Len(mkMsg(d))
    BY <1>2, <1>5, BeginningOfNext
  <2> HIDE DEF d
  <2>2. mkMsg(d) \in Seq(Byte) /\ MsgLen(mkMsg(d)) = Len(mkMsg(d))
        /\ Len(mkMsg(d)) = Len(d) + MIN_PKG_SIZE
    BY <2>1, MessageParts, LengthInHead
  <2>3. MsgLen(m) = Len(m) /\ 2 \in 1..Len(m) /\ 3 \in 1..Len(m) /\ Len(m) \in Nat
    BY <1>4 DEF OneMessage, HasLen, MIN_PKG_SIZE
  <2>4. MsgLen(m) = MsgLen(mkMsg(d))
    BY <2>1, <2>3 DEF MsgLen
  <2>5. m = mkMsg(d)
    BY <1>4, <2>1, <2>2, <2>3, <2>4, SeqEqual
  <2>6. Len(m) = Len(block.bytes) + n
    BY <1>2, Received
  <2>7. written[put + 1].end = recvd + n
    BY <1>1, <2>1, <2>5, <2>6, BlockFields DEF PInv
  <2> QED  BY <1>3, <2>5, <2>7 DEF d
<1> HIDE DEF m
<1>8. /\ queue' \in Seq(Seq(Byte)) /\ Len(queue') = put + 1
      /\ \A i \in 1..put : queue'[i] = queue[i]
      /\ queue'[put + 1] = m
  <2>1. queue \in Seq(Seq(Byte))
    BY DEF PInv, TypeOK
  <2> QED  BY <1>3, <1>4, <1>5, <2>1, AppendProperties
<1>9. recvd' \in 0..Len(stream)
  BY <1>1, <1>2, <1>3, BlockFields DEF PInv, CanRecv
<1>10. TypeOK'
  BY <1>3, <1>8, <1>9, Sizes DEF PInv, TypeOK
<1>11. WrittenOK'
  BY <1>3 DEF PInv, WrittenOK, Start, Bytes
<1>12. BlockOK'
  <2>1. block'.bytes = <<>> /\ block'.size = MIN_PKG_SIZE /\ Len(block'.bytes) = 0
    BY <1>3 DEF NewBlock
  <2>2. 0 <= recvd'
    BY <1>9
  <2> QED  BY <2>1, <2>2 DEF BlockOK, HeadOK, HasLen, MIN_PKG_SIZE
<1>13. QueueOK'
  <2>1. \A i : (Known(i)' <=> Known(i)) /\ (Sound(i)' <=> Sound(i)) /\ Start(i)' = Start(i)
    BY <1>3 DEF Known, Sound, Start
  <2>2. ASSUME NEW i \in 1..(put + 1)
        PROVE  OneMessage(queue'[i]) /\ (Known(i) => queue'[i] = mkMsg(written[i].data))
    <3>1. i \in 1..put \/ i = put + 1
      OBVIOUS
    <3>2. CASE i \in 1..put
      BY <1>5, <1>8, <3>2 DEF PInv, QueueOK
    <3>3. CASE i = put + 1
      BY <1>4, <1>7, <1>8, <3>3
    <3> QED  BY <3>1, <3>2, <3>3
  <2>4. Known(put + 1) => recvd' - Len(block'.bytes) = Start(put + 2)
    <3>1. Start(put + 2) = written[put + 1].end
      <4>1. put + 2 # 1 /\ (put + 2) - 1 = put + 1
        OBVIOUS
      <4> QED  BY <4>1 DEF Start
    <3>2. Len(block'.bytes) = 0
      BY <1>3 DEF NewBlock
    <3>3. recvd' - 0 = recvd'
      BY <1>1, <1>3, BlockFields DEF PInv
    <3> QED  BY <1>7, <3>1, <3>2, <3>3
  <2>5. written' = written /\ Len(written') = count /\ (Sound(Len(written))' <=> Sound(count))
    BY <1>3, <1>6 DEF Sound
  <2>6. /\ Known(Len(queue))' <=> Known(put + 1)
        /\ Start(Len(queue) + 1)' = Start(put + 2)
    <3>1. Len(queue') = put + 1 /\ Len(queue') + 1 = put + 2
      BY <1>8
    <3> QED  BY <1>3, <3>1 DEF Known, Sound, Start
  <2>7. \A i \in 1..Len(queue') :
          OneMessage(queue'[i]) /\ (Known(i)' => queue'[i] = mkMsg(written'[i].data))
    BY <1>3, <1>8, <2>1, <2>2
  <2>9. Known(Len(queue))' => recvd' - Len(block.bytes)' = Start(Len(queue) + 1)'
    BY <2>4, <2>6
  <2> QED  BY <2>7, <2>9 DEF QueueOK, OneMessage
<1> QED  BY <1>10, <1>11, <1>12, <1>13 DEF PInv

LEMMA PutMessageIInv ==
  ASSUME IInv, NEW n \in 1..Space, PutMessage(n)
  PROVE  IInv'
<1>1. n \in Nat /\ 1 <= n
  BY BlockFields DEF IInv, PInv, Space
<1>2. CanRecv(n)
  BY <1>1 DEF CanRecv, PutMessage, Recv
<1>3. PInv'
  BY PutMessagePInv DEF IInv
<1>4. /\ queue' = Append(queue, After(n)) /\ UNCHANGED <<stream, written>>
      /\ Len(queue') = Len(queue) + 1
  <2>1. queue \in Seq(Seq(Byte)) /\ After(n) \in Seq(Byte)
    BY <1>2, Received DEF IInv, PInv, TypeOK
  <2> QED  BY <2>1, AppendProperties DEF PutMessage, Recv, peerVars
<1>5. Sound(Len(written)) => Len(queue') <= Len(written')
  BY <1>2, <1>4, NextIsKnown DEF Known
<1>6. NothingElse'
  BY <1>4, <1>5 DEF IInv, NothingElse, Sound, Start
<1> QED  BY <1>3, <1>6 DEF IInv

\* A block that is not full is read on into; it is never full.
LEMMA KeepReadingPInv ==
  ASSUME PInv, NEW n \in 1..Space, KeepReading(n)
  PROVE  PInv' /\ pc' = "again"
<1> DEFINE m == After(n)
           size == BlockSize(m)
<1>1. n \in Nat /\ 1 <= n
  BY BlockFields DEF PInv, Space
<1>2. CanRecv(n)
  BY <1>1 DEF CanRecv, KeepReading, Recv
<1>3. /\ recvd' = recvd + n /\ block' = [size |-> size, bytes |-> m]
      /\ pc' = IF Len(m) = size THEN "closed" ELSE "again"
      /\ ~Finished(m) /\ ~Invalid(m)
      /\ UNCHANGED <<stream, written, ended, errno, queue>>
  BY DEF KeepReading, Recv, peerVars
<1>4. /\ m \in Seq(Byte) /\ Len(m) = Len(block.bytes) + n /\ Len(m) \in Nat
      /\ \A k \in 1..Len(m) : m[k] = stream[recvd - Len(block.bytes) + k]
  BY <1>2, Received, NoMoreThanOne
<1>5. HasLen(m) => MsgLen(m) \in Nat /\ MsgLen(m) <= MAX_PKG_SIZE
  BY <1>4, MsgLenInRange
<1>6. HeadOK(m) /\ (HasLen(m) => MIN_PKG_SIZE <= MsgLen(m) /\ Len(m) < MsgLen(m))
  <2> HIDE DEF m, size
  <2>1. HeadOK(m)
    BY <1>3 DEF Invalid
  <2>2. HasLen(m) => ~(MsgLen(m) < MIN_PKG_SIZE)
    BY <1>3 DEF Invalid
  <2>3. HasLen(m) => MsgLen(m) \notin MIN_PKG_SIZE..Len(m)
    BY <1>3, <2>1 DEF Invalid, Finished
  <2> QED  BY <1>4, <1>5, <2>1, <2>2, <2>3, Sizes
<1>7. /\ size = IF HasLen(m) THEN MsgLen(m) ELSE MIN_PKG_SIZE
      /\ Len(m) < size
  <2>1. /\ Len(m) <= block.size /\ block.size \in Nat
        /\ ~HasLen(block.bytes) => block.size = MIN_PKG_SIZE
        /\ HasLen(m) /\ HasLen(block.bytes) => MsgLen(m) = block.size
    BY <1>2, NoMoreThanOne, BlockFields DEF PInv
  <2>2. HasLen(block.bytes) => HasLen(m)
    BY <1>1, <1>4, BlockFields DEF HasLen, MIN_PKG_SIZE, PInv
  <2> HIDE DEF m
  <2>3. CASE ~HasLen(m)
    <3>1. size = block.size /\ block.size = MIN_PKG_SIZE
      BY <2>1, <2>2, <2>3 DEF BlockSize
    <3>2. Len(m) < MIN_PKG_SIZE
      BY <1>4, <2>3, Sizes DEF HasLen
    <3> QED  BY <2>3, <3>1, <3>2
  <2>4. CASE HasLen(m)
    <3>1. size = MsgLen(m)
      BY <1>4, <1>5, <1>6, <2>1, <2>4, Sizes DEF BlockSize
    <3> QED  BY <1>6, <2>4, <3>1
  <2> QED  BY <2>3, <2>4
<1>8. size \in Nat /\ MIN_PKG_SIZE <= size /\ size <= MAX_PKG_SIZE
  BY <1>5, <1>6, <1>7, Sizes
<1> HIDE DEF m, size
<1>9. pc' = "again"
  BY <1>3, <1>4, <1>7, <1>8
<1>10. recvd' \in 0..Len(stream)
  BY <1>1, <1>2, <1>3, BlockFields DEF PInv, CanRecv
<1>11. block'.bytes = m /\ block'.size = size
  BY <1>3
<1>12. block' \in [size : MIN_PKG_SIZE..MAX_PKG_SIZE, bytes : Seq(Byte)]
  <2>1. size \in MIN_PKG_SIZE..MAX_PKG_SIZE
    BY <1>8, Sizes
  <2> QED  BY <1>3, <1>4, <2>1
<1>13. TypeOK'
  BY <1>3, <1>9, <1>10, <1>12 DEF PInv, TypeOK
<1>14. WrittenOK'
  BY <1>3 DEF PInv, WrittenOK, Start, Bytes
<1>15. recvd' - Len(m) = recvd - Len(block.bytes) /\ Len(m) <= recvd'
  <2>1. Len(block.bytes) <= recvd
    BY <1>2 DEF PInv, BlockOK, CanRecv, InRecv
  <2> QED  BY <1>1, <1>3, <1>4, <2>1, BlockFields DEF PInv
<1>16. BlockOK'
  BY <1>3, <1>4, <1>6, <1>7, <1>11, <1>15 DEF BlockOK
<1>17. QueueOK'
  <2>1. /\ \A i \in 1..Len(queue) : OneMessage(queue[i])
        /\ \A i \in 1..Len(queue) : Known(i) => queue[i] = mkMsg(written[i].data)
        /\ Known(Len(queue)) => recvd - Len(block.bytes) = Start(Len(queue) + 1)
    BY <1>2 DEF PInv, QueueOK, CanRecv, InRecv
  <2> QED  BY <1>3, <1>11, <1>15, <2>1 DEF QueueOK, OneMessage, Known, Sound, Start
<1> QED  BY <1>9, <1>13, <1>14, <1>16, <1>17 DEF PInv

LEMMA NothingElseStays ==
  ASSUME NothingElse, UNCHANGED <<stream, written, queue>>
  PROVE  NothingElse'
BY DEF NothingElse, Sound, Start

LEMMA KeepReadingIInv ==
  ASSUME IInv, NEW n \in 1..Space, KeepReading(n)
  PROVE  IInv' /\ pc' = "again"
<1>1. UNCHANGED <<stream, written, queue>>
  BY DEF KeepReading, Recv, peerVars
<1> QED  BY <1>1, KeepReadingPInv, NothingElseStays DEF IInv

\* Steps that touch neither stream nor block nor queue.
LEMMA QuietPInv ==
  ASSUME PInv, UNCHANGED <<stream, written, recvd, block, queue>>,
         ended' \in BOOLEAN, errno' \in {"ETIME", "other"},
         pc' \in {"wait", "first", "again", "closed"},
         pc = "closed" => pc' = "closed"
  PROVE  PInv'
<1>1. TypeOK'
  BY DEF PInv, TypeOK
<1>2. WrittenOK'
  BY DEF PInv, WrittenOK, Start, Bytes
<1>3. BlockOK'
  BY DEF PInv, BlockOK
<1>4. QueueOK'
  BY DEF PInv, QueueOK, OneMessage, Known, Sound, Start
<1> QED  BY <1>1, <1>2, <1>3, <1>4 DEF PInv

\* What follows the bytes received may be replaced, as long as the first c writes
\* are there, and the writes after them disregarded.
LEMMA OtherStream ==
  ASSUME PInv, NEW c \in 0..Len(written),
         stream' \in Seq(Byte), recvd <= Len(stream'),
         \A k \in 1..recvd : stream'[k] = stream[k],
         written' = SubSeq(written, 1, c),
         \A i \in 1..c :
           /\ written[i].end <= Len(stream')
           /\ \A k \in 1..Len(Bytes(written[i])) :
                stream'[Start(i) + k] = Bytes(written[i])[k],
         UNCHANGED <<recvd, block, pc, errno, queue>>, ended' \in BOOLEAN
  PROVE  PInv'
<1> DEFINE Peer == [junk : BOOLEAN, data : Msgs \cup Junk, end : Nat]
<1>1. /\ written \in Seq(Peer) /\ c \in Nat /\ c <= Len(written) /\ Len(written) \in Nat
      /\ recvd \in Nat /\ Len(stream') \in Nat /\ Len(queue) \in Nat
  BY BlockFields DEF PInv, TypeOK
<1> HIDE DEF Peer
<1>2. written' \in Seq(Peer) /\ Len(written') = c /\ \A i \in 1..c : written'[i] = written[i]
  <2>1. \A i \in 1..c : written[i] \in Peer
    BY <1>1, ElementOfSeq
  <2>2. /\ written' \in Seq(Peer)
        /\ Len(written') = IF 1 <= c THEN c - 1 + 1 ELSE 0
        /\ \A i \in 1..(c - 1 + 1) : written'[i] = written[1 + i - 1]
    BY <1>1, <2>1, SubSeqProperties
  <2>3. \A i \in 1..c : i \in 1..(c - 1 + 1) /\ 1 + i - 1 = i
    BY <1>1
  <2>4. Len(written') = c
    BY <1>1, <2>2
  <2> QED  BY <2>2, <2>3, <2>4
<1>3. TypeOK'
  <2>1. recvd' \in 0..Len(stream')
    BY <1>1
  <2> QED  BY <1>2, <2>1 DEF PInv, TypeOK, Peer
<1>4. \A i \in 1..(c + 1) : Start(i)' = Start(i)
  <2> SUFFICES ASSUME NEW i \in 1..(c + 1) PROVE Start(i)' = Start(i)
    OBVIOUS
  <2>1. i # 1 => i - 1 \in 1..c
    BY <1>1
  <2> QED  BY <1>2, <2>1 DEF Start
<1>5. WrittenOK'
  <2>1. ASSUME NEW i \in 1..c
        PROVE  /\ written'[i].end = Start(i)' + Len(Bytes(written'[i]))
               /\ written'[i].end <= Len(stream')
               /\ \A k \in 1..Len(Bytes(written'[i])) :
                    stream'[Start(i)' + k] = Bytes(written'[i])[k]
    <3>1. written[i].end = Start(i) + Len(Bytes(written[i]))
      BY <1>1 DEF PInv, WrittenOK
    <3>2. written'[i] = written[i] /\ Start(i)' = Start(i)
      BY <1>1, <1>2, <1>4
    <3> QED  BY <3>1, <3>2
  <2> QED  BY <1>2, <2>1 DEF WrittenOK, Bytes
<1>6. BlockOK'
  <2>1. block.bytes \in Seq(Byte) /\ Len(block.bytes) \in Nat
    BY BlockFields DEF PInv
  <2>2. Len(block.bytes) <= recvd
          => \A k \in 1..Len(block.bytes) : recvd - Len(block.bytes) + k \in 1..recvd
    BY <1>1, <2>1
  <2> QED  BY <2>2 DEF PInv, BlockOK
<1>7. QueueOK'
  <2>1. ASSUME NEW i \in Nat, Known(i)' PROVE Known(i) /\ i <= c
    <3>1. i <= c /\ \A j \in 1..i : ~written'[j].junk /\ Fits(written'[j].data)
      BY <1>2, <2>1 DEF Known, Sound, Fits
    <3>2. \A j \in 1..i : written'[j] = written[j]
      BY <1>1, <1>2, <3>1
    <3> QED  BY <1>1, <3>1, <3>2 DEF Known, Sound
  <2>2. ASSUME NEW i \in 1..Len(queue), Known(i)' PROVE queue[i] = mkMsg(written'[i].data)
    <3>1. Known(i) /\ i <= c /\ i \in 1..c
      BY <1>1, <2>1, <2>2
    <3> QED  BY <1>2, <3>1 DEF PInv, QueueOK
  <2>3. ASSUME pc # "closed", Known(Len(queue))'
        PROVE  recvd - Len(block.bytes) = Start(Len(queue) + 1)'
    <3>1. Known(Len(queue)) /\ Len(queue) + 1 \in 1..(c + 1)
      <4>1. Known(Len(queue)) /\ Len(queue) <= c
        <5>1. Known(Len(queue))' <=> \E i \in Nat : i = Len(queue) /\ Known(i)'
          BY <1>1 DEF Known, Sound, Fits
        <5> QED  BY <2>1, <2>3, <5>1
      <4> QED  BY <1>1, <4>1
    <3>2. recvd - Len(block.bytes) = Start(Len(queue) + 1)
      BY <2>3, <3>1 DEF PInv, QueueOK
    <3>3. PICK j \in 1..(c + 1) : j = Len(queue) + 1
      BY <3>1
    <3>4. Start(j)' = Start(Len(queue) + 1)'
      BY <3>3 DEF Start
    <3> QED  BY <1>4, <3>2, <3>3, <3>4
  <2>4. \A i \in 1..Len(queue) : OneMessage(queue[i])
    BY DEF PInv, QueueOK
  <2> QED  BY <2>2, <2>3, <2>4 DEF QueueOK, OneMessage
<1> QED  BY <1>3, <1>5, <1>6, <1>7 DEF PInv

LEMMA RefuseDataPInv ==
  ASSUME PInv, NEW n \in 1..Space, RefuseData(n)
  PROVE  PInv'
<1>1. /\ recvd' = recvd + n /\ pc' = "closed" /\ n <= Len(stream) - recvd
      /\ UNCHANGED <<stream, written, ended, errno, block, queue>>
  BY DEF RefuseData, Recv, peerVars
<1>2. recvd' \in 0..Len(stream)
  BY <1>1, BlockFields DEF PInv, Space
<1>3. TypeOK'
  BY <1>1, <1>2 DEF PInv, TypeOK
<1>4. WrittenOK'
  BY <1>1 DEF PInv, WrittenOK, Start, Bytes
<1>5. BlockOK'
  BY <1>1 DEF BlockOK
<1>6. QueueOK'
  BY <1>1 DEF PInv, QueueOK, OneMessage, Known, Sound, Start
<1> QED  BY <1>3, <1>4, <1>5, <1>6 DEF PInv

LEMMA QuietIInv ==
  ASSUME IInv, UNCHANGED <<stream, written, recvd, block, queue>>,
         ended' \in BOOLEAN, errno' \in {"ETIME", "other"},
         pc' \in {"wait", "first", "again", "closed"},
         pc = "closed" => pc' = "closed"
  PROVE  IInv'
BY QuietPInv, NothingElseStays DEF IInv

LEMMA RefuseDataIInv ==
  ASSUME IInv, NEW n \in 1..Space, RefuseData(n)
  PROVE  IInv'
<1>1. UNCHANGED <<stream, written, queue>>
  BY DEF RefuseData, Recv, peerVars
<1> QED  BY <1>1, RefuseDataPInv, NothingElseStays DEF IInv

\* No beginning of a message that fits is refused.
LEMMA SoundNotRefused ==
  ASSUME IInv, NEW n \in 1..Space, RefuseData(n)
  PROVE  ~Sound(Len(written))
<1> SUFFICES ASSUME Sound(Len(written)) PROVE FALSE
  OBVIOUS
<1> DEFINE d == written[Len(queue) + 1].data
           m == After(n)
           whole == mkMsg(d)
<1>1. n \in Nat /\ 1 <= n
  BY BlockFields DEF IInv, PInv, Space
<1>2. CanRecv(n)
  BY <1>1 DEF CanRecv, RefuseData, Recv
<1>3. /\ d \in Seq(Byte) /\ Len(d) + MIN_PKG_SIZE <= MAX_PKG_SIZE
      /\ Len(m) <= Len(whole)
      /\ \A k \in 1..Len(m) : m[k] = whole[k]
  BY <1>2, NextIsKnown, BeginningOfNext DEF IInv
<1> HIDE DEF d
<1>4. /\ whole[1] = PKG_HEAD /\ whole[Len(whole)] = PKG_TAIL
      /\ MsgLen(whole) = Len(whole)
      /\ Len(whole) = Len(d) + MIN_PKG_SIZE /\ Len(d) \in Nat
  BY <1>3, MessageParts, LengthInHead
<1>5. Invalid(m) /\ m # <<>> /\ Len(m) \in Nat /\ m \in Seq(Byte)
  BY <1>2, NoMoreThanOne, Received DEF RefuseData, IInv
<1> HIDE DEF whole, m
<1>6. HeadOK(m)
  <2>1. 1 \in 1..Len(m)
    BY <1>5, EmptySeq
  <2> QED  BY <1>3, <1>4, <2>1 DEF HeadOK
<1>7. HasLen(m) => MsgLen(m) = Len(whole)
  <2>1. HasLen(m) => 2 \in 1..Len(m) /\ 3 \in 1..Len(m)
    BY <1>5 DEF HasLen, MIN_PKG_SIZE
  <2> QED  BY <1>3, <1>4, <2>1 DEF MsgLen
<1>8. HasLen(m) /\ MsgLen(m) \in MIN_PKG_SIZE..Len(m)
      => m[MsgLen(m)] = PKG_TAIL
  <2> SUFFICES ASSUME HasLen(m), MsgLen(m) \in MIN_PKG_SIZE..Len(m)
               PROVE  m[MsgLen(m)] = PKG_TAIL
    OBVIOUS
  <2>1. MsgLen(m) = Len(m) /\ Len(m) = Len(whole) /\ Len(m) \in 1..Len(m)
    BY <1>3, <1>4, <1>5, <1>7, Sizes DEF MIN_PKG_SIZE
  <2> QED  BY <1>3, <1>4, <2>1
<1>9. HasLen(m) => ~(MsgLen(m) < MIN_PKG_SIZE)
  BY <1>4, <1>7, Sizes
<1> QED  BY <1>5, <1>6, <1>8, <1>9 DEF Invalid

LEMMA NextIInv ==
  ASSUME IInv, [Next]_vars
  PROVE  IInv'
<1>0. /\ ended \in BOOLEAN /\ errno \in {"ETIME", "other"}
      /\ pc \in {"wait", "first", "again", "closed"}
  BY DEF IInv, PInv, TypeOK
<1>1. CASE UNCHANGED vars
  BY <1>0, <1>1, QuietIInv DEF vars
<1>2. ASSUME NEW d \in Msgs, PeerWrite(d) PROVE IInv'
  BY <1>2, PeerWriteIInv
<1>3. ASSUME NEW b \in Junk, PeerJunk(b) PROVE IInv'
  BY <1>3, PeerJunkIInv
<1>4. CASE PeerEnds
  BY <1>0, <1>4, QuietIInv DEF PeerEnds
<1>5. CASE HandleInput
  BY <1>0, <1>5, QuietIInv DEF HandleInput, peerVars
<1>6. CASE RecvSome
  BY <1>6, PutMessageIInv, RefuseDataIInv, KeepReadingIInv DEF RecvSome
<1>7. CASE TimedOut
  BY <1>0, <1>7, QuietIInv DEF TimedOut, peerVars
<1>8. CASE EndOfStream
  BY <1>0, <1>8, QuietIInv DEF EndOfStream, InRecv, peerVars
<1>9. CASE RecvFails
  BY <1>0, <1>9, QuietIInv DEF RecvFails, peerVars
<1>10. CASE OtherHandler
  BY <1>0, <1>10, QuietIInv DEF OtherHandler, peerVars
<1> QED
  BY <1>1, <1>2, <1>3, <1>4, <1>5, <1>6, <1>7, <1>8, <1>9, <1>10 DEF Next, Receiver

----------------------------------------------------------------------------
(* The theorems.                                                            *)

\* The inductive invariant holds in every reachable state.
THEOREM FramingInvariant == Spec => []IInv
  BY InitIInv, NextIInv, PTL DEF Spec

\* Stream, block and queue have the declared types: no block is smaller than
\* the least message or greater than the greatest (dasvchandler.cpp:57).
THEOREM FramingTyping == Spec => []TypeOK
  BY FramingInvariant, PTL DEF IInv, PInv

\* The messages of a peer that keeps to the protocol come out as they went in,
\* for every cut of the stream into fragments (dasvchandler.cpp:45).
THEOREM Intact == Spec => []MessagesIntact
<1>1. IInv => MessagesIntact
  <2> SUFFICES ASSUME IInv, NEW i \in DOMAIN queue, i <= Len(written), Sound(i)
               PROVE  getMsgData(queue[i]) = written[i].data
    BY DEF MessagesIntact
  <2>1. i \in 1..Len(queue) /\ i \in 1..Len(written)
    BY BlockFields DEF IInv, PInv, TypeOK
  <2>2. queue[i] = mkMsg(written[i].data)
    BY <2>1 DEF IInv, PInv, QueueOK, Known
  <2>3. written[i].data \in Seq(Byte)
    BY <2>1, WrittenFields DEF IInv, PInv
  <2>4. Len(written[i].data) + MIN_PKG_SIZE <= MAX_PKG_SIZE
    BY <2>1 DEF Sound, Fits
  <2> QED  BY <2>2, <2>3, <2>4, RoundTrip
<1> QED  BY <1>1, FramingInvariant, PTL

\* A block that is put holds one message, whatever the peer sends
\* (dasvchandler.cpp:66), so getDataLen is never -1 (parsepkg.h:94).
THEOREM OneMessageABlock == Spec => []BlockIsMessage
<1>1. IInv => BlockIsMessage
  <2> SUFFICES ASSUME IInv, NEW i \in DOMAIN queue
               PROVE  /\ Len(queue[i]) = MsgLen(queue[i])
                      /\ getDataLen(queue[i]) = Len(queue[i]) - MIN_PKG_SIZE
    BY DEF BlockIsMessage
  <2>1. i \in 1..Len(queue)
    BY DEF IInv, PInv, TypeOK
  <2>2. OneMessage(queue[i])
    BY <2>1 DEF IInv, PInv, QueueOK
  <2> QED  BY <2>2 DEF OneMessage, getDataLen
<1> QED  BY <1>1, FramingInvariant, PTL

\* What is read on into a block of its length always leaves room, whatever the peer
\* sends: the test for a full block (dasvchandler.cpp:104) never closes a connection.
THEOREM BlockLargeEnough == Spec => ClosedOnlyIfInvalid
<1>1. ASSUME IInv, [Next]_vars, recvd' # recvd, pc' = "closed"
      PROVE  Invalid(block.bytes \o SubSeq(stream, recvd + 1, recvd'))
  <2>1. RecvSome
    BY <1>1 DEF Next, Receiver, vars, peerVars, PeerWrite, PeerJunk, PeerSends, PeerEnds,
                HandleInput, TimedOut, EndOfStream, RecvFails, OtherHandler
  <2>2. PICK n \in 1..Space : PutMessage(n) \/ RefuseData(n) \/ KeepReading(n)
    BY <2>1 DEF RecvSome
  <2>3. RefuseData(n)
    BY <1>1, <2>2, KeepReadingIInv DEF PutMessage
  <2> QED  BY <2>3 DEF RefuseData, Recv, After
<1>2. IInv /\ [Next]_vars
        => [recvd' # recvd /\ pc' = "closed"
              => Invalid(block.bytes \o SubSeq(stream, recvd + 1, recvd'))]_vars
  BY <1>1
<1> QED  BY <1>2, FramingInvariant, PTL DEF Spec, ClosedOnlyIfInvalid

\* The bytes of a peer that keeps to the protocol never close the connection
\* (dasvchandler.cpp:77).
THEOREM NeverRefused == Spec => NotRefused
<1>1. ASSUME IInv, [Next]_vars, recvd' # recvd, Sound(Len(written))
      PROVE  pc' # "closed"
  <2>1. RecvSome
    BY <1>1 DEF Next, Receiver, vars, peerVars, PeerWrite, PeerJunk, PeerSends, PeerEnds,
                HandleInput, TimedOut, EndOfStream, RecvFails, OtherHandler
  <2>2. PICK n \in 1..Space : PutMessage(n) \/ RefuseData(n) \/ KeepReading(n)
    BY <2>1 DEF RecvSome
  <2>3. CASE PutMessage(n)
    BY <2>3 DEF PutMessage
  <2>4. CASE KeepReading(n)
    BY <1>1, <2>4, KeepReadingIInv
  <2> QED  BY <1>1, <2>2, <2>3, <2>4, SoundNotRefused
<1>2. IInv /\ [Next]_vars => [recvd' # recvd /\ Sound(Len(written)) => pc' # "closed"]_vars
  BY <1>1
<1> QED  BY <1>2, FramingInvariant, PTL DEF Spec, NotRefused

=============================================================================
