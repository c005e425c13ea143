--------------------------- MODULE ParsePkgProofs ---------------------------
(***************************************************************************)
(* What ParsePkg's format guarantees for every size of a byte: a message   *)
(* that fits in its length is read back as it was made.                    *)
(***************************************************************************)
EXTENDS ParsePkg, SequenceTheorems, TLAPS

----------------------------------------------------------------------------
(* Numbers of two digits.                                                   *)

LEMMA BaseIsNat == Base \in Nat /\ Base > 3
BY ByteAssumption DEF PKG_TAIL

LEMMA TimesMonotone ==
  ASSUME NEW a \in Nat, NEW b \in Nat, NEW c \in Nat, a <= b
  PROVE  a * c <= b * c
OBVIOUS

\* There is room for the bytes around the data.
LEMMA SquareOfBase == Base * Base \in Nat /\ Base * Base > 3 * Base /\ Base * Base > 9
BY BaseIsNat

LEMMA Digits ==
  ASSUME NEW n \in Nat
  PROVE  /\ n \div Base \in Nat /\ n % Base \in Byte
         /\ n = (n \div Base) * Base + (n % Base)
BY BaseIsNat DEF Byte

\* A length that fits has a byte for a high digit.
LEMMA HighDigit ==
  ASSUME NEW n \in Nat, n < Base * Base
  PROVE  n \div Base \in Byte
<1>1. n \div Base \in Nat /\ n % Base \in Byte /\ n = (n \div Base) * Base + (n % Base)
  BY Digits
<1>2. CASE n \div Base >= Base
  <2>1. (n \div Base) * Base >= Base * Base
    BY <1>1, <1>2, BaseIsNat, TimesMonotone
  <2>2. (n \div Base) * Base \in Nat
    BY <1>1, BaseIsNat
  <2>3. n >= Base * Base
    BY <1>1, <2>1, <2>2, BaseIsNat DEF Byte
  <2> QED  BY <2>3, BaseIsNat
<1> QED  BY <1>1, <1>2, BaseIsNat DEF Byte

LEMMA Wraps ==
  ASSUME NEW n \in Nat
  PROVE  /\ n % (Base * Base) \in Nat
         /\ n % (Base * Base) < Base * Base
         /\ n < Base * Base => n % (Base * Base) = n
<1> DEFINE square == Base * Base
<1>1. square \in Nat /\ square > 0
  BY SquareOfBase
<1> HIDE DEF square
<1>2. n % square \in Nat /\ n % square < square /\ (n < square => n % square = n)
  BY <1>1
<1> QED  BY <1>2 DEF square

LEMMA TwoDigits ==
  ASSUME NEW a \in Byte, NEW b \in Byte
  PROVE  a * Base + b \in Nat /\ a * Base + b <= MAX_PKG_SIZE
<1>1. a \in Nat /\ b \in Nat /\ a <= Base - 1 /\ b <= Base - 1
  BY BaseIsNat DEF Byte
<1>2. a * Base <= (Base - 1) * Base
  BY <1>1, BaseIsNat, TimesMonotone
<1>3. (Base - 1) * Base = Base * Base - Base
  BY BaseIsNat
<1>4. a * Base \in Nat /\ Base * Base \in Nat
  BY <1>1, BaseIsNat
<1> QED  BY <1>1, <1>2, <1>3, <1>4, BaseIsNat DEF MAX_PKG_SIZE

\* No length that can be read exceeds the greatest block.
LEMMA MsgLenInRange ==
  ASSUME NEW m \in Seq(Byte), HasLen(m)
  PROVE  MsgLen(m) \in Nat /\ MsgLen(m) <= MAX_PKG_SIZE
<1>1. m[2] \in Byte /\ m[3] \in Byte
  BY DEF HasLen, MIN_PKG_SIZE
<1> QED  BY <1>1, TwoDigits DEF MsgLen

----------------------------------------------------------------------------
(* Messages.                                                                *)

\* Where the parts of a message are.
LEMMA MessageParts ==
  ASSUME NEW d \in Seq(Byte)
  PROVE  LET len == (Len(d) + MIN_PKG_SIZE) % (Base * Base)
         IN  /\ mkMsg(d) \in Seq(Byte)
             /\ Len(mkMsg(d)) = Len(d) + MIN_PKG_SIZE
             /\ mkMsg(d)[1] = PKG_HEAD
             /\ mkMsg(d)[2] = len \div Base
             /\ mkMsg(d)[3] = len % Base
             /\ \A k \in 1..Len(d) : mkMsg(d)[k + 3] = d[k]
             /\ mkMsg(d)[Len(mkMsg(d))] = PKG_TAIL
<1> DEFINE len == (Len(d) + MIN_PKG_SIZE) % (Base * Base)
           hi == len \div Base
           lo == len % Base
           front == <<PKG_HEAD, hi, lo>>
           back == <<PKG_TAIL>>
<1>1. Len(d) + MIN_PKG_SIZE \in Nat
  BY DEF MIN_PKG_SIZE
<1>2. len \in Nat /\ len < Base * Base
  BY <1>1, Wraps
<1>3. hi \in Byte /\ lo \in Byte
  BY <1>2, HighDigit, Digits
<1>4. PKG_HEAD \in Byte /\ PKG_TAIL \in Byte
  BY BaseIsNat DEF PKG_HEAD, PKG_TAIL, Byte
<1>5. mkMsg(d) = front \o d \o back
  BY DEF mkMsg
<1> HIDE DEF hi, lo
<1>6. /\ front \in Seq(Byte) /\ Len(front) = 3
      /\ front[1] = PKG_HEAD /\ front[2] = hi /\ front[3] = lo
      /\ back \in Seq(Byte) /\ Len(back) = 1 /\ back[1] = PKG_TAIL
  BY <1>3, <1>4
<1> HIDE DEF front, back
<1>7. /\ front \o d \in Seq(Byte) /\ Len(front \o d) = Len(d) + 3
      /\ \A k \in 1..(Len(d) + 3) :
           (front \o d)[k] = IF k <= 3 THEN front[k] ELSE d[k - 3]
  <2>1. \A k \in 1..(Len(front) + Len(d)) :
          (front \o d)[k] = IF k <= Len(front) THEN front[k] ELSE d[k - Len(front)]
    BY <1>6, ConcatProperties
  <2>2. Len(front) + Len(d) = Len(d) + 3
    BY <1>6
  <2>3. front \o d \in Seq(Byte) /\ Len(front \o d) = Len(front) + Len(d)
    BY <1>6, ConcatProperties
  <2> QED  BY <1>6, <2>1, <2>2, <2>3
<1>8. /\ mkMsg(d) \in Seq(Byte) /\ Len(mkMsg(d)) = Len(d) + 4
      /\ \A k \in 1..(Len(d) + 4) :
           mkMsg(d)[k] = IF k <= Len(d) + 3 THEN (front \o d)[k] ELSE back[k - (Len(d) + 3)]
  <2> DEFINE head == front \o d
  <2> HIDE DEF head
  <2>1. head \in Seq(Byte) /\ Len(head) = Len(d) + 3 /\ mkMsg(d) = head \o back
    BY <1>5, <1>7 DEF head
  <2>2. \A k \in 1..(Len(head) + Len(back)) :
          (head \o back)[k] = IF k <= Len(head) THEN head[k] ELSE back[k - Len(head)]
    BY <1>6, <2>1, ConcatProperties
  <2>3. mkMsg(d) \in Seq(Byte) /\ Len(mkMsg(d)) = Len(head) + Len(back)
    BY <1>6, <2>1, ConcatProperties
  <2>4. Len(head) + Len(back) = Len(d) + 4
    BY <1>6, <2>1
  <2> QED  BY <2>1, <2>2, <2>3, <2>4 DEF head
<1>9. \A k \in 1..Len(d) : mkMsg(d)[k + 3] = d[k]
  <2> SUFFICES ASSUME NEW k \in 1..Len(d) PROVE mkMsg(d)[k + 3] = d[k]
    OBVIOUS
  <2>1. k + 3 \in 1..(Len(d) + 3) /\ k + 3 > 3 /\ (k + 3) - 3 = k
    OBVIOUS
  <2> QED  BY <1>7, <1>8, <2>1
<1>10. Len(d) \in Nat
  OBVIOUS
<1>11. /\ mkMsg(d)[1] = front[1] /\ mkMsg(d)[2] = front[2] /\ mkMsg(d)[3] = front[3]
       /\ mkMsg(d)[Len(d) + 4] = back[1]
  BY <1>7, <1>8, <1>10
<1> QED  BY <1>6, <1>8, <1>9, <1>11 DEF hi, lo, MIN_PKG_SIZE

\* The length a message that fits has in its head is its own.
LEMMA LengthInHead ==
  ASSUME NEW d \in Seq(Byte), Len(d) + MIN_PKG_SIZE <= MAX_PKG_SIZE
  PROVE  MsgLen(mkMsg(d)) = Len(mkMsg(d))
<1> DEFINE len == Len(d) + MIN_PKG_SIZE
<1>1. len \in Nat /\ len < Base * Base
  BY SquareOfBase DEF MAX_PKG_SIZE, MIN_PKG_SIZE
<1>2. len % (Base * Base) = len
  BY <1>1, Wraps
<1>3. mkMsg(d)[2] = len \div Base /\ mkMsg(d)[3] = len % Base /\ Len(mkMsg(d)) = len
  BY <1>2, MessageParts
<1>4. len = (len \div Base) * Base + (len % Base)
  BY <1>1, Digits
<1> QED  BY <1>3, <1>4 DEF MsgLen

\* A message whose length fits (parsepkg.h:78) is whole for isValidAndFinish,
\* is not refused, and getMsgData gives its data back.
THEOREM RoundTrip ==
  ASSUME NEW d \in Seq(Byte), Len(d) + MIN_PKG_SIZE <= MAX_PKG_SIZE
  PROVE  /\ Finished(mkMsg(d))
         /\ ~Invalid(mkMsg(d))
         /\ getMsgData(mkMsg(d)) = d
<1> DEFINE m == mkMsg(d)
<1>1. /\ m \in Seq(Byte) /\ Len(m) = Len(d) + MIN_PKG_SIZE /\ m[1] = PKG_HEAD
      /\ m[Len(m)] = PKG_TAIL /\ MsgLen(m) = Len(m)
      /\ \A k \in 1..Len(d) : m[k + 3] = d[k]
  BY MessageParts, LengthInHead
<1>2. Len(d) \in Nat
  OBVIOUS
<1> HIDE DEF m
<1>3. HasLen(m) /\ HeadOK(m)
  BY <1>1, <1>2 DEF HasLen, HeadOK, MIN_PKG_SIZE
<1>4. Finished(m) /\ ~Invalid(m)
  BY <1>1, <1>2, <1>3 DEF Finished, Invalid, MIN_PKG_SIZE
<1>5. getDataLen(m) = Len(d)
  BY <1>1, <1>2, <1>3 DEF getDataLen, MIN_PKG_SIZE
<1>6. getMsgData(m) = SubSeq(m, 4, 3 + Len(d))
  BY <1>5 DEF getMsgData, MIN_PKG_SIZE
<1>7. /\ SubSeq(m, 4, 3 + Len(d)) \in Seq(Byte)
      /\ Len(SubSeq(m, 4, 3 + Len(d))) = Len(d)
      /\ \A k \in 1..Len(d) : SubSeq(m, 4, 3 + Len(d))[k] = m[k + 3]
  BY <1>1, <1>2, SubSeqProperties DEF MIN_PKG_SIZE
<1>8. getMsgData(m) = d
  BY <1>1, <1>6, <1>7, SeqEqual
<1> QED  BY <1>4, <1>8 DEF m

=============================================================================
