------------------------------ MODULE ParsePkg ------------------------------
(***************************************************************************)
(* The format of messages, as ParsePkg makes and reads it: on the wire a   *)
(* message is head, length, data, tail, and the length counts all four.    *)
(* A byte has Base values, 256 in the code, and the length is two bytes.   *)
(***************************************************************************)
EXTENDS Integers, Sequences

CONSTANT Base  \* values of a byte

PKG_HEAD == 2
PKG_TAIL == 3
MIN_PKG_SIZE == 4
MAX_PKG_SIZE == Base * Base - 1
Byte == 0..(Base - 1)

ASSUME ByteAssumption == Base \in Nat /\ Base > PKG_TAIL

\* mkMsgHead, the data, mkMsgTail: the length is cut to two bytes.
mkMsg(d) ==
  LET len == (Len(d) + MIN_PKG_SIZE) % (Base * Base)
  IN <<PKG_HEAD, len \div Base, len % Base>> \o d \o <<PKG_TAIL>>

HeadOK(m) == m # <<>> => m[1] = PKG_HEAD
HasLen(m) == Len(m) >= MIN_PKG_SIZE
MsgLen(m) == m[2] * Base + m[3]

\* isValidAndFinish returns 1, -1, or 0 when neither is the case.
Finished(m) ==
  /\ HasLen(m) /\ HeadOK(m)
  /\ MsgLen(m) \in MIN_PKG_SIZE..Len(m)
  /\ m[MsgLen(m)] = PKG_TAIL
InvalidEmpty(m) ==
  \/ ~HeadOK(m)
  \/ HasLen(m) /\ MsgLen(m) <= MIN_PKG_SIZE
Invalid(m) ==
  \/ ~HeadOK(m)
  \/ /\ HasLen(m)
     /\ \/ MsgLen(m) < MIN_PKG_SIZE
        \/ MsgLen(m) \in MIN_PKG_SIZE..Len(m) /\ m[MsgLen(m)] # PKG_TAIL

getDataLen(m) ==
  IF ~HasLen(m) \/ (m[1] # PKG_HEAD /\ m[Len(m)] # PKG_TAIL)
    THEN -1 ELSE MsgLen(m) - MIN_PKG_SIZE

\* What the application reads: getDataLen bytes from getMsgData on.
getMsgData(m) == SubSeq(m, MIN_PKG_SIZE, MIN_PKG_SIZE - 1 + getDataLen(m))

=============================================================================
