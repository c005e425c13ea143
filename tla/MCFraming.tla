------------------------------ MODULE MCFraming ------------------------------
(***************************************************************************)
(* Messages for TLC, with a byte of four values: the longest that fits has *)
(* 11 bytes of data.  Data may hold the bytes of head and tail.            *)
(***************************************************************************)
EXTENDS Framing

Fill(n) == [k \in 1..n |-> PKG_TAIL]

\* Of 0, 1 and 11 bytes; of 12 and 16, whose length is written as 0 and as 4.
SomeMsgs == {Fill(n) : n \in {0, 11, 12, 16}} \cup {<<PKG_HEAD>>}
\* No head, and a head with half of a length.
SomeJunk == {<<PKG_TAIL>>, <<PKG_HEAD, 1>>}

=============================================================================
