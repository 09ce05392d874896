------------------------------ MODULE ByteQueue ------------------------------
(***************************************************************************)
(* What a ring buffer of BTstack promises: a queue of at most Size bytes.  *)
(* A block is stored as a whole or not at all; a read takes as many bytes  *)
(* as it asks for and there are.                                           *)
(***************************************************************************)
EXTENDS Naturals, Sequences

CONSTANTS
  Size,          \* how many bytes there is room for
  Byte,          \* the bytes
  Blocks,        \* the blocks that are written: sequences of bytes
  Lengths        \* the lengths that are read

VARIABLES
  q,             \* the bytes in the buffer
  last           \* the last call: what it was given and what it returned

room == Size - Len(q)
least(m, n) == IF m < n THEN m ELSE n

Init == q = <<>> /\ last = [op |-> "reset"]

Put(data) ==
    /\ q' = (IF room < Len(data) THEN q ELSE q \o data)
    /\ last' = [op |-> "write", data |-> data, stored |-> room >= Len(data)]

Get(n) ==
    LET m == least(n, Len(q))
    IN  /\ last' = [op |-> "read", length |-> n, data |-> SubSeq(q, 1, m)]
        /\ q' = SubSeq(q, m + 1, Len(q))

Reset == q' = <<>> /\ last' = [op |-> "reset"]

Next == (\E data \in Blocks : Put(data)) \/ (\E n \in Lengths : Get(n)) \/ Reset

Spec == Init /\ [][Next]_<<q, last>>
=============================================================================
