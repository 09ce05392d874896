----------------------------- MODULE RingBuffer -----------------------------
(***************************************************************************)
(* The ring buffer that the packets of the Bluetooth controller pass       *)
(* through (btstack_ring_buffer.c): a storage, two indices and a flag that *)
(* tells a full buffer from an empty one.                                  *)
(***************************************************************************)
EXTENDS Integers, Sequences

CONSTANTS Size, Byte, Blocks, Lengths

ASSUME RingConstants ==
    /\ Size \in Nat \ {0}
    /\ Byte # {}
    /\ Blocks \subseteq Seq(Byte)
    /\ Lengths \subseteq Nat

VARIABLES
  storage,             \* the bytes, from index 0 on
  last_read_index,
  last_written_index,
  full,
  last                 \* the last call: what it was given and what it returned

ringVars == <<storage, last_read_index, last_written_index, full, last>>

min(m, n) == IF m < n THEN m ELSE n

bytes_available ==
    LET diff == last_written_index - last_read_index
    IN  IF full THEN Size ELSE IF diff >= 0 THEN diff ELSE diff + Size

bytes_free == Size - bytes_available

RingInit ==
    /\ storage \in [0 .. Size - 1 -> Byte]
    /\ last_read_index = 0 /\ last_written_index = 0 /\ full = FALSE
    /\ last = [op |-> "reset"]

(* Faulty: the index is left at the end of the storage. *)
advancedToEnd(i, chunk, n) == IF n # chunk THEN n - chunk ELSE i + chunk

(* An index moves on by a first chunk, and if more remains by a second one *)
(* from the start of the storage.                                          *)
advanced(i, chunk, n) ==
    LET j == IF i + chunk = Size THEN 0 ELSE i + chunk
    IN  IF n # chunk THEN j + n - chunk ELSE j

(* The bytes as the two copies leave them. *)
written(i, chunk, data) ==
    [k \in 0 .. Size - 1 |->
        IF k < Len(data) - chunk THEN data[chunk + k + 1]
        ELSE IF i <= k /\ k < i + chunk THEN data[k - i + 1]
        ELSE storage[k]]

(* Faulty: the flag is not set when the indices meet. *)
writeNeverFull(data) ==
    LET n == Len(data)
        chunk == min(Size - last_written_index, n)
    IN  /\ IF bytes_free < n \/ n = 0
           THEN UNCHANGED <<storage, last_written_index, full>>
           ELSE /\ storage' = written(last_written_index, chunk, data)
                /\ last_written_index' = advanced(last_written_index, chunk, n)
                /\ full' = full
        /\ last' = [op |-> "write", data |-> data, stored |-> bytes_free >= n]
        /\ UNCHANGED last_read_index

btstack_ring_buffer_write(data) ==
    LET n == Len(data)
        chunk == min(Size - last_written_index, n)
    IN  /\ IF bytes_free < n \/ n = 0
           THEN UNCHANGED <<storage, last_written_index, full>>
           ELSE /\ storage' = written(last_written_index, chunk, data)
                /\ last_written_index' = advanced(last_written_index, chunk, n)
                /\ full' = (full \/ last_written_index' = last_read_index)
        /\ last' = [op |-> "write", data |-> data, stored |-> bytes_free >= n]
        /\ UNCHANGED last_read_index

btstack_ring_buffer_read(n) ==
    LET m == min(n, bytes_available)
        chunk == min(Size - last_read_index, m)
        data == [i \in 1 .. m |-> IF i <= chunk THEN storage[last_read_index + i - 1]
                                  ELSE storage[i - chunk - 1]]
    IN  /\ last' = [op |-> "read", length |-> n, data |-> data]
        /\ IF m = 0 THEN UNCHANGED <<last_read_index, full>>
           ELSE /\ last_read_index' = advanced(last_read_index, chunk, m)
                /\ full' = FALSE
        /\ UNCHANGED <<storage, last_written_index>>

btstack_ring_buffer_reset ==
    /\ last_read_index' = 0 /\ last_written_index' = 0 /\ full' = FALSE
    /\ last' = [op |-> "reset"]
    /\ UNCHANGED storage

RingNext ==
    \/ \E data \in Blocks : btstack_ring_buffer_write(data)
    \/ \E n \in Lengths : btstack_ring_buffer_read(n)
    \/ btstack_ring_buffer_reset

RingSpec == RingInit /\ [][RingNext]_ringVars

-----------------------------------------------------------------------------
(* The indices stay inside the storage, and the flag is set only when they *)
(* are equal: bytes_available and bytes_free, which the transport relies   *)
(* on, never run out of 0 .. Size.                                         *)
RingTypeOK ==
    /\ storage \in [0 .. Size - 1 -> Byte]
    /\ last_read_index \in 0 .. Size - 1
    /\ last_written_index \in 0 .. Size - 1
    /\ full \in BOOLEAN
    /\ full => last_written_index = last_read_index

at(i) == IF last_read_index + i < Size THEN last_read_index + i ELSE last_read_index + i - Size
contents == [i \in 1 .. bytes_available |-> storage[at(i - 1)]]

(* However blocks wrap around the end of the storage, and although equal   *)
(* indices may mean full or empty: the buffer is a queue of bytes, it      *)
(* loses none and makes none up.                                           *)
Queue == INSTANCE ByteQueue WITH q <- contents
ImplementsQueue == Queue!Spec
=============================================================================
