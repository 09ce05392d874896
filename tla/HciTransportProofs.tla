------------------------- MODULE HciTransportProofs -------------------------
(***************************************************************************)
(* Proofs about the way of bytes and wake-ups into the Bluetooth task, for *)
(* every size of the storage, every length of packets and every number of  *)
(* calling tasks and of commands.  In this order: the run loop never       *)
(* sleeps on work (HciTransport); packets stay whole, in order and inside  *)
(* the storage (HciTransport); the ring buffer under them is a queue of    *)
(* bytes (RingBuffer).                                                     *)
(***************************************************************************)
EXTENDS HciTransport, RingBuffer, FiniteSetTheorems, SequenceTheorems, TLAPS

-----------------------------------------------------------------------------
(* A function on 1 .. n is a sequence of length n. *)
LEMMA FunctionIsSeq ==
    ASSUME NEW S, NEW n \in Nat, NEW f \in [1 .. n -> S]
    PROVE  f \in Seq(S) /\ Len(f) = n
<1>1. f \in Seq(S)
    BY SeqDef
<1>2. DOMAIN f = 1 .. n /\ DOMAIN f = 1 .. Len(f) /\ Len(f) \in Nat
    BY <1>1, LenProperties
<1>. QED
    BY <1>1, <1>2

(* A part of a sequence. *)
LEMMA Part ==
    ASSUME NEW S, NEW s \in Seq(S), NEW k \in Nat, NEW m \in Nat, k + m <= Len(s)
    PROVE  /\ SubSeq(s, k + 1, k + m) \in Seq(S)
           /\ Len(SubSeq(s, k + 1, k + m)) = m
           /\ \A i \in 1 .. m : SubSeq(s, k + 1, k + m)[i] = s[k + i]
<1>. DEFINE b == SubSeq(s, k + 1, k + m)
            L == Len(s)
<1>1. L \in Nat /\ \A i \in 1 .. L : s[i] \in S
    BY LenProperties, ElementOfSeq
<1>. HIDE DEF L
<1>2. \A i \in k + 1 .. k + m : s[i] \in S
    BY <1>1 DEF L
<1>3. k + 1 \in Int /\ k + m \in Int
    OBVIOUS
<1>4. /\ b \in Seq(S) /\ Len(b) = (IF k + 1 <= k + m THEN k + m - (k + 1) + 1 ELSE 0)
      /\ \A i \in 1 .. k + m - (k + 1) + 1 : b[i] = s[k + 1 + i - 1]
    BY <1>2, <1>3, SubSeqProperties
<1>. HIDE DEF b
<1>5. Len(b) = m
    BY <1>4
<1>6. ASSUME NEW i \in 1 .. m PROVE b[i] = s[k + i]
    <2>1. i \in 1 .. k + m - (k + 1) + 1 /\ k + 1 + i - 1 = k + i
        OBVIOUS
    <2>. QED
        BY <1>4, <2>1
<1>. QED
    BY <1>4, <1>5, <1>6 DEF b

-----------------------------------------------------------------------------
(* Where the run loop still looks at a flag or at the list before it waits. *)
BeforeSent == {"sent", "clear sent"}
BeforePackets == BeforeSent \cup {"packets", "clear packets"}
BeforeCallbacks == BeforePackets \cup {"deliver", "callbacks", "call"}

Places ==
    /\ vhci \in {"idle", "flag", "trigger"}
    /\ loop \in BeforeCallbacks \cup {"timers", "wait"}
    /\ task \in [Tasks -> {"idle", "add", "trigger"}]

(* The invariant behind NoLostWakeup.  It follows a piece of work from the *)
(* hands of whoever makes it, through the flag and the notification, to    *)
(* the place where the run loop looks for it: it is never in none of them. *)
PacketsFlagged ==
    hci_ringbuffer # <<>> =>
        transport_packets_to_deliver \/ vhci = "flag" \/ loop \in {"clear packets", "deliver"}

PacketsNotified ==
    transport_packets_to_deliver => notified \/ vhci = "trigger" \/ loop \in BeforePackets

SentNotified ==
    transport_signal_sent => notified \/ vhci = "trigger" \/ loop \in BeforeSent

CallbackNotified ==
    callbacks => notified \/ (\E t \in Tasks : task[t] = "trigger") \/ loop \in BeforeCallbacks

WorkIsSeen ==
    Places /\ PacketsFlagged /\ PacketsNotified /\ SentNotified /\ CallbackNotified

-----------------------------------------------------------------------------
(* Every step keeps work in sight. *)
LEMMA WorkStaysSeen == WorkIsSeen /\ [Next]_vars => WorkIsSeen'
<1>. SUFFICES ASSUME WorkIsSeen, [Next]_vars
              PROVE  WorkIsSeen'
    OBVIOUS
<1>. USE DEF WorkIsSeen, Places, BeforeSent, BeforePackets, BeforeCallbacks
<1>. USE DEF PacketsFlagged, PacketsNotified, SentNotified, CallbackNotified
<1>. USE DEF transportVars, callVars, btstack_run_loop_freertos_trigger
<1>1. ASSUME NEW data, host_recv_pkt_cb(data)
      PROVE  WorkIsSeen'
    BY <1>1 DEF host_recv_pkt_cb
<1>2. CASE host_send_pkt_available_cb
    BY <1>2 DEF host_send_pkt_available_cb
<1>3. CASE recvFlag
    BY <1>3 DEF recvFlag
<1>4. CASE vhciTrigger
    BY <1>4 DEF vhciTrigger
<1>5. ASSUME NEW t \in Tasks, NEW c \in Commands, safe(t, c)
      PROVE  WorkIsSeen'
    BY <1>5 DEF safe
<1>6. ASSUME NEW t \in Tasks, btstack_run_loop_freertos_execute_on_main_thread(t)
      PROVE  WorkIsSeen'
    BY <1>6 DEF btstack_run_loop_freertos_execute_on_main_thread
<1>7. ASSUME NEW t \in Tasks, taskTrigger(t)
      PROVE  WorkIsSeen'
    BY <1>7 DEF taskTrigger
<1>8. CASE ifSignalSent
    BY <1>8 DEF ifSignalSent
<1>9. CASE clearSignalSent
    BY <1>9 DEF clearSignalSent
<1>10. CASE ifPacketsToDeliver
    BY <1>10 DEF ifPacketsToDeliver
<1>11. CASE clearPacketsToDeliver
    BY <1>11 DEF clearPacketsToDeliver
<1>12. CASE transport_deliver_packets
    <2>1. /\ loop = "deliver"
          /\ loop' \in {"deliver", "callbacks"}
          /\ loop' = "callbacks" => hci_ringbuffer' = <<>>
        BY <1>12 DEF transport_deliver_packets
    <2>2. UNCHANGED <<transport_packets_to_deliver, transport_signal_sent, notified, vhci, callbacks, task>>
        BY <1>12 DEF transport_deliver_packets
    <2>. QED
        BY <2>1, <2>2
<1>13. CASE popCallback
    BY <1>13 DEF popCallback
<1>14. CASE cmd_callback
    BY <1>14 DEF cmd_callback
<1>15. CASE beginWait
    BY <1>15 DEF beginWait
<1>16. CASE wakeUp
    BY <1>16 DEF wakeUp
<1>17. CASE waitTimesOut
    BY <1>17 DEF waitTimesOut
<1>18. CASE UNCHANGED vars
    BY <1>18 DEF vars
<1>. QED
    BY <1>1, <1>2, <1>3, <1>4, <1>5, <1>6, <1>7, <1>8, <1>9, <1>10, <1>11, <1>12, <1>13,
       <1>14, <1>15, <1>16, <1>17, <1>18 DEF Next, runLoop, controller, calling

(* Whenever the run loop waits without a notification, whoever left a      *)
(* packet in the ring buffer, a flag or a callback for it has not yet      *)
(* triggered it.  There is no order of the steps of host_recv_pkt_cb,      *)
(* host_send_pkt_available_cb, the _safe functions and the run loop in     *)
(* which a wake-up is lost.                                                *)
THEOREM NoWakeupIsLost == Spec => []NoLostWakeup
<1>1. Init => WorkIsSeen
    BY DEF Init, WorkIsSeen, Places, PacketsFlagged, PacketsNotified, SentNotified,
           CallbackNotified, BeforeSent, BeforePackets, BeforeCallbacks
<1>2. WorkIsSeen => NoLostWakeup
    BY DEF WorkIsSeen, Places, PacketsFlagged, PacketsNotified, SentNotified,
           CallbackNotified, BeforeSent, BeforePackets, BeforeCallbacks, NoLostWakeup
<1>. QED
    BY <1>1, <1>2, WorkStaysSeen, PTL DEF Spec

-----------------------------------------------------------------------------
(* Packets of a type, and the room that the storage keeps for one of them. *)
Packets == {p \in Seq(Nat) :
    /\ Len(p) > 0
    /\ \/ p[1] = ACL /\ Len(p) \in AclLengths
       \/ p[1] = EVENT /\ Len(p) \in EventLengths}

aclRoom == 2 + largest(AclLengths)
eventRoom == 2 + largest(EventLengths)
roomFor(p) == IF p[1] = ACL THEN aclRoom ELSE eventRoom

Count(s, type) == Cardinality({i \in 1 .. Len(s) : s[i][1] = type})

(* A packet lies in the ring behind its tag, after the first n bytes. *)
LiesAt(ring, n, p) ==
    /\ ring[n + 1] = Len(p) % 256 /\ ring[n + 2] = Len(p) \div 256
    /\ \A k \in 1 .. Len(p) : ring[n + 2 + k] = p[k]

(* The ring is made of the packets s: rest[i] bytes of it from packet i    *)
(* on, for which the storage has room[i].                                  *)
Framed(ring, s, rest, room) ==
    /\ rest \in [1 .. Len(s) + 1 -> Nat] /\ room \in [1 .. Len(s) + 1 -> Nat]
    /\ rest[1] = Len(ring) /\ rest[Len(s) + 1] = 0
    /\ room[Len(s) + 1] = 0
    /\ room[1] = aclRoom * Count(s, ACL) + eventRoom * Count(s, EVENT)
    /\ \A i, j \in 1 .. Len(s) + 1 : i <= j => rest[j] <= rest[i]
    /\ \A i \in 1 .. Len(s) + 1 : rest[i] <= room[i]
    /\ \A i \in 1 .. Len(s) :
        /\ rest[i] = rest[i + 1] + 2 + Len(s[i])
        /\ room[i] = room[i + 1] + roomFor(s[i])
        /\ LiesAt(ring, Len(ring) - rest[i], s[i])

FramedSomehow(ring, s) == \E rest, room : Framed(ring, s, rest, room)

PacketsLie ==
    /\ hci_ringbuffer \in Seq(Nat) /\ accepted \in Seq(Packets) /\ sends \in Nat
    /\ ~dropped /\ ~garbled
    /\ Count(accepted, ACL) <= AclNum /\ Count(accepted, EVENT) <= EventsInFlight
    /\ FramedSomehow(hci_ringbuffer, accepted)

(* The room for a packet of a type is enough for its tag and for every     *)
(* packet of that type.                                                    *)
LEMMA Longest ==
    /\ aclRoom \in Nat /\ eventRoom \in Nat
    /\ \A p \in Packets : 2 + Len(p) <= roomFor(p)
<1>1. /\ largest(AclLengths) \in AclLengths
      /\ \A m \in AclLengths : m <= largest(AclLengths)
    BY TransportConstants DEF largest
<1>2. /\ largest(EventLengths) \in EventLengths
      /\ \A m \in EventLengths : m <= largest(EventLengths)
    BY TransportConstants DEF largest
<1>3. largest(AclLengths) \in Nat /\ largest(EventLengths) \in Nat
    BY <1>1, <1>2, TransportConstants
<1>. QED
    BY <1>1, <1>2, <1>3, TransportConstants DEF aclRoom, eventRoom, roomFor, Packets, ACL, EVENT

(* ring_buffer_init gets a number of bytes. *)
LEMMA StorageIsANumber == hci_ringbuffer_storage \in Nat
<1>1. AclNum \in Nat /\ EventNum \in Nat /\ aclRoom \in Nat /\ eventRoom \in Nat
    BY TransportConstants, Longest
<1>2. AclNum * aclRoom \in Nat /\ EventNum * eventRoom \in Nat
    BY <1>1
<1>. QED
    BY <1>2 DEF hci_ringbuffer_storage, aclRoom, eventRoom

(* One packet more counts for its own type alone ... *)
LEMMA CountAppend ==
    ASSUME NEW s \in Seq(Packets), NEW p \in Packets, NEW type
    PROVE  /\ Count(s, type) \in Nat
           /\ Count(Append(s, p), type) = Count(s, type) + (IF p[1] = type THEN 1 ELSE 0)
<1>. DEFINE t == Append(s, p)
            n == Len(s)
            A == {i \in 1 .. Len(s) : s[i][1] = type}
            B == {i \in 1 .. Len(t) : t[i][1] = type}
<1>1. n \in Nat /\ Len(t) = n + 1 /\ t[n + 1] = p /\ \A i \in 1 .. n : t[i] = s[i]
    BY AppendProperties, LenProperties
<1>2. IsFiniteSet(A) /\ Cardinality(A) \in Nat
    <2>1. IsFiniteSet(1 .. Len(s)) /\ A \in SUBSET (1 .. Len(s))
        BY <1>1, FS_Interval
    <2>. QED
        BY <2>1, FS_Subset, FS_CardinalityType
<1>5. Count(s, type) = Cardinality(A) /\ Count(t, type) = Cardinality(B)
    BY DEF Count
<1>6. /\ A = {i \in 1 .. n : s[i][1] = type} /\ B = {i \in 1 .. n + 1 : t[i][1] = type}
      /\ t[n + 1] = p
    BY <1>1
<1>. HIDE DEF t, n
<1>3. CASE p[1] = type
    <2>1. B = A \cup {n + 1} /\ n + 1 \notin A
        <3>1. \A i \in 1 .. n + 1 : i \in 1 .. n \/ i = n + 1
            BY <1>1
        <3>2. n + 1 \notin 1 .. n /\ 1 .. n \subseteq 1 .. n + 1 /\ n + 1 \in 1 .. n + 1
            BY <1>1
        <3>. QED
            BY <1>1, <1>3, <1>6, <3>1, <3>2, Zenon
    <2>. HIDE DEF A, B
    <2>2. Cardinality(B) = Cardinality(A) + 1
        BY <1>2, <2>1, FS_AddElement
    <2>. QED
        BY <1>2, <1>3, <1>5, <2>2 DEF t
<1>4. CASE p[1] # type
    <2>1. B = A
        <3>1. \A i \in 1 .. n + 1 : i \in 1 .. n \/ i = n + 1
            BY <1>1
        <3>2. 1 .. n \subseteq 1 .. n + 1
            BY <1>1
        <3>. QED
            BY <1>1, <1>4, <1>6, <3>1, <3>2, Zenon
    <2>. HIDE DEF A, B
    <2>. QED
        BY <1>2, <1>4, <1>5, <2>1 DEF t
<1>. QED
    BY <1>3, <1>4

(* ... and one packet less does. *)
LEMMA CountTail ==
    ASSUME NEW s \in Seq(Packets), s # <<>>, NEW type
    PROVE  /\ Count(s, type) \in Nat /\ Count(Tail(s), type) \in Nat
           /\ Count(s, type) = Count(Tail(s), type) + (IF s[1][1] = type THEN 1 ELSE 0)
<1>. DEFINE t == Tail(s)
            n == Len(s)
            A == {i \in 1 .. Len(s) : s[i][1] = type}
            B == {i \in 1 .. Len(t) : t[i][1] = type}
            f == [i \in B |-> i + 1]
            R == A \ {1}
<1>1. n \in Nat /\ n > 0 /\ Len(t) = n - 1 /\ \A i \in 1 .. n - 1 : t[i] = s[i + 1]
    BY HeadTailProperties, EmptySeq, LenProperties
<1>2. IsFiniteSet(A) /\ Cardinality(A) \in Nat
    <2>1. IsFiniteSet(1 .. Len(s)) /\ A \in SUBSET (1 .. Len(s))
        BY <1>1, FS_Interval
    <2>. QED
        BY <2>1, FS_Subset, FS_CardinalityType
<1>3. IsFiniteSet(B) /\ Cardinality(B) \in Nat
    <2>1. IsFiniteSet(1 .. Len(t)) /\ B \in SUBSET (1 .. Len(t))
        BY <1>1, FS_Interval
    <2>. QED
        BY <2>1, FS_Subset, FS_CardinalityType
<1>4. f \in Bijection(B, R)
    <2>1. f \in [B -> R]
        BY <1>1
    <2>2. \A i, j \in B : f[i] = f[j] => i = j
        BY <1>1
    <2>3. \A r \in R : \E i \in B : f[i] = r
        <3>1. SUFFICES ASSUME NEW r \in R PROVE r - 1 \in B /\ f[r - 1] = r
            OBVIOUS
        <3>. QED
            BY <1>1
    <2>. HIDE DEF f, B, R
    <2>. QED
        BY <2>1, <2>2, <2>3 DEF Bijection, Injection, Surjection, IsInjective
<1>5. Cardinality(R) = Cardinality(B)
    BY <1>3, <1>4, FS_Bijection DEF ExistsBijection
<1>6. 1 \in A <=> s[1][1] = type
    BY <1>1
<1>7. Count(s, type) = Cardinality(A) /\ Count(t, type) = Cardinality(B)
    BY DEF Count
<1>8. Cardinality(R) = IF 1 \in A THEN Cardinality(A) - 1 ELSE Cardinality(A)
    BY <1>2, FS_RemoveElement
<1>. HIDE DEF A, B, R
<1>. QED
    BY <1>2, <1>3, <1>5, <1>6, <1>7, <1>8

(* The room for the packets of both types, with one more of them. *)
RoomOf(a, e) == aclRoom * a + eventRoom * e

(* What the storage keeps for a number of packets of both types. *)
LEMMA RoomIsANumber ==
    ASSUME NEW a \in Nat, NEW e \in Nat
    PROVE  RoomOf(a, e) \in Nat
<1>. DEFINE A == aclRoom
            E == eventRoom
<1>1. A \in Nat /\ E \in Nat
    BY Longest
<1>. HIDE DEF A, E
<1>2. A * a \in Nat /\ E * e \in Nat
    BY <1>1
<1>. QED
    BY <1>2 DEF RoomOf, A, E

(* One packet more needs the room for its type. *)
LEMMA RoomForOneMore ==
    ASSUME NEW p \in Packets, NEW a \in Nat, NEW e \in Nat, NEW a2, NEW e2,
           a2 = a + (IF p[1] = ACL THEN 1 ELSE 0), e2 = e + (IF p[1] = EVENT THEN 1 ELSE 0)
    PROVE  RoomOf(a2, e2) = RoomOf(a, e) + roomFor(p)
<1>. DEFINE A == aclRoom
            E == eventRoom
<1>1. A \in Nat /\ E \in Nat
    BY Longest
<1>2. \/ p[1] = ACL /\ p[1] # EVENT /\ roomFor(p) = A
      \/ p[1] = EVENT /\ p[1] # ACL /\ roomFor(p) = E
    BY DEF Packets, roomFor, ACL, EVENT
<1>. HIDE DEF A, E
<1>3. A * a \in Nat /\ E * e \in Nat /\ A * (a + 1) = A * a + A /\ E * (e + 1) = E * e + E
    BY <1>1
<1>4. CASE p[1] = ACL
    <2>1. a2 = a + 1 /\ e2 = e /\ roomFor(p) = A
        BY <1>2, <1>4
    <2>2. A * a2 = A * a + A /\ E * e2 = E * e
        BY <1>3, <2>1
    <2>. HIDE <1>4
    <2>. QED
        BY <1>1, <1>3, <2>1, <2>2 DEF RoomOf, A, E
<1>5. CASE p[1] = EVENT
    <2>1. a2 = a /\ e2 = e + 1 /\ roomFor(p) = E
        BY <1>2, <1>5
    <2>2. A * a2 = A * a /\ E * e2 = E * e + E
        BY <1>3, <2>1
    <2>. HIDE <1>5
    <2>. QED
        BY <1>1, <1>3, <2>1, <2>2 DEF RoomOf, A, E
<1>. QED
    BY <1>2, <1>4, <1>5

(* host_recv_pkt_cb stores a packet: its tag and its bytes are the end of  *)
(* the ring, and everything before them stays where it is.                 *)
Extends(more, ring, n) ==
    Len(more) = Len(ring) + n /\ \A k \in 1 .. Len(ring) : more[k] = ring[k]

(* The packets before it keep their places, in a larger room. *)
LEMMA FramedAppend ==
    ASSUME NEW ring \in Seq(Nat), NEW s \in Seq(Packets), NEW p \in Packets,
           FramedSomehow(ring, s),
           NEW more \in Seq(Nat), Extends(more, ring, 2 + Len(p)), LiesAt(more, Len(ring), p)
    PROVE  FramedSomehow(more, Append(s, p))
<1>. DEFINE n == Len(s)
            r == Len(ring)
            l == Len(p)
            t == Append(s, p)
            w == Len(more)
<1>0. PICK rest, room : Framed(ring, s, rest, room)
    BY DEF FramedSomehow
<1>. DEFINE rest2 == [i \in 1 .. n + 2 |-> IF i = n + 2 THEN 0 ELSE rest[i] + 2 + l]
            room2 == [i \in 1 .. n + 2 |-> IF i = n + 2 THEN 0 ELSE room[i] + roomFor(p)]
<1>1. n \in Nat /\ r \in Nat /\ l \in Nat
    BY LenProperties DEF Packets
<1>2. \A i \in 1 .. n : s[i] \in Packets /\ Len(s[i]) \in Nat
    BY ElementOfSeq, LenProperties DEF Packets
<1>3. Len(t) = n + 1 /\ t[n + 1] = p /\ \A i \in 1 .. n : t[i] = s[i]
    BY AppendProperties
<1>4. w = r + 2 + l /\ \A k \in 1 .. r : more[k] = ring[k]
    BY <1>1 DEF Extends
<1>5. LiesAt(more, r, p)
    OBVIOUS
<1>6. /\ rest \in [1 .. n + 1 -> Nat] /\ rest[1] = r /\ rest[n + 1] = 0
      /\ \A i, j \in 1 .. n + 1 : i <= j => rest[j] <= rest[i]
    BY <1>0 DEF Framed
<1>7. /\ room \in [1 .. n + 1 -> Nat]
      /\ room[1] = RoomOf(Count(s, ACL), Count(s, EVENT))
      /\ \A i \in 1 .. n + 1 : rest[i] <= room[i]
    BY <1>0 DEF Framed, RoomOf
<1>8. \A i \in 1 .. n : rest[i] = rest[i + 1] + 2 + Len(s[i])
    BY <1>0 DEF Framed
<1>9. \A i \in 1 .. n : room[i] = room[i + 1] + roomFor(s[i])
    BY <1>0 DEF Framed
<1>10. \A i \in 1 .. n : LiesAt(ring, r - rest[i], s[i])
    BY <1>0 DEF Framed
<1>11. roomFor(p) \in Nat /\ 2 + l <= roomFor(p) /\ \A q \in Packets : roomFor(q) \in Nat
    BY Longest DEF roomFor
<1>12. RoomOf(Count(t, ACL), Count(t, EVENT)) = RoomOf(Count(s, ACL), Count(s, EVENT)) + roomFor(p)
    <2>. DEFINE a == Count(s, ACL)
                e == Count(s, EVENT)
                a2 == Count(t, ACL)
                e2 == Count(t, EVENT)
    <2>1. /\ a \in Nat /\ e \in Nat
          /\ a2 = a + (IF p[1] = ACL THEN 1 ELSE 0) /\ e2 = e + (IF p[1] = EVENT THEN 1 ELSE 0)
        BY CountAppend
    <2>. HIDE DEF a, e, a2, e2
    <2>2. RoomOf(a2, e2) = RoomOf(a, e) + roomFor(p)
        BY <2>1, RoomForOneMore
    <2>. QED
        BY <2>2 DEF a, e, a2, e2
<1>. HIDE DEF n, r, l, t, w
<1>13. /\ rest2 \in [1 .. n + 2 -> Nat] /\ room2 \in [1 .. n + 2 -> Nat]
       /\ rest2[n + 2] = 0 /\ room2[n + 2] = 0
       /\ \A i \in 1 .. n + 1 : rest2[i] = rest[i] + 2 + l /\ room2[i] = room[i] + roomFor(p)
    <2>. DEFINE c == roomFor(p)
    <2>1. c \in Nat
        BY <1>11
    <2>. HIDE DEF c
    <2>2. ASSUME NEW i \in 1 .. n + 2
          PROVE  /\ (IF i = n + 2 THEN 0 ELSE rest[i] + 2 + l) \in Nat
                 /\ (IF i = n + 2 THEN 0 ELSE room[i] + c) \in Nat
        <3>1. CASE i = n + 2
            BY <3>1
        <3>2. CASE i # n + 2
            <4>1. n \in Nat /\ l \in Nat
                BY <1>1
            <4>2. i \in 1 .. n + 1
                BY <3>2, <4>1
            <4>3. rest[i] \in Nat /\ room[i] \in Nat
                BY <1>6, <1>7, <4>2
            <4>. DEFINE x == rest[i]
                        y == room[i]
            <4>4. x \in Nat /\ y \in Nat
                BY <4>3
            <4>. HIDE DEF x, y
            <4>5. x + 2 + l \in Nat /\ y + c \in Nat
                BY <2>1, <4>1, <4>4
            <4>. QED
                BY <3>2, <4>5 DEF x, y
        <3>. QED
            BY <3>1, <3>2
    <2>3. /\ n + 2 \in 1 .. n + 2
          /\ \A i \in 1 .. n + 1 : i \in 1 .. n + 2 /\ i # n + 2
        <3>1. n \in Nat
            BY <1>1
        <3>. QED
            BY <3>1
    <2>. QED
        BY <2>2, <2>3 DEF c
<1>. HIDE DEF rest2, room2
<1>14. rest2[1] = r + 2 + l /\ room2[1] = RoomOf(Count(t, ACL), Count(t, EVENT))
    BY <1>1, <1>6, <1>7, <1>12, <1>13
<1>15. /\ \A i, j \in 1 .. n + 2 : i <= j => rest2[j] <= rest2[i]
       /\ \A i \in 1 .. n + 2 : rest2[i] <= room2[i]
    <2>. DEFINE c == roomFor(p)
    <2>1. c \in Nat /\ 2 + l <= c
        BY <1>11
    <2>2. \A i \in 1 .. n + 1 : rest2[i] = rest[i] + 2 + l /\ room2[i] = room[i] + c
        BY <1>13
    <2>. HIDE DEF c
    <2>3. ASSUME NEW i \in 1 .. n + 2
          PROVE  rest2[i] <= room2[i]
        <3>1. CASE i = n + 2
            BY <1>13, <3>1
        <3>2. CASE i # n + 2
            <4>1. i \in 1 .. n + 1
                BY <1>1, <3>2
            <4>2. rest[i] <= room[i] /\ rest[i] \in Nat /\ room[i] \in Nat
                BY <1>6, <1>7, <4>1
            <4>. QED
                BY <1>1, <2>1, <2>2, <4>1, <4>2
        <3>. QED
            BY <3>1, <3>2
    <2>4. ASSUME NEW i \in 1 .. n + 2, NEW j \in 1 .. n + 2, i <= j
          PROVE  rest2[j] <= rest2[i]
        <3>1. CASE j = n + 2
            BY <1>1, <1>13, <3>1
        <3>2. CASE j # n + 2
            <4>1. i \in 1 .. n + 1 /\ j \in 1 .. n + 1
                BY <1>1, <2>4, <3>2
            <4>2. rest[j] <= rest[i] /\ rest[i] \in Nat /\ rest[j] \in Nat
                BY <1>6, <2>4, <4>1
            <4>. QED
                BY <1>1, <2>2, <4>1, <4>2
        <3>. QED
            BY <3>1, <3>2
    <2>. QED
        BY <2>3, <2>4
<1>16. ASSUME NEW i \in 1 .. n
       PROVE  /\ rest2[i] = rest2[i + 1] + 2 + Len(t[i])
              /\ room2[i] = room2[i + 1] + roomFor(t[i])
              /\ LiesAt(more, w - rest2[i], t[i])
    <2>1. i \in 1 .. n + 1 /\ i + 1 \in 1 .. n + 1 /\ t[i] = s[i] /\ s[i] \in Packets
        BY <1>1, <1>2, <1>3
    <2>. DEFINE q == s[i]
                x == rest[i]
                y == rest[i + 1]
                k == Len(q)
                m == r - x
    <2>2. x \in Nat /\ y \in Nat /\ k \in Nat /\ x = y + 2 + k /\ x <= r
        BY <1>1, <1>2, <1>6, <1>8, <2>1
    <2>3. rest2[i] = x + 2 + l /\ rest2[i + 1] = y + 2 + l
        BY <1>13, <2>1
    <2>4. room2[i] = room2[i + 1] + roomFor(q)
        <3>1. /\ room[i] = room[i + 1] + roomFor(q) /\ room[i] \in Nat /\ room[i + 1] \in Nat
              /\ roomFor(q) \in Nat
            BY <1>7, <1>9, <1>11, <2>1
        <3>2. room2[i] = room[i] + roomFor(p) /\ room2[i + 1] = room[i + 1] + roomFor(p)
            BY <1>13, <2>1
        <3>. QED
            BY <1>11, <3>1, <3>2
    <2>5. LiesAt(ring, m, q)
        BY <1>10
    <2>6. w - rest2[i] = m
        <3>. HIDE DEF x, y, k, q
        <3>1. w = r + 2 + l
            BY <1>4
        <3>. QED
            BY <1>1, <2>2, <2>3, <3>1
    <2>7. m \in Nat /\ m + 2 + k <= r
        <3>. HIDE DEF x, y, k, q
        <3>. QED
            BY <1>1, <2>2
    <2>8. rest2[i] = rest2[i + 1] + 2 + k
        <3>. HIDE DEF x, y, k, q
        <3>. QED
            BY <1>1, <2>2, <2>3
    <2>. HIDE DEF x, y, k, m, q
    <2>9. LiesAt(more, m, q)
        <3>1. ASSUME NEW g \in Nat, 0 < g, g <= r
              PROVE  more[g] = ring[g]
            BY <1>1, <1>4, <3>1
        <3>2. more[m + 1] = ring[m + 1] /\ more[m + 2] = ring[m + 2]
            <4>1. /\ m + 1 \in Nat /\ m + 2 \in Nat
                  /\ 0 < m + 1 /\ m + 1 <= r /\ 0 < m + 2 /\ m + 2 <= r
                BY <1>1, <2>2, <2>7
            <4>. QED
                BY <3>1, <4>1
        <3>3. ASSUME NEW h \in 1 .. k
              PROVE  more[m + 2 + h] = ring[m + 2 + h]
            BY <1>1, <2>2, <2>7, <3>1
        <3>. QED
            BY <2>5, <3>2, <3>3 DEF LiesAt, k
    <2>. QED
        BY <2>1, <2>4, <2>6, <2>8, <2>9 DEF k, q
<1>17. ASSUME NEW i \in 1 .. n + 1, i = n + 1
       PROVE  /\ rest2[i] = rest2[i + 1] + 2 + Len(t[i])
              /\ room2[i] = room2[i + 1] + roomFor(t[i])
              /\ LiesAt(more, w - rest2[i], t[i])
    <2>1. t[i] = p /\ rest2[i] = 2 + l /\ rest2[i + 1] = 0 /\ i + 1 = n + 2
        BY <1>1, <1>3, <1>6, <1>13, <1>17
    <2>2. room[i] = 0 /\ room2[i] = roomFor(p) /\ room2[i + 1] = 0
        <3>1. room[n + 1] = 0
            BY <1>0, <1>1 DEF Framed, n
        <3>. QED
            BY <1>1, <1>11, <1>13, <1>17, <2>1, <3>1
    <2>3. w - rest2[i] = r
        BY <1>1, <1>4, <2>1
    <2>. QED
        BY <1>1, <1>5, <1>11, <2>1, <2>2, <2>3 DEF l
<1>18. Framed(more, t, rest2, room2)
    <2>1. Len(t) + 1 = n + 2 /\ \A i \in 1 .. n + 1 : i \in 1 .. n \/ i = n + 1
        BY <1>1, <1>3
    <2>2. ASSUME NEW i \in 1 .. Len(t)
          PROVE  /\ rest2[i] = rest2[i + 1] + 2 + Len(t[i])
                 /\ room2[i] = room2[i + 1] + roomFor(t[i])
                 /\ LiesAt(more, w - rest2[i], t[i])
        <3>1. i \in 1 .. n + 1
            BY <1>3
        <3>2. CASE i \in 1 .. n
            BY <1>16, <3>2
        <3>3. CASE i = n + 1
            BY <1>17, <3>1, <3>3
        <3>. QED
            BY <2>1, <3>1, <3>2, <3>3
    <2>. QED
        BY <1>4, <1>13, <1>14, <1>15, <2>1, <2>2 DEF Framed, RoomOf, w
<1>. QED
    BY <1>18 DEF FramedSomehow, t

(* transport_deliver_packets finds the oldest packet behind its tag, and   *)
(* leaves the others as they are.                                          *)
LEMMA RoomWithoutFirst ==
    ASSUME NEW s \in Seq(Packets), s # <<>>
    PROVE  /\ RoomOf(Count(Tail(s), ACL), Count(Tail(s), EVENT)) \in Nat
           /\ RoomOf(Count(s, ACL), Count(s, EVENT))
                = RoomOf(Count(Tail(s), ACL), Count(Tail(s), EVENT)) + roomFor(s[1])
<1>. DEFINE a == Count(Tail(s), ACL)
            e == Count(Tail(s), EVENT)
            a2 == Count(s, ACL)
            e2 == Count(s, EVENT)
<1>1. PICK p \in Packets : p = s[1]
    BY EmptySeq, LenProperties, ElementOfSeq
<1>2. /\ a \in Nat /\ e \in Nat
      /\ a2 = a + (IF p[1] = ACL THEN 1 ELSE 0) /\ e2 = e + (IF p[1] = EVENT THEN 1 ELSE 0)
    BY <1>1, CountTail
<1>. HIDE DEF a, e, a2, e2
<1>3. RoomOf(a, e) \in Nat
    BY <1>2, RoomIsANumber
<1>4. RoomOf(a2, e2) = RoomOf(a, e) + roomFor(p)
    BY <1>2, RoomForOneMore
<1>. QED
    BY <1>1, <1>3, <1>4 DEF a, e, a2, e2

Behind(less, ring, n) ==
    Len(less) = Len(ring) - n /\ \A k \in 1 .. Len(less) : less[k] = ring[k + n]

(* The packets behind the first one keep their places, nearer to the       *)
(* front.                                                                  *)
LEMMA FramedTail ==
    ASSUME NEW ring \in Seq(Nat), NEW s \in Seq(Packets), s # <<>>,
           FramedSomehow(ring, s),
           NEW less \in Seq(Nat), Behind(less, ring, 2 + Len(s[1]))
    PROVE  FramedSomehow(less, Tail(s))
<1>. DEFINE n == Len(s)
            r == Len(ring)
            p == s[1]
            l == Len(p)
            t == Tail(s)
<1>0. PICK rest, room : Framed(ring, s, rest, room)
    BY DEF FramedSomehow
<1>. DEFINE rest2 == [i \in 1 .. n |-> rest[i + 1]]
            room2 == [i \in 1 .. n |-> room[i + 1]]
<1>1. n \in Nat /\ n > 0 /\ r \in Nat
    BY EmptySeq, LenProperties
<1>2. \A i \in 1 .. n : s[i] \in Packets /\ Len(s[i]) \in Nat
    BY ElementOfSeq, LenProperties DEF Packets
<1>3. p \in Packets /\ l \in Nat
    BY <1>1, <1>2
<1>4. Len(t) = n - 1 /\ \A i \in 1 .. n - 1 : t[i] = s[i + 1]
    BY HeadTailProperties
<1>5. Len(less) = r - 2 - l /\ \A k \in 1 .. r - 2 - l : less[k] = ring[k + 2 + l]
    <2>1. Len(less) = r - (2 + l) /\ \A k \in 1 .. Len(less) : less[k] = ring[k + (2 + l)]
        BY DEF Behind
    <2>. HIDE DEF n, r, l, p, rest2, room2
    <2>2. r - (2 + l) = r - 2 - l /\ \A k \in 1 .. r - 2 - l : k + (2 + l) = k + 2 + l
        BY <1>1, <1>3
    <2>. QED
        BY <2>1, <2>2
<1>6. /\ rest \in [1 .. n + 1 -> Nat] /\ rest[1] = r /\ rest[n + 1] = 0
      /\ \A i, j \in 1 .. n + 1 : i <= j => rest[j] <= rest[i]
    BY <1>0 DEF Framed
<1>7. /\ room \in [1 .. n + 1 -> Nat] /\ room[n + 1] = 0
      /\ room[1] = RoomOf(Count(s, ACL), Count(s, EVENT))
      /\ \A i \in 1 .. n + 1 : rest[i] <= room[i]
    BY <1>0 DEF Framed, RoomOf
<1>8. \A i \in 1 .. n : rest[i] = rest[i + 1] + 2 + Len(s[i])
    BY <1>0 DEF Framed
<1>9. \A i \in 1 .. n : room[i] = room[i + 1] + roomFor(s[i])
    BY <1>0 DEF Framed
<1>10. \A i \in 1 .. n : LiesAt(ring, r - rest[i], s[i])
    BY <1>0 DEF Framed
<1>11. aclRoom \in Nat /\ eventRoom \in Nat /\ roomFor(p) \in Nat
    BY Longest DEF roomFor
<1>12. rest[1] = rest[2] + 2 + l /\ room[1] = room[2] + roomFor(p)
       /\ rest[2] \in Nat /\ room[2] \in Nat
    <2>. HIDE DEF n, r, l, t, rest2, room2
    <2>1. 1 \in 1 .. n /\ 1 + 1 = 2 /\ 2 \in 1 .. n + 1
        BY <1>1
    <2>2. rest[1] = rest[1 + 1] + 2 + l /\ room[1] = room[1 + 1] + roomFor(p)
        BY <1>8, <1>9, <2>1 DEF l
    <2>. QED
        BY <1>6, <1>7, <2>1, <2>2
<1>13. 1 \in 1 .. n /\ rest2[1] = rest[2] /\ room2[1] = room[2]
    BY <1>1
<1>14. room2[1] = RoomOf(Count(t, ACL), Count(t, EVENT))
    <2>. DEFINE u == RoomOf(Count(s, ACL), Count(s, EVENT))
                v == RoomOf(Count(t, ACL), Count(t, EVENT))
    <2>1. u = v + roomFor(p) /\ v \in Nat
        BY RoomWithoutFirst
    <2>2. room[1] = u
        BY <1>7
    <2>. HIDE DEF u, v, rest2, room2, p
    <2>3. room2[1] = v
        BY <1>11, <1>12, <1>13, <2>1, <2>2
    <2>. QED
        BY <2>3 DEF v
<1>. HIDE DEF n, r, p, l, t
<1>15. /\ rest2 \in [1 .. n -> Nat] /\ room2 \in [1 .. n -> Nat] /\ rest2[n] = 0 /\ room2[n] = 0
       /\ \A i \in 1 .. n : rest2[i] = rest[i + 1] /\ room2[i] = room[i + 1]
    <2>1. n \in 1 .. n /\ \A i \in 1 .. n : i + 1 \in 1 .. n + 1
        BY <1>1
    <2>2. \A i \in 1 .. n : rest[i + 1] \in Nat /\ room[i + 1] \in Nat
        BY <1>6, <1>7, <2>1
    <2>3. rest[n + 1] = 0 /\ room[n + 1] = 0
        BY <1>6, <1>7
    <2>. QED
        BY <2>1, <2>2, <2>3
<1>. HIDE DEF rest2, room2
<1>16. rest2[1] = r - 2 - l
    BY <1>1, <1>3, <1>6, <1>12, <1>13
<1>17. /\ \A i, j \in 1 .. n : i <= j => rest2[j] <= rest2[i]
       /\ \A i \in 1 .. n : rest2[i] <= room2[i]
    <2>1. \A i, j \in 1 .. n : i + 1 \in 1 .. n + 1 /\ (i <= j => i + 1 <= j + 1)
        BY <1>1
    <2>2. \A i, j \in 1 .. n : i <= j => rest[j + 1] <= rest[i + 1]
        BY <1>6, <2>1
    <2>3. \A i \in 1 .. n : rest[i + 1] <= room[i + 1]
        BY <1>7, <2>1
    <2>. QED
        BY <1>15, <2>2, <2>3
<1>18. ASSUME NEW i \in 1 .. n - 1
       PROVE  /\ rest2[i] = rest2[i + 1] + 2 + Len(t[i])
              /\ room2[i] = room2[i + 1] + roomFor(t[i])
              /\ LiesAt(less, r - 2 - l - rest2[i], t[i])
    <2>1. i + 1 \in 1 .. n /\ i \in 1 .. n /\ t[i] = s[i + 1]
        BY <1>1, <1>4
    <2>. DEFINE q == s[i + 1]
                x == rest[i + 1]
                y == rest[i + 1 + 1]
                k == Len(q)
    <2>2. rest2[i] = x /\ rest2[i + 1] = y /\ x = y + 2 + k /\ x \in Nat /\ y \in Nat /\ k \in Nat
        BY <1>1, <1>2, <1>6, <1>8, <1>15, <2>1
    <2>3. room2[i] = room2[i + 1] + roomFor(q)
        BY <1>9, <1>15, <2>1
    <2>4. x <= rest[2]
        BY <1>1, <1>6, <2>1
    <2>5. LiesAt(ring, r - x, q)
        BY <1>10, <2>1
    <2>. DEFINE m == r - 2 - l - x
    <2>6. x + 2 + l <= r /\ k + 2 <= x /\ r - x = m + 2 + l /\ m \in Nat
        <3>1. x + 2 + l <= r
            <4>. DEFINE e == rest[2]
            <4>1. r = e + 2 + l /\ e \in Nat /\ l \in Nat
                BY <1>3, <1>6, <1>12
            <4>2. x <= e /\ x \in Nat
                BY <2>2, <2>4
            <4>. HIDE DEF e, x
            <4>. QED
                BY <4>1, <4>2
        <3>. HIDE DEF x, y, k, q
        <3>. QED
            BY <1>1, <1>3, <2>2, <3>1
    <2>7. m + 2 + k <= r - 2 - l
        <3>. HIDE DEF x, y, k, q
        <3>. QED
            BY <1>1, <1>3, <2>2, <2>6
    <2>. HIDE DEF x, y, k, m
    <2>8. less[m + 1] = ring[m + 2 + l + 1] /\ less[m + 2] = ring[m + 2 + l + 2]
          /\ \A h \in 1 .. k : less[m + 2 + h] = ring[m + 2 + l + 2 + h]
        <3>1. ASSUME NEW g \in Nat, 0 < g, g <= r - 2 - l
              PROVE  less[g] = ring[g + 2 + l]
            BY <1>1, <1>3, <1>5, <3>1
        <3>2. less[m + 1] = ring[m + 1 + 2 + l] /\ less[m + 2] = ring[m + 2 + 2 + l]
            <4>1. 0 < m + 1 /\ m + 1 <= r - 2 - l /\ 0 < m + 2 /\ m + 2 <= r - 2 - l
                  /\ m + 1 \in Nat /\ m + 2 \in Nat
                BY <1>1, <1>3, <2>2, <2>6, <2>7
            <4>. QED
                BY <3>1, <4>1
        <3>3. ASSUME NEW h \in 1 .. k
              PROVE  less[m + 2 + h] = ring[m + 2 + h + 2 + l]
            BY <1>1, <1>3, <2>2, <2>6, <2>7, <3>1
        <3>4. m + 1 + 2 + l = m + 2 + l + 1 /\ m + 2 + 2 + l = m + 2 + l + 2
              /\ \A h \in 1 .. k : m + 2 + h + 2 + l = m + 2 + l + 2 + h
            BY <1>3, <2>2, <2>6
        <3>. QED
            BY <3>2, <3>3, <3>4
    <2>9. LiesAt(less, m, q)
        <3>1. LiesAt(ring, m + 2 + l, q)
            BY <2>5, <2>6
        <3>. QED
            BY <2>8, <3>1 DEF LiesAt, k
    <2>. QED
        BY <2>1, <2>2, <2>3, <2>9 DEF k, m
<1>19. Framed(less, t, rest2, room2)
    <2>1. Len(t) + 1 = n
        BY <1>1, <1>4
    <2>. QED
        BY <1>4, <1>5, <1>14, <1>15, <1>16, <1>17, <1>18, <2>1 DEF Framed, RoomOf
<1>. QED
    BY <1>19 DEF FramedSomehow, t

-----------------------------------------------------------------------------
(* What the controller hands over is a packet, and the host's flow control *)
(* let it.                                                                 *)
LEMMA ArrivesAsPacket ==
    ASSUME NEW data \in mayArrive, sends \in Nat
    PROVE  /\ data \in Packets
           /\ \/ data[1] = ACL /\ inFlight(ACL) < AclNum
              \/ data[1] = EVENT /\ inFlight(EVENT) < EventsInFlight
<1>1. ASSUME NEW type \in {ACL, EVENT}, NEW n \in Nat \ {0}, data = <<type>> \o [i \in 1 .. n - 1 |-> sends]
      PROVE  data \in Seq(Nat) /\ Len(data) = n /\ data[1] = type
    <2>. DEFINE f == [i \in 1 .. n - 1 |-> sends]
    <2>1. f \in Seq(Nat) /\ Len(f) = n - 1
        BY FunctionIsSeq
    <2>2. <<type>> \in Seq(Nat) /\ Len(<<type>>) = 1 /\ <<type>>[1] = type
        BY DEF ACL, EVENT
    <2>. HIDE DEF f
    <2>3. data = <<type>> \o f
        BY <1>1 DEF f
    <2>. QED
        BY <2>1, <2>2, <2>3, ConcatProperties
<1>2. CASE \E n \in AclLengths : data = <<ACL>> \o [i \in 1 .. n - 1 |-> sends] /\ inFlight(ACL) < AclNum
    <2>1. PICK n \in AclLengths : data = <<ACL>> \o [i \in 1 .. n - 1 |-> sends] /\ inFlight(ACL) < AclNum
        BY <1>2
    <2>2. n \in Nat \ {0}
        BY TransportConstants
    <2>3. data \in Seq(Nat) /\ Len(data) = n /\ data[1] = ACL
        BY <1>1, <2>1, <2>2
    <2>4. Len(data) > 0 /\ Len(data) \in AclLengths
        BY <2>2, <2>3
    <2>5. data \in Packets
        BY <2>3, <2>4 DEF Packets
    <2>. QED
        BY <2>1, <2>3, <2>5
<1>3. CASE \E n \in EventLengths : data = <<EVENT>> \o [i \in 1 .. n - 1 |-> sends] /\ inFlight(EVENT) < EventsInFlight
    <2>1. PICK n \in EventLengths : data = <<EVENT>> \o [i \in 1 .. n - 1 |-> sends] /\ inFlight(EVENT) < EventsInFlight
        BY <1>3
    <2>2. n \in Nat \ {0}
        BY TransportConstants
    <2>3. data \in Seq(Nat) /\ Len(data) = n /\ data[1] = EVENT
        BY <1>1, <2>1, <2>2
    <2>4. Len(data) > 0 /\ Len(data) \in EventLengths
        BY <2>2, <2>3
    <2>5. data \in Packets
        BY <2>3, <2>4 DEF Packets
    <2>. QED
        BY <2>1, <2>3, <2>5
<1>. QED
    BY <1>2, <1>3 DEF mayArrive

(* There is room for it: the ring holds no more than the room of the       *)
(* packets in it, and the storage is the room of all that may be under way.*)
LEMMA ThereIsRoom ==
    ASSUME EventsInFlight <= EventNum, PacketsLie, NEW data \in mayArrive
    PROVE  Len(hci_ringbuffer) + 2 + Len(data) <= hci_ringbuffer_storage
<1>. DEFINE a == Count(accepted, ACL)
            e == Count(accepted, EVENT)
            A == aclRoom
            E == eventRoom
            l == Len(data)
            r == Len(hci_ringbuffer)
            N == AclNum
            M == EventNum
<1>1. /\ data \in Packets
      /\ \/ data[1] = ACL /\ a < N
         \/ data[1] = EVENT /\ e < EventsInFlight
    BY ArrivesAsPacket DEF inFlight, Count, PacketsLie
<1>2. A \in Nat /\ E \in Nat /\ 2 + l <= roomFor(data) /\ l \in Nat /\ r \in Nat
    BY <1>1, Longest, LenProperties DEF Packets, PacketsLie
<1>3. N \in Nat /\ M \in Nat /\ EventsInFlight \in Nat /\ EventsInFlight <= M
    BY TransportConstants
<1>4. a \in Nat /\ e \in Nat /\ a <= N /\ e <= EventsInFlight
    BY <1>1, CountAppend DEF PacketsLie
<1>5. r <= RoomOf(a, e)
    <2>1. PICK rest, room : Framed(hci_ringbuffer, accepted, rest, room)
        BY DEF PacketsLie, FramedSomehow
    <2>2. 1 \in 1 .. Len(accepted) + 1
        BY LenProperties DEF PacketsLie
    <2>. QED
        BY <2>1, <2>2 DEF Framed, RoomOf
<1>6. hci_ringbuffer_storage = RoomOf(N, M)
    <2>1. N * A = A * N /\ M * E = E * M
        <3>. HIDE DEF A, E, N, M
        <3>. QED
            BY <1>2, <1>3
    <2>. QED
        BY <2>1 DEF hci_ringbuffer_storage, RoomOf, aclRoom, eventRoom
<1>. HIDE DEF a, e, A, E, l, r, N, M
<1>7. ASSUME NEW x \in Nat, NEW y \in Nat, x <= N, y <= M
      PROVE  RoomOf(x, y) <= RoomOf(N, M)
    <2>1. A * x <= A * N /\ A * x \in Nat /\ A * N \in Nat
        BY <1>2, <1>3, <1>7
    <2>2. E * y <= E * M /\ E * y \in Nat /\ E * M \in Nat
        BY <1>2, <1>3, <1>7
    <2>. QED
        BY <2>1, <2>2 DEF RoomOf, A, E
<1>8. CASE data[1] = ACL /\ a < N
    <2>1. data[1] # EVENT
        BY <1>8 DEF ACL, EVENT
    <2>2. a + 1 <= N /\ e <= M /\ a + 1 \in Nat
        BY <1>3, <1>4, <1>8
    <2>3. RoomOf(a + 1, e) = RoomOf(a, e) + roomFor(data)
        BY <1>1, <1>4, <1>8, <2>1, RoomForOneMore
    <2>4. RoomOf(a + 1, e) <= RoomOf(N, M) /\ RoomOf(a, e) \in Nat /\ RoomOf(N, M) \in Nat
        BY <1>3, <1>4, <1>7, <2>2, RoomIsANumber
    <2>5. roomFor(data) \in Nat
        BY <1>2 DEF roomFor, A, E
    <2>. QED
        BY <1>2, <1>5, <1>6, <2>3, <2>4, <2>5 DEF r, l
<1>9. CASE data[1] = EVENT /\ e < EventsInFlight
    <2>1. data[1] # ACL
        BY <1>9 DEF ACL, EVENT
    <2>2. a <= N /\ e + 1 <= M /\ e + 1 \in Nat
        BY <1>3, <1>4, <1>9
    <2>3. RoomOf(a, e + 1) = RoomOf(a, e) + roomFor(data)
        BY <1>1, <1>4, <1>9, <2>1, RoomForOneMore
    <2>4. RoomOf(a, e + 1) <= RoomOf(N, M) /\ RoomOf(a, e) \in Nat /\ RoomOf(N, M) \in Nat
        BY <1>3, <1>4, <1>7, <2>2, RoomIsANumber
    <2>5. roomFor(data) \in Nat
        BY <1>2 DEF roomFor, A, E
    <2>. QED
        BY <1>2, <1>5, <1>6, <2>3, <2>4, <2>5 DEF r, l
<1>. QED
    BY <1>1, <1>8, <1>9

(* host_recv_pkt_cb stores the packet behind its tag.                      *)
LEMMA ReceiveStep ==
    ASSUME EventsInFlight <= EventNum, PacketsLie, NEW data \in mayArrive, host_recv_pkt_cb(data)
    PROVE  PacketsLie'
<1>. DEFINE ring == hci_ringbuffer
            tag == little_endian_store_16(Len(data))
            one == ring \o tag
            two == one \o data
            r == Len(ring)
            l == Len(data)
            S == hci_ringbuffer_storage
<1>1. /\ data \in Packets /\ data \in Seq(Nat) /\ l \in Nat /\ ring \in Seq(Nat) /\ r \in Nat
      /\ accepted \in Seq(Packets)
    BY ArrivesAsPacket, LenProperties DEF PacketsLie, Packets
<1>2. r + 2 + l <= S
    BY ThereIsRoom
<1>3. S \in Nat
    BY StorageIsANumber
<1>4. tag \in Seq(Nat) /\ Len(tag) = 2 /\ tag[1] = l % 256 /\ tag[2] = l \div 256
    BY <1>1 DEF little_endian_store_16
<1>. HIDE DEF tag
<1>5. /\ one \in Seq(Nat) /\ Len(one) = r + 2
      /\ \A i \in 1 .. r + 2 : one[i] = IF i <= r THEN ring[i] ELSE tag[i - r]
    <2>1. /\ one \in Seq(Nat) /\ Len(one) = Len(ring) + Len(tag)
          /\ \A i \in 1 .. Len(ring) + Len(tag) : one[i] = IF i <= Len(ring) THEN ring[i] ELSE tag[i - Len(ring)]
        <3>1. ring \in Seq(Nat) /\ tag \in Seq(Nat)
            BY <1>1, <1>4
        <3>. QED
            BY <3>1, ConcatProperties
    <2>. QED
        BY <1>4, <2>1
<1>. HIDE DEF one
<1>6. /\ two \in Seq(Nat) /\ Len(two) = r + 2 + l
      /\ \A i \in 1 .. r + 2 + l : two[i] = IF i <= r + 2 THEN one[i] ELSE data[i - (r + 2)]
    BY <1>1, <1>5, ConcatProperties
<1>. HIDE DEF S, two, r, l
<1>7. ~(S - r < l) /\ ~(S - r < 2) /\ ~(S - (r + 2) < l)
    BY <1>1, <1>2, <1>3
<1>8. put(put(ring, tag), data) = two
    <2>1. put(ring, tag) = one
        BY <1>4, <1>7 DEF put, S, r, one
    <2>2. put(one, data) = two
        BY <1>5, <1>7 DEF put, S, l, two
    <2>. QED
        BY <2>1, <2>2
<1>9. hci_ringbuffer' = two /\ accepted' = Append(accepted, data) /\ sends' = sends + 1
      /\ dropped' = dropped /\ garbled' = garbled
    BY <1>7, <1>8 DEF host_recv_pkt_cb, hci_ringbuffer_free, S, r, l, tag
<1>10. Extends(two, ring, 2 + l)
    <2>1. r + 2 + l = r + (2 + l) /\ \A k \in 1 .. r : k \in 1 .. r + 2 + l /\ k \in 1 .. r + 2 /\ k <= r + 2 /\ k <= r
        BY <1>1
    <2>2. \A k \in 1 .. r : two[k] = one[k] /\ one[k] = ring[k]
        BY <1>5, <1>6, <2>1
    <2>. QED
        BY <1>6, <2>1, <2>2 DEF Extends, r
<1>11. LiesAt(two, r, data)
    <2>1. two[r + 1] = l % 256 /\ two[r + 2] = l \div 256
        BY <1>1, <1>4, <1>5, <1>6
    <2>2. ASSUME NEW k \in 1 .. l
          PROVE  two[r + 2 + k] = data[k]
        BY <1>1, <1>6
    <2>. QED
        BY <2>1, <2>2 DEF LiesAt, l
<1>12. FramedSomehow(two, Append(accepted, data))
    BY <1>1, <1>6, <1>10, <1>11, FramedAppend DEF PacketsLie, r, l
<1>13. /\ Count(Append(accepted, data), ACL) <= AclNum
       /\ Count(Append(accepted, data), EVENT) <= EventsInFlight
    <2>1. \/ data[1] = ACL /\ data[1] # EVENT /\ Count(accepted, ACL) < AclNum
          \/ data[1] = EVENT /\ data[1] # ACL /\ Count(accepted, EVENT) < EventsInFlight
        BY ArrivesAsPacket DEF inFlight, Count, PacketsLie, ACL, EVENT
    <2>2. Count(accepted, ACL) <= AclNum /\ Count(accepted, EVENT) <= EventsInFlight
        BY DEF PacketsLie
    <2>3. /\ Count(accepted, ACL) \in Nat /\ Count(accepted, EVENT) \in Nat
          /\ Count(Append(accepted, data), ACL) = Count(accepted, ACL) + (IF data[1] = ACL THEN 1 ELSE 0)
          /\ Count(Append(accepted, data), EVENT) = Count(accepted, EVENT) + (IF data[1] = EVENT THEN 1 ELSE 0)
        BY <1>1, CountAppend
    <2>. QED
        BY <2>1, <2>2, <2>3, TransportConstants
<1>14. Append(accepted, data) \in Seq(Packets) /\ sends + 1 \in Nat
    BY <1>1, AppendProperties DEF PacketsLie
<1>. QED
    BY <1>6, <1>9, <1>12, <1>13, <1>14 DEF PacketsLie

(* transport_deliver_packets hands up the oldest packet, or there is none. *)
LEMMA DeliverStep ==
    ASSUME PacketsLie, transport_deliver_packets
    PROVE  PacketsLie'
<1>. DEFINE ring == hci_ringbuffer
            r == Len(ring)
<1>1. ring \in Seq(Nat) /\ r \in Nat /\ accepted \in Seq(Packets) /\ sends \in Nat
    BY LenProperties DEF PacketsLie
<1>2. CASE ring = <<>>
    BY <1>2 DEF transport_deliver_packets, PacketsLie
<1>3. CASE ring # <<>>
    <2>. DEFINE length == IF Len(ring) = 1 THEN 0 ELSE little_endian_read_16(ring)
                end == least(2 + length, Len(ring))
                p == accepted[1]
                k == Len(p)
    <2>1. /\ garbled' = (accepted = <<>> \/ length # Len(accepted[1])
                                  \/ SubSeq(ring, 3, end) # accepted[1])
          /\ ring' = SubSeq(ring, end + 1, Len(ring))
          /\ accepted' = IF accepted = <<>> THEN <<>> ELSE Tail(accepted)
          /\ dropped' = dropped /\ sends' = sends
        BY <1>3 DEF transport_deliver_packets
    <2>2. PICK rest, room : Framed(ring, accepted, rest, room)
        BY DEF PacketsLie, FramedSomehow
    <2>3. r > 0
        BY <1>1, <1>3, EmptySeq
    <2>4. accepted # <<>> /\ Len(accepted) \in Nat /\ Len(accepted) > 0
        <3>1. Len(accepted) # 0
            BY <2>2, <2>3 DEF Framed
        <3>. QED
            BY <1>1, <3>1, EmptySeq, LenProperties
    <2>5. p \in Packets /\ p \in Seq(Nat) /\ k \in Nat
        BY <1>1, <2>4, ElementOfSeq, LenProperties DEF Packets
    <2>6. LiesAt(ring, 0, p) /\ r >= 2 + k
        <3>1. 1 \in 1 .. Len(accepted) /\ 1 + 1 \in 1 .. Len(accepted) + 1
            BY <2>4
        <3>2. /\ rest[1] = r /\ rest[1] = rest[1 + 1] + 2 + k
              /\ LiesAt(ring, r - rest[1], p) /\ rest[1 + 1] \in Nat
            BY <2>2, <3>1 DEF Framed
        <3>3. r - rest[1] = 0
            BY <1>1, <3>2
        <3>4. LiesAt(ring, 0, p)
            BY <3>2, <3>3
        <3>. HIDE DEF r, p, k
        <3>. QED
            BY <1>1, <2>5, <3>2, <3>4
    <2>7. /\ ring[1] = k % 256 /\ ring[2] = k \div 256
          /\ \A i \in 1 .. k : ring[2 + i] = p[i]
        <3>1. /\ ring[0 + 1] = k % 256 /\ ring[0 + 2] = k \div 256
              /\ \A i \in 1 .. k : ring[0 + 2 + i] = p[i]
            BY <2>6 DEF LiesAt
        <3>. HIDE DEF p, k, length, end
        <3>. QED
            BY <2>5, <3>1
    <2>8. length = k
        <3>1. (k % 256) + 256 * (k \div 256) = k
            <4>. HIDE DEF k
            <4>. QED
                BY <2>5
        <3>2. little_endian_read_16(ring) = k
            BY <2>7, <3>1 DEF little_endian_read_16
        <3>3. Len(ring) # 1
            <4>. HIDE DEF p, k, length, end, r
            <4>1. r # 1
                BY <1>1, <2>5, <2>6
            <4>. QED
                BY <4>1 DEF r
        <3>. QED
            BY <3>2, <3>3
    <2>9. end = 2 + k
        BY <1>1, <2>5, <2>6, <2>8 DEF least
    <2>. HIDE DEF length, end, p, k
    <2>10. SubSeq(ring, 3, 2 + k) = p
        <3>. DEFINE sub == SubSeq(ring, 3, 2 + k)
        <3>1. sub \in Seq(Nat) /\ Len(sub) = k /\ \A i \in 1 .. k : sub[i] = ring[2 + i]
            <4>1. PICK m \in Nat : m = 2
                OBVIOUS
            <4>2. m + 1 = 3 /\ m + k = 2 + k
                BY <4>1
            <4>. QED
                BY <1>1, <2>5, <2>6, <4>1, <4>2, Part
        <3>. HIDE DEF sub
        <3>. QED
            BY <2>5, <2>7, <3>1, SeqEqual DEF k, sub
    <2>11. ~garbled'
        BY <2>1, <2>4, <2>8, <2>9, <2>10 DEF k, p
    <2>. DEFINE less == SubSeq(ring, 3 + k, r)
    <2>12. ring' = less
        <3>1. 2 + k + 1 = 3 + k
            BY <2>5
        <3>. QED
            BY <2>1, <2>9, <3>1
    <2>13. less \in Seq(Nat) /\ Behind(less, ring, 2 + k)
        <3>. DEFINE m == 2 + k
                    h == r - m
        <3>1. m \in Nat /\ h \in Nat /\ m + h = r /\ m + 1 = 3 + k
            <4>. HIDE DEF r
            <4>. QED
                BY <1>1, <2>5, <2>6
        <3>. HIDE DEF m, h
        <3>2. /\ SubSeq(ring, m + 1, m + h) \in Seq(Nat) /\ Len(SubSeq(ring, m + 1, m + h)) = h
              /\ \A i \in 1 .. h : SubSeq(ring, m + 1, m + h)[i] = ring[m + i]
            BY <1>1, <3>1, Part
        <3>3. less \in Seq(Nat) /\ Len(less) = h /\ \A i \in 1 .. h : less[i] = ring[m + i]
            BY <3>1, <3>2
        <3>. HIDE DEF less
        <3>4. \A i \in 1 .. h : less[i] = ring[i + m]
            BY <3>1, <3>3
        <3>. QED
            BY <3>3, <3>4 DEF Behind, m, h
    <2>14. FramedSomehow(less, Tail(accepted))
        BY <1>1, <2>2, <2>4, <2>13, FramedTail DEF FramedSomehow, k, p
    <2>15. Tail(accepted) \in Seq(Packets)
        BY <1>1, <2>4, HeadTailProperties
    <2>16. /\ Count(Tail(accepted), ACL) <= AclNum
           /\ Count(Tail(accepted), EVENT) <= EventsInFlight
        <3>1. Count(accepted, ACL) <= AclNum /\ Count(accepted, EVENT) <= EventsInFlight
            BY DEF PacketsLie
        <3>2. /\ Count(accepted, ACL) \in Nat /\ Count(accepted, EVENT) \in Nat
              /\ Count(Tail(accepted), ACL) \in Nat /\ Count(Tail(accepted), EVENT) \in Nat
              /\ Count(Tail(accepted), ACL) <= Count(accepted, ACL)
              /\ Count(Tail(accepted), EVENT) <= Count(accepted, EVENT)
            BY <1>1, <2>4, CountTail
        <3>. QED
            BY <3>1, <3>2, TransportConstants
    <2>. QED
        BY <1>1, <2>1, <2>4, <2>11, <2>12, <2>13, <2>14, <2>15, <2>16 DEF PacketsLie
<1>. QED
    BY <1>2, <1>3

(* Every step keeps the packets where they are. The storage is sized for   *)
(* no more than EventNum events under way.                                 *)
LEMMA PacketsStay ==
    ASSUME EventsInFlight <= EventNum
    PROVE  PacketsLie /\ [Next]_vars => PacketsLie'
<1>. SUFFICES ASSUME PacketsLie, [Next]_vars
              PROVE  PacketsLie'
    OBVIOUS
<1>1. ASSUME NEW data \in mayArrive, host_recv_pkt_cb(data)
      PROVE  PacketsLie'
    BY <1>1, ReceiveStep
<1>2. CASE transport_deliver_packets
    BY <1>2, DeliverStep
<1>3. CASE UNCHANGED <<hci_ringbuffer, accepted, dropped, garbled, sends>>
    BY <1>3 DEF PacketsLie
<1>4. ASSUME NEW t \in Tasks,
             (\E c \in Commands : safe(t, c)) \/ calling(t)
      PROVE  PacketsLie'
    BY <1>3, <1>4 DEF safe, calling, btstack_run_loop_freertos_execute_on_main_thread, taskTrigger,
                      transportVars
<1>5. CASE host_send_pkt_available_cb \/ controller \/ waitTimesOut \/ UNCHANGED vars
    BY <1>3, <1>5 DEF host_send_pkt_available_cb, controller, recvFlag, vhciTrigger, waitTimesOut,
                      transportVars, vars
<1>6. CASE ifSignalSent \/ clearSignalSent \/ ifPacketsToDeliver \/ clearPacketsToDeliver
    BY <1>3, <1>6 DEF ifSignalSent, clearSignalSent, ifPacketsToDeliver, clearPacketsToDeliver,
                      transportVars
<1>7. CASE popCallback \/ cmd_callback \/ beginWait \/ wakeUp
    BY <1>3, <1>7 DEF popCallback, cmd_callback, beginWait, wakeUp, transportVars
<1>. QED
    BY <1>1, <1>2, <1>4, <1>5, <1>6, <1>7 DEF Next, runLoop

(* At first there are none. *)
LEMMA PacketsLieAtFirst == Init => PacketsLie
<1>. SUFFICES ASSUME Init PROVE PacketsLie
    OBVIOUS
<1>1. hci_ringbuffer = <<>> /\ accepted = <<>> /\ ~dropped /\ ~garbled /\ sends = 0
    BY DEF Init
<1>2. Len(<<>>) = 0 /\ <<>> \in Seq(Nat) /\ <<>> \in Seq(Packets)
    BY EmptySeq
<1>3. \A type : Count(<<>>, type) = 0
    <2>1. SUFFICES ASSUME NEW type PROVE Count(<<>>, type) = 0
        OBVIOUS
    <2>2. {i \in 1 .. Len(<<>>) : <<>>[i][1] = type} = {}
        BY <1>2
    <2>. QED
        BY <2>2, FS_EmptySet DEF Count
<1>4. RoomOf(0, 0) = 0
    <2>1. aclRoom * 0 = 0 /\ eventRoom * 0 = 0
        BY Longest
    <2>. QED
        BY <2>1 DEF RoomOf
<1>5. Framed(<<>>, <<>>, [i \in 1 .. 1 |-> 0], [i \in 1 .. 1 |-> 0])
    <2>1. aclRoom * Count(<<>>, ACL) + eventRoom * Count(<<>>, EVENT) = 0
        BY <1>3, <1>4 DEF RoomOf
    <2>. QED
        BY <1>2, <2>1 DEF Framed
<1>6. FramedSomehow(hci_ringbuffer, accepted)
    BY <1>1, <1>5 DEF FramedSomehow
<1>. QED
    BY <1>1, <1>2, <1>3, <1>6, TransportConstants DEF PacketsLie

(* No packet that the storage was sized for is dropped or garbled. *)
LEMMA PacketsAlwaysLie ==
    ASSUME EventsInFlight <= EventNum
    PROVE  Spec => []PacketsLie
<1>1. PacketsLie /\ [Next]_vars => PacketsLie'
    BY PacketsStay
<1>. QED
    BY <1>1, PacketsLieAtFirst, PTL DEF Spec

-----------------------------------------------------------------------------
(* cmd_callback is only called with a command: from the moment that a task *)
(* puts the registration on the list, its context is one.                  *)
ContextIsSet ==
    callbacks \/ loop = "call" \/ (\E t \in Tasks : task[t] = "add") => context \in Commands

TransportTypes == TypeOK /\ ContextIsSet

(* The bytes of the ring stay in the storage: whatever is put there.       *)
RingFits(ring) == ring \in Seq(Nat) /\ Len(ring) <= hci_ringbuffer_storage

(* btstack_ring_buffer_write leaves the storage as it is or fills some of  *)
(* it.                                                                     *)
LEMMA PutFits ==
    ASSUME NEW ring, RingFits(ring), NEW data \in Seq(Nat)
    PROVE  RingFits(put(ring, data))
<1>. DEFINE S == hci_ringbuffer_storage
<1>1. S \in Nat
    BY StorageIsANumber
<1>2. ring \in Seq(Nat) /\ Len(ring) \in Nat /\ Len(data) \in Nat /\ Len(ring) <= S
    BY LenProperties DEF RingFits
<1>3. ring \o data \in Seq(Nat) /\ Len(ring \o data) = Len(ring) + Len(data)
    BY <1>2, ConcatProperties
<1>4. CASE S - Len(ring) < Len(data)
    BY <1>2, <1>4 DEF put, RingFits
<1>5. CASE ~(S - Len(ring) < Len(data))
    <2>1. Len(ring) + Len(data) <= S
        <3>. DEFINE a == Len(ring)
                    b == Len(data)
        <3>. HIDE DEF a, b, S
        <3>1. a + b <= S
            BY <1>1, <1>2, <1>5 DEF a, b
        <3>. QED
            BY <3>1 DEF a, b
    <2>2. put(ring, data) = ring \o data
        BY <1>5 DEF put
    <2>. QED
        BY <1>3, <2>1, <2>2 DEF RingFits
<1>. QED
    BY <1>4, <1>5

(* host_recv_pkt_cb never writes past the storage, whether the packet fits *)
(* or not ...                                                              *)
LEMMA ReceiveTypes ==
    ASSUME TransportTypes, NEW data \in mayArrive, host_recv_pkt_cb(data)
    PROVE  TransportTypes'
<1>. DEFINE tag == little_endian_store_16(Len(data))
<1>1. data \in Seq(Nat) /\ Len(data) \in Nat
    BY ArrivesAsPacket, LenProperties DEF TransportTypes, TypeOK, Packets
<1>2. tag \in Seq(Nat)
    BY <1>1 DEF little_endian_store_16
<1>3. RingFits(hci_ringbuffer)
    BY DEF TransportTypes, TypeOK, RingFits
<1>4. RingFits(put(put(hci_ringbuffer, tag), data))
    BY <1>1, <1>2, <1>3, PutFits
<1>5. RingFits(hci_ringbuffer')
    BY <1>3, <1>4 DEF host_recv_pkt_cb
<1>6. accepted' \in Seq(Seq(Nat))
    <2>1. accepted \in Seq(Seq(Nat)) /\ Append(accepted, data) \in Seq(Seq(Nat))
        BY <1>1, AppendProperties DEF TransportTypes, TypeOK
    <2>2. accepted' = accepted \/ accepted' = Append(accepted, data)
        BY DEF host_recv_pkt_cb
    <2>. QED
        BY <2>1, <2>2
<1>9. dropped' \in BOOLEAN /\ vhci' \in {"idle", "flag", "trigger"}
    <2>1. dropped \in BOOLEAN /\ vhci \in {"idle", "flag", "trigger"}
        BY DEF TransportTypes, TypeOK
    <2>2. (dropped' = dropped \/ dropped' = TRUE) /\ (vhci' = vhci \/ vhci' = "flag")
        BY DEF host_recv_pkt_cb
    <2>. QED
        BY <2>1, <2>2
<1>10. sends' \in Nat
    <2>1. sends \in Nat
        BY DEF TransportTypes, TypeOK
    <2>2. sends' = sends + 1
        BY DEF host_recv_pkt_cb
    <2>. QED
        BY <2>1, <2>2
<1>7. hci_ringbuffer' \in Seq(Nat) /\ Len(hci_ringbuffer') <= hci_ringbuffer_storage
    BY <1>5 DEF RingFits
<1>8. UNCHANGED <<callVars, transport_signal_sent, transport_packets_to_deliver, notified, loop, garbled>>
    BY DEF host_recv_pkt_cb
<1>. QED
    BY <1>6, <1>7, <1>8, <1>9, <1>10 DEF TransportTypes, TypeOK, ContextIsSet, callVars

(* ... and transport_deliver_packets never reads past what is stored. *)
LEMMA DeliverTypes ==
    ASSUME TransportTypes, transport_deliver_packets
    PROVE  TransportTypes'
<1>. DEFINE ring == hci_ringbuffer
            r == Len(ring)
            length == IF r = 1 THEN 0 ELSE little_endian_read_16(ring)
            end == least(2 + length, r)
<1>1. ring \in Seq(Nat) /\ r \in Nat /\ accepted \in Seq(Seq(Nat)) /\ r <= hci_ringbuffer_storage
    BY LenProperties DEF TransportTypes, TypeOK
<1>2. RingFits(ring')
    <2>1. CASE ring = <<>>
        BY <1>1, <2>1 DEF transport_deliver_packets, RingFits
    <2>2. CASE ring # <<>>
        <3>1. r > 0
            BY <1>1, <2>2, EmptySeq
        <3>2. length \in Nat
            <4>1. CASE r = 1
                BY <4>1
            <4>2. CASE r # 1
                <5>1. 1 \in 1 .. r /\ 2 \in 1 .. r
                    <6>. HIDE DEF r
                    <6>. QED
                        BY <1>1, <3>1, <4>2
                <5>2. ring[1] \in Nat /\ ring[2] \in Nat
                    BY <1>1, <5>1, ElementOfSeq
                <5>3. little_endian_read_16(ring) \in Nat
                    BY <5>2 DEF little_endian_read_16
                <5>. QED
                    BY <4>2, <5>3
            <4>. QED
                BY <4>1, <4>2
        <3>3. ring' = SubSeq(ring, end + 1, r)
            BY <2>2 DEF transport_deliver_packets
        <3>. HIDE DEF length
        <3>4. end \in Nat /\ end <= r
            BY <1>1, <3>2 DEF least
        <3>. DEFINE h == r - end
        <3>. HIDE DEF end
        <3>5. h \in Nat /\ end + h = r /\ h <= r
            BY <1>1, <3>4
        <3>. HIDE DEF h
        <3>6. ring' \in Seq(Nat) /\ Len(ring') = h
            BY <1>1, <3>3, <3>4, <3>5, Part
        <3>7. h <= hci_ringbuffer_storage
            <4>1. hci_ringbuffer_storage \in Nat
                BY StorageIsANumber
            <4>. HIDE DEF r
            <4>. QED
                BY <1>1, <3>5, <4>1
        <3>. QED
            BY <3>6, <3>7 DEF RingFits
    <2>. QED
        BY <2>1, <2>2
<1>3. accepted' \in Seq(Seq(Nat))
    <2>1. accepted' \in {accepted, <<>>, Tail(accepted)} /\ (accepted' = Tail(accepted) => accepted # <<>> \/ accepted' = <<>> \/ accepted' = accepted)
        BY DEF transport_deliver_packets
    <2>. QED
        BY <1>1, <2>1, HeadTailProperties, EmptySeq
<1>4. garbled' \in BOOLEAN
    BY DEF transport_deliver_packets, TransportTypes, TypeOK
<1>5. /\ loop = "deliver" /\ loop' \in {"deliver", "callbacks"}
      /\ UNCHANGED <<callVars, transport_packets_to_deliver, dropped, sends, transport_signal_sent, notified, vhci>>
    BY DEF transport_deliver_packets
<1>6. ring' \in Seq(Nat) /\ Len(ring') <= hci_ringbuffer_storage
    BY <1>2 DEF RingFits
<1>. QED
    BY <1>3, <1>4, <1>5, <1>6 DEF TransportTypes, TypeOK, ContextIsSet, callVars

(* The bytes, which only host_recv_pkt_cb and transport_deliver_packets    *)
(* touch, the flags, and the calls of the other tasks.                     *)
BytesTyped ==
    /\ hci_ringbuffer \in Seq(Nat) /\ Len(hci_ringbuffer) <= hci_ringbuffer_storage
    /\ accepted \in Seq(Seq(Nat))
FlagsTyped ==
    /\ transport_signal_sent \in BOOLEAN /\ transport_packets_to_deliver \in BOOLEAN
    /\ notified \in BOOLEAN
    /\ vhci \in {"idle", "flag", "trigger"}
    /\ loop \in {"sent", "clear sent", "packets", "clear packets", "deliver", "callbacks",
                 "call", "timers", "wait"}
    /\ callbacks \in BOOLEAN /\ dropped \in BOOLEAN /\ garbled \in BOOLEAN /\ owed \in BOOLEAN
CallsTyped ==
    /\ context \in Commands \cup {none}
    /\ task \in [Tasks -> {"idle", "add", "trigger"}]
    /\ asked \in SUBSET Commands /\ sends \in Nat /\ calls \in Nat
    /\ ContextIsSet

(* Together they are the types. *)
LEMMA TypesSplit == TransportTypes <=> BytesTyped /\ FlagsTyped /\ CallsTyped
    BY DEF TransportTypes, TypeOK, BytesTyped, FlagsTyped, CallsTyped, ContextIsSet

(* Steps that only move the run loop or the controller leave the calls. *)
LEMMA CallsStay ==
    CallsTyped /\ UNCHANGED <<context, task, asked, sends, calls>>
        /\ (callbacks' => callbacks) /\ (loop' = "call" => loop = "call" \/ callbacks) => CallsTyped'
    BY DEF CallsTyped, ContextIsSet

(* Every other step leaves the bytes alone. *)
LEMMA TransportTypesStay == TransportTypes /\ [Next]_vars => TransportTypes'
<1>. SUFFICES ASSUME TransportTypes, [Next]_vars
              PROVE  TransportTypes'
    OBVIOUS
<1>1. ASSUME NEW data \in mayArrive, host_recv_pkt_cb(data)
      PROVE  TransportTypes'
    BY <1>1, ReceiveTypes
<1>2. CASE transport_deliver_packets
    BY <1>2, DeliverTypes
<1>3. FlagsTyped /\ BytesTyped /\ CallsTyped
    BY TypesSplit
<1>4. UNCHANGED <<hci_ringbuffer, accepted>> => BytesTyped'
    BY <1>3 DEF BytesTyped
<1>. DEFINE Kept == FlagsTyped' /\ CallsTyped' /\ UNCHANGED <<hci_ringbuffer, accepted>>
<1>k. Kept => TransportTypes'
    <2>1. BytesTyped' /\ FlagsTyped' /\ CallsTyped' => TransportTypes'
        BY DEF TransportTypes, TypeOK, BytesTyped, FlagsTyped, CallsTyped, ContextIsSet
    <2>. QED
        BY <1>4, <2>1
<1>. USE DEF transportVars, callVars, btstack_run_loop_freertos_trigger
<1>5. ASSUME NEW t \in Tasks, NEW c \in Commands, safe(t, c)
      PROVE  Kept
    <2>1. /\ context' = c /\ task' = [task EXCEPT ![t] = "add"] /\ asked' = asked \cup {c}
          /\ calls' = calls + 1 /\ sends' = sends
        BY <1>5 DEF safe
    <2>2. UNCHANGED <<transport_signal_sent, transport_packets_to_deliver, notified, vhci, loop, callbacks,
                      dropped, garbled, owed>>
        BY <1>5 DEF safe
    <2>3. FlagsTyped'
        BY <1>3, <2>2 DEF FlagsTyped
    <2>4. CallsTyped'
        <3>1. calls' \in Nat /\ sends' \in Nat
            BY <1>3, <2>1 DEF CallsTyped
        <3>2. context' \in Commands /\ asked' \in SUBSET Commands
            BY <1>3, <2>1 DEF CallsTyped
        <3>3. task' \in [Tasks -> {"idle", "add", "trigger"}]
            BY <1>3, <2>1 DEF CallsTyped
        <3>. QED
            BY <3>1, <3>2, <3>3 DEF CallsTyped, ContextIsSet
    <2>. QED
        BY <1>5, <2>3, <2>4 DEF safe
<1>6. ASSUME NEW t \in Tasks, btstack_run_loop_freertos_execute_on_main_thread(t)
      PROVE  Kept
    <2>1. FlagsTyped'
        BY <1>3, <1>6 DEF btstack_run_loop_freertos_execute_on_main_thread, FlagsTyped
    <2>2. CallsTyped'
        BY <1>3, <1>6 DEF btstack_run_loop_freertos_execute_on_main_thread, CallsTyped, ContextIsSet
    <2>. QED
        BY <1>6, <2>1, <2>2 DEF btstack_run_loop_freertos_execute_on_main_thread
<1>7. ASSUME NEW t \in Tasks, taskTrigger(t)
      PROVE  Kept
    <2>1. FlagsTyped'
        BY <1>3, <1>7 DEF taskTrigger, FlagsTyped
    <2>2. CallsTyped'
        BY <1>3, <1>7 DEF taskTrigger, CallsTyped, ContextIsSet
    <2>. QED
        BY <1>7, <2>1, <2>2 DEF taskTrigger
<1>8. CASE host_send_pkt_available_cb
    <2>1. FlagsTyped'
        BY <1>3, <1>8 DEF host_send_pkt_available_cb, FlagsTyped
    <2>2. CallsTyped'
        BY <1>3, <1>8, CallsStay DEF host_send_pkt_available_cb
    <2>. QED
        <3>1. UNCHANGED <<hci_ringbuffer, accepted>>
            BY <1>8 DEF host_send_pkt_available_cb
        <3>. QED
            BY <1>k, <2>1, <2>2, <3>1
<1>9. CASE recvFlag
    <2>1. FlagsTyped'
        BY <1>3, <1>9 DEF recvFlag, FlagsTyped
    <2>2. CallsTyped'
        BY <1>3, <1>9, CallsStay DEF recvFlag
    <2>. QED
        <3>1. UNCHANGED <<hci_ringbuffer, accepted>>
            BY <1>9 DEF recvFlag
        <3>. QED
            BY <1>k, <2>1, <2>2, <3>1
<1>10. CASE vhciTrigger
    <2>1. FlagsTyped'
        BY <1>3, <1>10 DEF vhciTrigger, FlagsTyped
    <2>2. CallsTyped'
        BY <1>3, <1>10, CallsStay DEF vhciTrigger
    <2>. QED
        <3>1. UNCHANGED <<hci_ringbuffer, accepted>>
            BY <1>10 DEF vhciTrigger
        <3>. QED
            BY <1>k, <2>1, <2>2, <3>1
<1>11. CASE ifSignalSent
    <2>1. FlagsTyped'
        BY <1>3, <1>11 DEF ifSignalSent, FlagsTyped
    <2>2. CallsTyped'
        BY <1>3, <1>11, CallsStay DEF ifSignalSent
    <2>. QED
        <3>1. UNCHANGED <<hci_ringbuffer, accepted>>
            BY <1>11 DEF ifSignalSent
        <3>. QED
            BY <1>k, <2>1, <2>2, <3>1
<1>12. CASE clearSignalSent
    <2>1. FlagsTyped'
        BY <1>3, <1>12 DEF clearSignalSent, FlagsTyped
    <2>2. CallsTyped'
        BY <1>3, <1>12, CallsStay DEF clearSignalSent
    <2>. QED
        <3>1. UNCHANGED <<hci_ringbuffer, accepted>>
            BY <1>12 DEF clearSignalSent
        <3>. QED
            BY <1>k, <2>1, <2>2, <3>1
<1>13. CASE ifPacketsToDeliver
    <2>1. FlagsTyped'
        BY <1>3, <1>13 DEF ifPacketsToDeliver, FlagsTyped
    <2>2. CallsTyped'
        BY <1>3, <1>13, CallsStay DEF ifPacketsToDeliver
    <2>. QED
        <3>1. UNCHANGED <<hci_ringbuffer, accepted>>
            BY <1>13 DEF ifPacketsToDeliver
        <3>. QED
            BY <1>k, <2>1, <2>2, <3>1
<1>14. CASE clearPacketsToDeliver
    <2>1. FlagsTyped'
        BY <1>3, <1>14 DEF clearPacketsToDeliver, FlagsTyped
    <2>2. CallsTyped'
        BY <1>3, <1>14, CallsStay DEF clearPacketsToDeliver
    <2>. QED
        <3>1. UNCHANGED <<hci_ringbuffer, accepted>>
            BY <1>14 DEF clearPacketsToDeliver
        <3>. QED
            BY <1>k, <2>1, <2>2, <3>1
<1>15. CASE popCallback
    <2>1. FlagsTyped'
        BY <1>3, <1>15 DEF popCallback, FlagsTyped
    <2>2. CallsTyped'
        BY <1>3, <1>15, CallsStay DEF popCallback
    <2>. QED
        <3>1. UNCHANGED <<hci_ringbuffer, accepted>>
            BY <1>15 DEF popCallback
        <3>. QED
            BY <1>k, <2>1, <2>2, <3>1
<1>16. CASE cmd_callback
    <2>1. FlagsTyped'
        BY <1>3, <1>16 DEF cmd_callback, FlagsTyped
    <2>2. CallsTyped'
        BY <1>3, <1>16 DEF cmd_callback, CallsTyped, ContextIsSet
    <2>. QED
        <3>1. UNCHANGED <<hci_ringbuffer, accepted>>
            BY <1>16 DEF cmd_callback
        <3>. QED
            BY <1>k, <2>1, <2>2, <3>1
<1>17. CASE beginWait
    <2>1. FlagsTyped'
        BY <1>3, <1>17 DEF beginWait, FlagsTyped
    <2>2. CallsTyped'
        BY <1>3, <1>17, CallsStay DEF beginWait
    <2>. QED
        <3>1. UNCHANGED <<hci_ringbuffer, accepted>>
            BY <1>17 DEF beginWait
        <3>. QED
            BY <1>k, <2>1, <2>2, <3>1
<1>18. CASE wakeUp
    <2>1. FlagsTyped'
        BY <1>3, <1>18 DEF wakeUp, FlagsTyped
    <2>2. CallsTyped'
        BY <1>3, <1>18, CallsStay DEF wakeUp
    <2>. QED
        <3>1. UNCHANGED <<hci_ringbuffer, accepted>>
            BY <1>18 DEF wakeUp
        <3>. QED
            BY <1>k, <2>1, <2>2, <3>1
<1>19. CASE waitTimesOut
    <2>1. FlagsTyped'
        BY <1>3, <1>19 DEF waitTimesOut, FlagsTyped
    <2>2. CallsTyped'
        BY <1>3, <1>19, CallsStay DEF waitTimesOut
    <2>. QED
        <3>1. UNCHANGED <<hci_ringbuffer, accepted>>
            BY <1>19 DEF waitTimesOut
        <3>. QED
            BY <1>k, <2>1, <2>2, <3>1
<1>20. CASE UNCHANGED vars
    <2>1. /\ UNCHANGED <<hci_ringbuffer, transport_packets_to_deliver, accepted, dropped, garbled, sends>>
          /\ UNCHANGED <<callbacks, context, task, asked, owed, calls>>
          /\ UNCHANGED <<transport_signal_sent, notified, vhci, loop>>
        BY <1>20 DEF vars
    <2>2. FlagsTyped'
        BY <1>3, <2>1 DEF FlagsTyped
    <2>3. CallsTyped'
        BY <1>3, <2>1, CallsStay
    <2>. QED
        BY <1>k, <2>1, <2>2, <2>3
<1>. HIDE DEF Kept
<1>. QED
    BY <1>1, <1>2, <1>5, <1>6, <1>7, <1>8, <1>9, <1>10, <1>11, <1>12, <1>13,
       <1>14, <1>15, <1>16, <1>17, <1>18, <1>19, <1>20, <1>k DEF Next, runLoop, controller, calling

(* The types at first. *)
LEMMA TransportTypesAtFirst == Init => TransportTypes
<1>. SUFFICES ASSUME Init PROVE TransportTypes
    OBVIOUS
<1>1. hci_ringbuffer_storage \in Nat
    BY StorageIsANumber
<1>2. <<>> \in Seq(Nat) /\ <<>> \in Seq(Seq(Nat)) /\ Len(<<>>) = 0
    BY EmptySeq
<1>. QED
    <2>1. /\ hci_ringbuffer = <<>> /\ accepted = <<>> /\ context = none /\ loop = "sent"
          /\ callbacks = FALSE /\ task = [t \in Tasks |-> "idle"]
        BY DEF Init
    <2>2. hci_ringbuffer \in Seq(Nat) /\ accepted \in Seq(Seq(Nat))
          /\ Len(hci_ringbuffer) <= hci_ringbuffer_storage
        BY <1>1, <1>2, <2>1
    <2>3. ContextIsSet
        BY <2>1 DEF ContextIsSet
    <2>4. /\ task \in [Tasks -> {"idle", "add", "trigger"}] /\ context \in Commands \cup {none}
          /\ loop # "call" /\ callbacks \in BOOLEAN
          /\ loop \in {"sent", "clear sent", "packets", "clear packets", "deliver", "callbacks",
                       "call", "timers", "wait"}
        BY <2>1
    <2>5. /\ transport_signal_sent \in BOOLEAN /\ transport_packets_to_deliver \in BOOLEAN
          /\ notified \in BOOLEAN /\ vhci \in {"idle", "flag", "trigger"}
          /\ dropped \in BOOLEAN /\ garbled \in BOOLEAN
          /\ asked \in SUBSET Commands /\ owed \in BOOLEAN /\ sends \in Nat /\ calls \in Nat
        BY DEF Init
    <2>. QED
        BY <2>2, <2>3, <2>4, <2>5 DEF TransportTypes, TypeOK

(* The ring buffer is never written past its storage, and cmd_callback     *)
(* only ever gets the context that a caller of a _safe function put there. *)
THEOREM TransportTypeCorrect == Spec => []TypeOK
<1>1. TransportTypes => TypeOK
    BY DEF TransportTypes
<1>. QED
    BY <1>1, TransportTypesAtFirst, TransportTypesStay, PTL DEF Spec

-----------------------------------------------------------------------------
(* Blocks have a length, and bytes up to it. *)
LEMMA BlockBytes ==
    ASSUME NEW data \in Blocks
    PROVE  data \in Seq(Byte) /\ Len(data) \in Nat /\ \A i \in 1 .. Len(data) : data[i] \in Byte
BY RingConstants, ElementOfSeq, LenProperties

(* bytes_available and bytes_free lie in 0 .. Size. *)
LEMMA Counts ==
    ASSUME RingTypeOK
    PROVE  bytes_available \in 0 .. Size /\ bytes_free \in 0 .. Size
BY RingConstants DEF RingTypeOK, bytes_available, bytes_free

(* The contents are a sequence of that many bytes. *)
Contained ==
    /\ contents \in Seq(Byte)
    /\ Len(contents) = bytes_available
    /\ \A i \in 1 .. bytes_available : contents[i] = storage[at(i - 1)]

(* What bytes_available counts is what the ring holds: the contents are    *)
(* that many bytes, in the order of the indices.                           *)
LEMMA ContentsSeq == RingTypeOK => Contained
<1>. SUFFICES ASSUME RingTypeOK
              PROVE  Contained
    OBVIOUS
<1>1. bytes_available \in 0 .. Size /\ bytes_available \in Nat
    BY Counts, RingConstants
<1>2. \A i \in 1 .. bytes_available : at(i - 1) \in 0 .. Size - 1
    BY <1>1, RingConstants DEF RingTypeOK, at
<1>3. \A i \in 1 .. bytes_available : storage[at(i - 1)] \in Byte
    BY <1>2 DEF RingTypeOK
<1>4. contents \in [1 .. bytes_available -> Byte]
    BY <1>3 DEF contents
<1>. QED
    BY <1>1, <1>4, FunctionIsSeq DEF contents, Contained

-----------------------------------------------------------------------------
(* The first chunk ends with the storage or with the block, and the index  *)
(* moves on by n around the end of the storage.                            *)
LEMMA Advance ==
    ASSUME NEW i \in 0 .. Size - 1, NEW n \in 1 .. Size
    PROVE  /\ min(Size - i, n) = IF i + n < Size THEN n ELSE Size - i
           /\ advanced(i, min(Size - i, n), n) = IF i + n < Size THEN i + n ELSE i + n - Size
           /\ advanced(i, min(Size - i, n), n) \in 0 .. Size - 1
<1>1. Size \in Nat /\ i \in Nat /\ n \in Nat /\ i < Size /\ 1 <= n /\ n <= Size
    BY RingConstants
<1>2. min(Size - i, n) = IF i + n < Size THEN n ELSE Size - i
    BY <1>1 DEF min
<1>3. CASE i + n < Size
    BY <1>1, <1>2, <1>3 DEF advanced
<1>4. CASE ~(i + n < Size)
    BY <1>1, <1>2, <1>4 DEF advanced
<1>. QED
    BY <1>2, <1>3, <1>4

(* A write of a block that fits moves the written index on by the length   *)
(* of the block, and the bytes from there on are the block's.              *)
LEMMA WriteStep ==
    ASSUME RingTypeOK, NEW data \in Blocks, btstack_ring_buffer_write(data),
           bytes_free >= Len(data), Len(data) # 0
    PROVE  /\ RingTypeOK'
           /\ bytes_available' = bytes_available + Len(data)
           /\ last_read_index' = last_read_index
           /\ \A k \in 0 .. Size - 1 :
                 storage'[k] = IF last_written_index <= k /\ k < last_written_index + Len(data)
                               THEN data[k - last_written_index + 1]
                               ELSE IF k + Size < last_written_index + Len(data)
                               THEN data[k + Size - last_written_index + 1]
                               ELSE storage[k]
<1>. DEFINE n == Len(data)
            chunk == min(Size - last_written_index, n)
<1>1. /\ n \in Nat /\ n # 0 /\ \A i \in 1 .. n : data[i] \in Byte
      /\ Size \in Nat /\ Size # 0
    BY BlockBytes, RingConstants
<1>2. bytes_free \in 0 .. Size /\ bytes_free >= n
    BY Counts
<1>3. /\ storage' = written(last_written_index, chunk, data)
      /\ last_written_index' = advanced(last_written_index, chunk, n)
      /\ full' = (full \/ last_written_index' = last_read_index)
      /\ last_read_index' = last_read_index
    <2>1. ~(bytes_free < n \/ n = 0)
        BY <1>1, <1>2
    <2>. QED
        BY <2>1 DEF btstack_ring_buffer_write
<1>4. n \in 1 .. Size /\ last_written_index \in 0 .. Size - 1
    BY <1>1, <1>2 DEF RingTypeOK
<1>5. /\ chunk = IF last_written_index + n < Size THEN n ELSE Size - last_written_index
      /\ last_written_index' = IF last_written_index + n < Size THEN last_written_index + n
                               ELSE last_written_index + n - Size
      /\ last_written_index' \in 0 .. Size - 1
    BY <1>3, <1>4, Advance
<1>6. ~full
    BY <1>1, <1>2 DEF bytes_free, bytes_available
<1>. HIDE DEF n, chunk
<1>7. ASSUME NEW k \in 0 .. Size - 1
      PROVE  /\ storage'[k] = IF last_written_index <= k /\ k < last_written_index + n
                              THEN data[k - last_written_index + 1]
                              ELSE IF k + Size < last_written_index + n
                              THEN data[k + Size - last_written_index + 1]
                              ELSE storage[k]
             /\ storage'[k] \in Byte
    <2>1. storage'[k] = IF k < n - chunk THEN data[chunk + k + 1]
                        ELSE IF last_written_index <= k /\ k < last_written_index + chunk
                        THEN data[k - last_written_index + 1]
                        ELSE storage[k]
        BY <1>3 DEF written, n
    <2>2. storage[k] \in Byte
        BY DEF RingTypeOK
    <2>3. CASE last_written_index + n < Size
        BY <2>1, <2>2, <2>3, <1>1, <1>4, <1>5
    <2>4. CASE ~(last_written_index + n < Size)
        <3>1. chunk = Size - last_written_index
            BY <2>4, <1>5
        <3>2. CASE k < n - chunk
            <4>1. storage'[k] = data[chunk + k + 1] /\ chunk + k + 1 = k + Size - last_written_index + 1
                BY <2>1, <3>1, <3>2, <1>1, <1>4
            <4>2. ~(last_written_index <= k /\ k < last_written_index + n)
                     /\ k + Size < last_written_index + n /\ chunk + k + 1 \in 1 .. n
                BY <3>1, <3>2, <1>1, <1>4
            <4>. QED
                BY <4>1, <4>2, <1>1
        <3>3. CASE ~(k < n - chunk)
            BY <2>1, <2>2, <2>4, <3>1, <3>3, <1>1, <1>4
        <3>. QED
            BY <3>2, <3>3
    <2>. QED
        BY <2>3, <2>4
<1>8. storage' \in [0 .. Size - 1 -> Byte]
    BY <1>3, <1>7 DEF written
<1>9. RingTypeOK'
    BY <1>3, <1>5, <1>6, <1>8 DEF RingTypeOK
<1>10. bytes_available' = bytes_available + n
    <2>1. bytes_available = IF last_written_index - last_read_index >= 0
                            THEN last_written_index - last_read_index
                            ELSE last_written_index - last_read_index + Size
        BY <1>6 DEF bytes_available
    <2>2. bytes_available' = IF full' THEN Size
                             ELSE IF last_written_index' - last_read_index >= 0
                             THEN last_written_index' - last_read_index
                             ELSE last_written_index' - last_read_index + Size
        BY <1>3 DEF bytes_available
    <2>3. full' <=> last_written_index' = last_read_index
        BY <1>3, <1>6
    <2>4. bytes_available + n <= Size
        BY <1>1, <1>2, Counts DEF bytes_free
    <2>5. last_read_index \in 0 .. Size - 1
        BY DEF RingTypeOK
    <2>. QED
        BY <2>1, <2>2, <2>3, <2>4, <2>5, <1>1, <1>4, <1>5
<1>. QED
    BY <1>3, <1>7, <1>9, <1>10 DEF n

(* A read that finds bytes moves the read index on by as many as it takes, *)
(* and these are the first of the contents.                                *)
LEMMA ReadStep ==
    ASSUME RingTypeOK, NEW n \in Lengths, btstack_ring_buffer_read(n),
           min(n, bytes_available) # 0
    PROVE  LET m == min(n, bytes_available)
           IN  /\ RingTypeOK'
               /\ m \in 1 .. bytes_available
               /\ bytes_available' = bytes_available - m
               /\ storage' = storage
               /\ last_read_index' = IF last_read_index + m < Size THEN last_read_index + m
                                     ELSE last_read_index + m - Size
               /\ last' = [op |-> "read", length |-> n, data |-> [i \in 1 .. m |-> contents[i]]]
<1>. DEFINE m == min(n, bytes_available)
            chunk == min(Size - last_read_index, m)
            data == [i \in 1 .. m |-> IF i <= chunk THEN storage[last_read_index + i - 1]
                                      ELSE storage[i - chunk - 1]]
<1>1. n \in Nat /\ Size \in Nat /\ bytes_available \in 0 .. Size
    BY RingConstants, Counts
<1>2. m \in 1 .. bytes_available /\ m \in 1 .. Size
    BY <1>1 DEF min
<1>3. /\ last_read_index' = advanced(last_read_index, chunk, m)
      /\ full' = FALSE
      /\ storage' = storage /\ last_written_index' = last_written_index
      /\ last' = [op |-> "read", length |-> n, data |-> data]
    BY DEF btstack_ring_buffer_read
<1>4. last_read_index \in 0 .. Size - 1 /\ last_written_index \in 0 .. Size - 1
    BY DEF RingTypeOK
<1>5. /\ chunk = IF last_read_index + m < Size THEN m ELSE Size - last_read_index
      /\ last_read_index' = IF last_read_index + m < Size THEN last_read_index + m
                            ELSE last_read_index + m - Size
      /\ last_read_index' \in 0 .. Size - 1
    BY <1>2, <1>3, <1>4, Advance
<1>6. data = [i \in 1 .. m |-> contents[i]]
    <2>. SUFFICES ASSUME NEW i \in 1 .. m
                  PROVE  (IF i <= chunk THEN storage[last_read_index + i - 1]
                          ELSE storage[i - chunk - 1]) = contents[i]
        OBVIOUS
    <2>1. contents[i] = storage[at(i - 1)]
        BY <1>1, <1>2, ContentsSeq DEF Contained
    <2>. HIDE DEF m, chunk
    <2>2. at(i - 1) = IF i <= chunk THEN last_read_index + i - 1 ELSE i - chunk - 1
        BY <1>1, <1>2, <1>4, <1>5 DEF at
    <2>. QED
        BY <2>1, <2>2
<1>. HIDE DEF m, chunk, data
<1>7. RingTypeOK'
    BY <1>3, <1>4, <1>5 DEF RingTypeOK
<1>8. bytes_available' = bytes_available - m
    <2>1. bytes_available = IF full THEN Size
                            ELSE IF last_written_index - last_read_index >= 0
                            THEN last_written_index - last_read_index
                            ELSE last_written_index - last_read_index + Size
        BY DEF bytes_available
    <2>2. bytes_available' = IF last_written_index - last_read_index' >= 0
                             THEN last_written_index - last_read_index'
                             ELSE last_written_index - last_read_index' + Size
        BY <1>3 DEF bytes_available
    <2>3. full => last_written_index = last_read_index
        BY DEF RingTypeOK
    <2>. QED
        BY <2>1, <2>2, <2>3, <1>1, <1>2, <1>4, <1>5
<1>. QED
    BY <1>2, <1>3, <1>5, <1>6, <1>7, <1>8 DEF m

(* What is stored goes behind the contents. *)
LEMMA WriteAppends ==
    ASSUME RingTypeOK, NEW data \in Blocks, btstack_ring_buffer_write(data),
           bytes_free >= Len(data), Len(data) # 0
    PROVE  contents' = contents \o data
<1>. DEFINE n == Len(data)
<1>1. /\ RingTypeOK'
      /\ bytes_available' = bytes_available + n
      /\ last_read_index' = last_read_index
      /\ \A k \in 0 .. Size - 1 :
            storage'[k] = IF last_written_index <= k /\ k < last_written_index + n
                          THEN data[k - last_written_index + 1]
                          ELSE IF k + Size < last_written_index + n
                          THEN data[k + Size - last_written_index + 1]
                          ELSE storage[k]
    BY WriteStep
<1>2. data \in Seq(Byte) /\ n \in Nat /\ n # 0 /\ Size \in Nat /\ bytes_available \in Nat
    BY BlockBytes, RingConstants, Counts
<1>3. /\ contents' \in Seq(Byte) /\ Len(contents') = bytes_available'
      /\ \A i \in 1 .. bytes_available' : contents'[i] = storage'[at(i - 1)']
    <2>1. RingTypeOK'
        BY <1>1
    <2>2. Contained'
        BY <2>1, ContentsSeq, PTL
    <2>. QED
        BY <2>2 DEF Contained
<1>4. /\ contents \in Seq(Byte) /\ Len(contents) = bytes_available
      /\ \A i \in 1 .. bytes_available : contents[i] = storage[at(i - 1)]
    BY ContentsSeq DEF Contained
<1>5. /\ contents \o data \in Seq(Byte)
      /\ Len(contents \o data) = bytes_available + n
      /\ \A i \in 1 .. bytes_available + n :
            (contents \o data)[i] = IF i <= bytes_available THEN contents[i]
                                    ELSE data[i - bytes_available]
    BY <1>2, <1>4, ConcatProperties
<1>6. bytes_available + n <= Size
    BY <1>2, Counts DEF bytes_free
<1>7. /\ last_read_index \in 0 .. Size - 1
      /\ last_written_index \in 0 .. Size - 1
      /\ bytes_available = IF last_written_index - last_read_index >= 0
                           THEN last_written_index - last_read_index
                           ELSE last_written_index - last_read_index + Size
    BY <1>2, <1>6 DEF RingTypeOK, bytes_available
<1>. HIDE DEF n
<1>8. ASSUME NEW i \in 1 .. bytes_available + n
      PROVE  contents'[i] = (contents \o data)[i]
    <2>1. at(i - 1)' = at(i - 1) /\ at(i - 1) \in 0 .. Size - 1
        BY <1>1, <1>2, <1>6, <1>7 DEF at
    <2>2. contents'[i] = storage'[at(i - 1)]
        BY <1>1, <1>3, <2>1
    <2>3. CASE i <= bytes_available
        <3>1. /\ ~(last_written_index <= at(i - 1) /\ at(i - 1) < last_written_index + n)
              /\ ~(at(i - 1) + Size < last_written_index + n)
            BY <2>3, <1>2, <1>6, <1>7 DEF at
        <3>2. storage'[at(i - 1)] = storage[at(i - 1)]
            BY <1>1, <2>1, <3>1
        <3>3. contents[i] = storage[at(i - 1)]
            BY <1>2, <1>4, <2>3
        <3>. QED
            BY <2>2, <2>3, <3>2, <3>3, <1>5
    <2>4. CASE ~(i <= bytes_available)
        <3>1. CASE last_read_index + i - 1 < Size
            <4>1. at(i - 1) = last_read_index + i - 1
                BY <3>1, <1>2, <1>7 DEF at
            <4>2. CASE last_written_index - last_read_index >= 0
                <5>1. /\ last_written_index <= at(i - 1) /\ at(i - 1) < last_written_index + n
                      /\ at(i - 1) - last_written_index + 1 = i - bytes_available
                    BY <4>1, <4>2, <2>4, <1>2, <1>7
                <5>. QED
                    BY <1>1, <1>5, <2>1, <2>2, <2>4, <5>1
            <4>3. CASE ~(last_written_index - last_read_index >= 0)
                BY <4>3, <3>1, <2>4, <1>2, <1>6, <1>7
            <4>. QED
                BY <4>2, <4>3
        <3>2. CASE ~(last_read_index + i - 1 < Size)
            <4>1. at(i - 1) = last_read_index + i - 1 - Size
                BY <3>2, <1>2, <1>7 DEF at
            <4>2. CASE last_written_index - last_read_index >= 0
                <5>1. /\ ~(last_written_index <= at(i - 1) /\ at(i - 1) < last_written_index + n)
                      /\ at(i - 1) + Size < last_written_index + n
                      /\ at(i - 1) + Size - last_written_index + 1 = i - bytes_available
                    BY <4>1, <4>2, <2>4, <1>2, <1>6, <1>7
                <5>. QED
                    BY <1>1, <1>5, <2>1, <2>2, <2>4, <5>1
            <4>3. CASE ~(last_written_index - last_read_index >= 0)
                <5>1. /\ last_written_index <= at(i - 1) /\ at(i - 1) < last_written_index + n
                      /\ at(i - 1) - last_written_index + 1 = i - bytes_available
                    BY <4>1, <4>3, <2>4, <1>2, <1>7
                <5>. QED
                    BY <1>1, <1>5, <2>1, <2>2, <2>4, <5>1
            <4>. QED
                BY <4>2, <4>3
        <3>. QED
            BY <3>1, <3>2
    <2>. QED
        BY <2>3, <2>4
<1>. QED
    BY <1>1, <1>3, <1>5, <1>8, SeqEqual

(* What is read comes from the front of the contents, which lose it. *)
LEMMA ReadTakes ==
    ASSUME RingTypeOK, NEW n \in Lengths, btstack_ring_buffer_read(n),
           min(n, bytes_available) # 0
    PROVE  LET m == min(n, bytes_available)
           IN  /\ last' = [op |-> "read", length |-> n, data |-> SubSeq(contents, 1, m)]
               /\ contents' = SubSeq(contents, m + 1, Len(contents))
<1>. DEFINE m == min(n, bytes_available)
<1>1. /\ RingTypeOK'
      /\ m \in 1 .. bytes_available
      /\ bytes_available' = bytes_available - m
      /\ storage' = storage
      /\ last_read_index' = IF last_read_index + m < Size THEN last_read_index + m
                            ELSE last_read_index + m - Size
      /\ last' = [op |-> "read", length |-> n, data |-> [i \in 1 .. m |-> contents[i]]]
    BY ReadStep
<1>2. Size \in Nat /\ bytes_available \in 0 .. Size /\ last_read_index \in 0 .. Size - 1
    BY RingConstants, Counts DEF RingTypeOK
<1>3. /\ contents' \in Seq(Byte) /\ Len(contents') = bytes_available'
      /\ \A i \in 1 .. bytes_available' : contents'[i] = storage'[at(i - 1)']
    <2>1. RingTypeOK'
        BY <1>1
    <2>2. Contained'
        BY <2>1, ContentsSeq, PTL
    <2>. QED
        BY <2>2 DEF Contained
<1>4. /\ contents \in Seq(Byte) /\ Len(contents) = bytes_available
      /\ \A i \in 1 .. bytes_available : contents[i] = storage[at(i - 1)]
    BY ContentsSeq DEF Contained
<1>. HIDE DEF m
<1>5. SubSeq(contents, 1, m) = [i \in 1 .. m |-> contents[i]]
    <2>1. /\ SubSeq(contents, 1, m) \in Seq(Byte) /\ Len(SubSeq(contents, 1, m)) = m
          /\ \A i \in 1 .. m : SubSeq(contents, 1, m)[i] = contents[i]
        BY <1>1, <1>2, <1>4, SubSeqProperties
    <2>2. [i \in 1 .. m |-> contents[i]] \in [1 .. m -> Byte]
        BY <1>1, <1>2, <1>4, ElementOfSeq
    <2>3. /\ [i \in 1 .. m |-> contents[i]] \in Seq(Byte)
          /\ Len([i \in 1 .. m |-> contents[i]]) = m
        BY <1>1, <1>2, <2>2, FunctionIsSeq
    <2>. QED
        BY <2>1, <2>3, SeqEqual
<1>6. contents' = SubSeq(contents, m + 1, Len(contents))
    <2>1. /\ SubSeq(contents, m + 1, Len(contents)) \in Seq(Byte)
          /\ Len(SubSeq(contents, m + 1, Len(contents))) = bytes_available - m
          /\ \A i \in 1 .. bytes_available - m :
                SubSeq(contents, m + 1, Len(contents))[i] = contents[m + i]
        BY <1>1, <1>2, <1>4, SubSeqProperties
    <2>2. ASSUME NEW i \in 1 .. bytes_available - m
          PROVE  contents'[i] = contents[m + i]
        <3>1. at(i - 1)' = at(m + i - 1)
            BY <1>1, <1>2 DEF at
        <3>2. contents'[i] = storage[at(m + i - 1)]
            BY <1>1, <1>3, <3>1
        <3>. QED
            BY <3>2, <1>1, <1>2, <1>4
    <2>. QED
        BY <2>1, <2>2, <1>1, <1>3, SeqEqual
<1>. QED
    BY <1>1, <1>5, <1>6 DEF m

-----------------------------------------------------------------------------
(* A call that leaves the indices, the flag and the bytes alone. *)
LEMMA Untouched ==
    ASSUME UNCHANGED <<storage, last_read_index, last_written_index, full>>
    PROVE  contents' = contents /\ bytes_available' = bytes_available /\ (RingTypeOK => RingTypeOK')
BY DEF contents, bytes_available, at, RingTypeOK

(* An empty buffer has no contents. *)
LEMMA EmptyAfterReset ==
    ASSUME last_read_index = 0, last_written_index = 0, full = FALSE
    PROVE  contents = <<>>
<1>1. bytes_available = 0
    BY DEF bytes_available
<1>. QED
    BY <1>1 DEF contents

(* Every call keeps the indices inside the storage and the flag honest. *)
LEMMA RingStep == RingTypeOK /\ [RingNext]_ringVars => RingTypeOK'
<1>. SUFFICES ASSUME RingTypeOK, [RingNext]_ringVars
              PROVE  RingTypeOK'
    OBVIOUS
<1>1. ASSUME NEW data \in Blocks, btstack_ring_buffer_write(data)
      PROVE  RingTypeOK'
    <2>1. CASE bytes_free < Len(data) \/ Len(data) = 0
        BY <1>1, <2>1, Untouched DEF btstack_ring_buffer_write
    <2>2. CASE ~(bytes_free < Len(data) \/ Len(data) = 0)
        <3>1. bytes_free >= Len(data)
            BY <2>2, Counts, BlockBytes, RingConstants
        <3>. QED
            BY <1>1, <2>2, <3>1, WriteStep
    <2>. QED
        BY <2>1, <2>2
<1>2. ASSUME NEW n \in Lengths, btstack_ring_buffer_read(n)
      PROVE  RingTypeOK'
    <2>1. CASE min(n, bytes_available) = 0
        BY <1>2, <2>1, Untouched DEF btstack_ring_buffer_read
    <2>2. CASE min(n, bytes_available) # 0
        BY <1>2, <2>2, ReadStep
    <2>. QED
        BY <2>1, <2>2
<1>3. CASE btstack_ring_buffer_reset
    <2>1. 0 \in 0 .. Size - 1
        BY RingConstants
    <2>. QED
        BY <1>3, <2>1 DEF btstack_ring_buffer_reset, RingTypeOK
<1>4. CASE UNCHANGED ringVars
    BY <1>4, Untouched DEF ringVars
<1>. QED
    BY <1>1, <1>2, <1>3, <1>4 DEF RingNext

(* The indices never leave the storage, and the flag is set only when they *)
(* are equal, for every size of the storage and every sequence of calls to *)
(* btstack_ring_buffer_write, _read and _reset.                            *)
THEOREM RingTypeCorrect == RingSpec => []RingTypeOK
<1>1. RingInit => RingTypeOK
    <2>1. 0 \in 0 .. Size - 1
        BY RingConstants
    <2>. QED
        BY <2>1 DEF RingInit, RingTypeOK
<1>. QED
    BY <1>1, RingStep, PTL DEF RingSpec

(* A call of the ring buffer is a call of the queue. *)
LEMMA RingStepIsQueueStep ==
    ASSUME RingTypeOK, RingNext
    PROVE  Queue!Next
<1>1. /\ Len(contents) = bytes_available /\ contents \in Seq(Byte)
      /\ Size \in Nat /\ bytes_available \in 0 .. Size
      /\ Queue!room = bytes_free
    BY ContentsSeq, RingConstants, Counts DEF Contained, Queue!room, bytes_free
<1>2. ASSUME NEW data \in Blocks, btstack_ring_buffer_write(data)
      PROVE  Queue!Put(data)
    <2>1. /\ last' = [op |-> "write", data |-> data, stored |-> bytes_free >= Len(data)]
          /\ data \in Seq(Byte) /\ Len(data) \in Nat
        BY <1>2, BlockBytes DEF btstack_ring_buffer_write
    <2>2. contents' = (IF bytes_free < Len(data) THEN contents ELSE contents \o data)
        <3>1. CASE bytes_free < Len(data)
            BY <1>2, <3>1, Untouched DEF btstack_ring_buffer_write
        <3>2. CASE ~(bytes_free < Len(data)) /\ Len(data) = 0
            <4>1. contents' = contents
                BY <1>2, <3>2, Untouched DEF btstack_ring_buffer_write
            <4>2. data = <<>>
                BY <2>1, <3>2, EmptySeq
            <4>. QED
                BY <1>1, <3>2, <4>1, <4>2, ConcatEmptySeq
        <3>3. CASE ~(bytes_free < Len(data)) /\ Len(data) # 0
            <4>1. bytes_free >= Len(data)
                BY <3>3, <2>1, Counts, RingConstants
            <4>. QED
                BY <1>2, <3>3, <4>1, WriteAppends
        <3>. QED
            BY <3>1, <3>2, <3>3
    <2>. QED
        BY <1>1, <2>1, <2>2 DEF Queue!Put
<1>3. ASSUME NEW n \in Lengths, btstack_ring_buffer_read(n)
      PROVE  Queue!Get(n)
    <2>1. Queue!least(n, Len(contents)) = min(n, bytes_available)
        BY <1>1 DEF Queue!least, min
    <2>2. CASE min(n, bytes_available) = 0
        <3>1. contents' = contents
            BY <1>3, <2>2, Untouched DEF btstack_ring_buffer_read
        <3>2. last' = [op |-> "read", length |-> n, data |-> <<>>]
            BY <1>3, <2>2 DEF btstack_ring_buffer_read
        <3>3. SubSeq(contents, 1, 0) = <<>>
            BY SubSeqEmpty
        <3>4. SubSeq(contents, 0 + 1, Len(contents)) = contents
            BY <1>1, SubSeqFull
        <3>. QED
            BY <2>1, <2>2, <3>1, <3>2, <3>3, <3>4 DEF Queue!Get
    <2>3. CASE min(n, bytes_available) # 0
        BY <1>3, <2>1, <2>3, ReadTakes DEF Queue!Get
    <2>. QED
        BY <2>2, <2>3
<1>4. CASE btstack_ring_buffer_reset
    <2>1. bytes_available' = 0
        BY <1>4 DEF btstack_ring_buffer_reset, bytes_available
    <2>2. contents' = <<>>
        BY <2>1 DEF contents
    <2>3. last' = [op |-> "reset"]
        BY <1>4 DEF btstack_ring_buffer_reset
    <2>. QED
        BY <2>2, <2>3 DEF Queue!Reset, Queue!Next
<1>. QED
    BY <1>2, <1>3, <1>4 DEF RingNext, Queue!Next

(* The ring buffer implements a queue of bytes, for every size of the      *)
(* storage: however blocks wrap around the end of the storage and the      *)
(* indices meet, write and read keep every byte and its place in the order.*)
THEOREM RingIsAQueue == RingSpec => ImplementsQueue
<1>1. RingInit => Queue!Init
    BY EmptyAfterReset DEF RingInit, Queue!Init
<1>2. RingTypeOK /\ [RingNext]_ringVars => [Queue!Next]_<<contents, last>>
    <2>1. RingTypeOK /\ UNCHANGED ringVars => UNCHANGED <<contents, last>>
        BY Untouched DEF ringVars
    <2>. QED
        BY <2>1, RingStepIsQueueStep
<1>. QED
    BY <1>1, <1>2, RingTypeCorrect, PTL DEF RingSpec, ImplementsQueue, Queue!Spec
=============================================================================
