--------------------------- MODULE Services_proofs ---------------------------
(***************************************************************************)
(* Proofs about the small services, one section for each part and the      *)
(* services side by side at the end.  Each section has its inductive       *)
(* invariant, ...Inv, that the initial states have it, ...Begins, that     *)
(* every step keeps it, ...Keeps, and that it always holds, ...Holds.      *)
(***************************************************************************)
EXTENDS Services, NumberLaws, SequenceTheorems
-----------------------------------------------------------------------------
(***************************************************************************)
(* The ring of messages (HostComm).                                        *)
(***************************************************************************)

(* The two indices count what was accepted and handed out, modulo the ring. *)
Accepted == Len(sent)
HandedOut == Len(received)

Slot(k) == k % MAX_MSG_QUEUE

RingTypes ==
  /\ msg_queue \in [Slots -> Packets \cup {Zero}]
  /\ comm_initialized \in BOOLEAN
  /\ sending \in [at : {"idle", "store", "advance"}, packet : Packets \cup {Zero}]
  /\ receiving \in [at : {"idle", "copy", "advance"}, packet : Packets \cup {Zero}]
  /\ sent \in Seq(Packets)
  /\ received \in Seq(Packets)

RingPositions ==
  /\ queue_head = Slot(HandedOut)
  /\ queue_tail = Slot(Accepted)
  /\ HandedOut <= Accepted
  /\ Accepted - HandedOut < MAX_MSG_QUEUE
  /\ ~comm_initialized =>
       sending = Idle /\ receiving = Idle /\ sent = <<>> /\ received = <<>>

(* What the sender and the receiver know since their tests: room is left and a
   packet is there, whatever the other side has done meanwhile. *)
RingCalls ==
  /\ sending.at # "idle" => /\ sending.packet \in Packets
                            /\ Accepted - HandedOut + 1 < MAX_MSG_QUEUE
  /\ sending.at = "advance" => msg_queue[queue_tail] = sending.packet
  /\ receiving.at # "idle" => HandedOut < Accepted
  /\ receiving.at = "advance" => receiving.packet = sent[HandedOut + 1]

(* The packet that was accepted as number k is handed out or in its slot. *)
RingPlaces ==
  \A k \in 1 .. Accepted :
    IF k <= HandedOut THEN received[k] = sent[k]
                      ELSE msg_queue[Slot(k - 1)] = sent[k]

CommInv == RingTypes /\ RingPositions /\ RingCalls /\ RingPlaces
-----------------------------------------------------------------------------
(* Turns p of the ring are passed on the way to position a. *)
LEMMA Turns ==
  ASSUME NEW a \in Int
  PROVE  \E p \in Int : a = MAX_MSG_QUEUE * p + Slot(a)
  BY CommAssumption, DivisionWithRest DEF Slot

LEMMA SlotOf ==
  ASSUME NEW a \in Int
  PROVE  Slot(a) \in 0 .. MAX_MSG_QUEUE - 1
  BY CommAssumption, DivisionWithRest DEF Slot

LEMMA SlotOfTurns ==
  ASSUME NEW a \in Int, NEW p \in Int, NEW r \in 0 .. MAX_MSG_QUEUE - 1,
         a = MAX_MSG_QUEUE * p + r
  PROVE  Slot(a) = r
  BY CommAssumption, RestOf DEF Slot

LEMMA FirstSlot == Slot(0) = 0
<1>1. 0 \in 0 .. MAX_MSG_QUEUE - 1 /\ 0 = MAX_MSG_QUEUE * 0 + 0
  BY CommAssumption
<1> QED
  BY <1>1, SlotOfTurns

LEMMA SlotOfSum ==
  ASSUME NEW a \in Int, NEW b \in Int
  PROVE  Slot(Slot(a) + b) = Slot(a + b)
  BY CommAssumption, RestOfSum DEF Slot

LEMMA NextSlot ==
  ASSUME NEW a \in Int
  PROVE  Following(Slot(a)) = Slot(a + 1)
<1>1. Following(Slot(a)) = Slot(Slot(a) + 1)
  BY DEF Following, Slot
<1> QED
  BY <1>1, SlotOfSum

(* A turn later the slot is the same. *)
LEMMA NextTurn ==
  ASSUME NEW a \in Int
  PROVE  Slot(a + MAX_MSG_QUEUE) = Slot(a)
<1>1. PICK p \in Int : a = MAX_MSG_QUEUE * p + Slot(a)
  BY Turns
<1>2. /\ p + 1 \in Int /\ a + MAX_MSG_QUEUE \in Int
      /\ a + MAX_MSG_QUEUE = MAX_MSG_QUEUE * (p + 1) + Slot(a)
  <2>1. MAX_MSG_QUEUE * (p + 1) = MAX_MSG_QUEUE * p + MAX_MSG_QUEUE
    BY CommAssumption
  <2>2. MAX_MSG_QUEUE * p \in Int /\ Slot(a) \in Int /\ MAX_MSG_QUEUE \in Int
    BY SlotOf, CommAssumption
  <2> QED
    BY <1>1, <2>1, <2>2
<1> QED
  BY <1>2, SlotOf, SlotOfTurns, CommAssumption

(* RingPositions less than a turn apart are in different slots. *)
LEMMA OtherSlot ==
  ASSUME NEW a \in Int, NEW b \in Int, a < b, b - a < MAX_MSG_QUEUE
  PROVE  Slot(a) # Slot(b)
<1>1. PICK p \in Int : a = MAX_MSG_QUEUE * p + Slot(a)
  BY Turns
<1>2. PICK q \in Int : b = MAX_MSG_QUEUE * q + Slot(b)
  BY Turns
<1>3. SUFFICES ASSUME Slot(a) = Slot(b) PROVE FALSE
  OBVIOUS
<1>4. b - a = MAX_MSG_QUEUE * (q - p)
  BY <1>1, <1>2, <1>3, SlotOf, CommAssumption
<1>5. CASE q - p >= 1
  BY <1>4, <1>5, AtLeastOnce, CommAssumption
<1>6. CASE p - q >= 0
  <2>1. MAX_MSG_QUEUE * (p - q) >= 0
    BY <1>6, CommAssumption
  <2>2. a - b = MAX_MSG_QUEUE * (p - q)
    BY <1>4, CommAssumption
  <2> QED
    BY <2>1, <2>2
<1> QED
  BY <1>5, <1>6

(* The distance of their slots, around the ring, is their own. *)
LEMMA SlotDistance ==
  ASSUME NEW a \in Int, NEW b \in Int, a <= b, b - a < MAX_MSG_QUEUE
  PROVE  Slot(Slot(b) - Slot(a)) = b - a
<1>1. PICK p \in Int : a = MAX_MSG_QUEUE * p + Slot(a)
  BY Turns
<1>2. PICK q \in Int : b = MAX_MSG_QUEUE * q + Slot(b)
  BY Turns
<1>3. /\ p - q \in Int /\ b - a \in 0 .. MAX_MSG_QUEUE - 1
      /\ Slot(b) - Slot(a) = MAX_MSG_QUEUE * (p - q) + (b - a)
  <2>1. Slot(a) \in Int /\ Slot(b) \in Int /\ MAX_MSG_QUEUE \in Int
    BY SlotOf, CommAssumption
  <2>2. MAX_MSG_QUEUE * (p - q) = MAX_MSG_QUEUE * p - MAX_MSG_QUEUE * q
    BY <2>1
  <2>3. MAX_MSG_QUEUE * p \in Int /\ MAX_MSG_QUEUE * q \in Int
    BY <2>1
  <2>4. Slot(b) - Slot(a) = MAX_MSG_QUEUE * (p - q) + (b - a)
    <3> HIDE DEF Slot
    <3> QED
      BY <1>1, <1>2, <2>1, <2>2, <2>3
  <2> QED
    BY <2>1, <2>4
<1>4. Slot(b) - Slot(a) \in Int
  BY SlotOf
<1> QED
  BY <1>3, <1>4, SlotOfTurns
-----------------------------------------------------------------------------
LEMMA Lengths ==
  ASSUME RingTypes
  PROVE  Accepted \in Nat /\ HandedOut \in Nat
  BY LenProperties DEF RingTypes, Accepted, HandedOut

(* A ring that brings nothing with it is in order. *)
LEMMA EmptyRing ==
  ASSUME RingTypes, queue_head = 0, queue_tail = 0, sending = Idle, receiving = Idle,
         sent = <<>>, received = <<>>
  PROVE  CommInv
<1>1. Accepted = 0 /\ HandedOut = 0
  BY DEF Accepted, HandedOut
<1>2. Slot(0) = 0
  BY FirstSlot
<1>3. RingPositions
  BY <1>1, <1>2, CommAssumption DEF RingPositions
<1>4. RingCalls
  BY DEF RingCalls, Idle
<1>5. RingPlaces
  BY <1>1 DEF RingPlaces
<1> QED
  BY <1>3, <1>4, <1>5 DEF CommInv

LEMMA CommBegins == CommInit => CommInv
<1> SUFFICES ASSUME CommInit PROVE CommInv
  OBVIOUS
<1>1. <<>> \in Seq(Packets)
  BY EmptySeq
<1>2. RingTypes
  BY <1>1 DEF CommInit, RingTypes, Idle
<1> QED
  BY <1>2, EmptyRing DEF CommInit

LEMMA LifeKeeps ==
  ASSUME CommInv, comm_init \/ comm_cleanup
  PROVE  CommInv'
<1>1. <<>> \in Seq(Packets)
  BY EmptySeq
<1>2. RingTypes'
  BY <1>1 DEF CommInv, RingTypes, comm_init, comm_cleanup
<1>3. /\ queue_head' = 0 /\ queue_tail' = 0 /\ sending' = Idle /\ receiving' = Idle
      /\ sent' = <<>> /\ received' = <<>>
  BY DEF CommInv, RingPositions, comm_init, comm_cleanup, Quiet
<1>4. Accepted' = 0 /\ HandedOut' = 0
  BY <1>3 DEF Accepted, HandedOut
<1>5. Slot(0) = 0
  BY FirstSlot
<1>6. RingPositions'
  BY <1>3, <1>4, <1>5, CommAssumption DEF RingPositions, Idle
<1>7. RingCalls'
  BY <1>3 DEF RingCalls, Idle
<1>8. RingPlaces'
  BY <1>4 DEF RingPlaces
<1> QED
  BY <1>2, <1>6, <1>7, <1>8 DEF CommInv

(* The test of the sender: a full ring has all slots taken but one. *)
LEMMA AcceptKeeps ==
  ASSUME CommInv, NEW p \in Packets, Accept(p)
  PROVE  CommInv'
<1> USE Lengths, CommAssumption
<1>1. Accepted \in Nat /\ HandedOut \in Nat
  BY DEF CommInv
<1>2. UNCHANGED <<Accepted, HandedOut>>
  BY DEF Accept, Accepted, HandedOut
<1>3. Accepted - HandedOut + 1 < MAX_MSG_QUEUE
  <2> SUFFICES ASSUME Accepted + 1 = HandedOut + MAX_MSG_QUEUE PROVE FALSE
    BY <1>1 DEF CommInv, RingPositions
  <2>1. Following(queue_tail) = Slot(Accepted + 1)
    BY <1>1, NextSlot DEF CommInv, RingPositions
  <2>2. Slot(HandedOut + MAX_MSG_QUEUE) = Slot(HandedOut)
    BY <1>1, NextTurn
  <2> QED
    BY <2>1, <2>2 DEF Accept, Full, CommInv, RingPositions
<1>4. RingTypes' /\ RingPositions' /\ RingPlaces'
  BY <1>2 DEF CommInv, Accept, RingTypes, RingPositions, RingPlaces
<1>5. RingCalls'
  BY <1>2, <1>3 DEF CommInv, Accept, RingCalls
<1> QED
  BY <1>4, <1>5 DEF CommInv

(* The slot that is written holds no packet that is still to be received. *)
LEMMA StoreKeeps ==
  ASSUME CommInv, Store
  PROVE  CommInv'
<1>1. Accepted \in Nat /\ HandedOut \in Nat
  BY Lengths DEF CommInv
<1>2. UNCHANGED <<Accepted, HandedOut>>
  BY DEF Store, Accepted, HandedOut
<1>3. queue_tail \in Slots
  BY <1>1, SlotOf DEF CommInv, RingPositions, Slots
<1>4. RingTypes'
  BY DEF CommInv, Store, RingTypes
<1>5. RingPositions'
  BY <1>2 DEF CommInv, Store, RingPositions, Idle
<1>6. RingCalls'
  BY <1>2, <1>3 DEF CommInv, Store, RingTypes, RingCalls
<1>7. RingPlaces'
  <2>1. ASSUME NEW k \in 1 .. Accepted, k > HandedOut
        PROVE  msg_queue'[Slot(k - 1)] = msg_queue[Slot(k - 1)]
    <3>1. Slot(k - 1) # Slot(Accepted)
      BY <1>1, <2>1, CommAssumption, OtherSlot DEF CommInv, RingPositions
    <3>2. Slot(k - 1) \in Slots
      BY <1>1, SlotOf DEF Slots
    <3> QED
      BY <3>1, <3>2 DEF CommInv, RingTypes, RingPositions, Store
  <2> QED
    BY <1>1, <1>2, <2>1 DEF CommInv, Store, RingPlaces
<1> QED
  BY <1>4, <1>5, <1>6, <1>7 DEF CommInv

LEMMA PublishKeeps ==
  ASSUME CommInv, Publish
  PROVE  CommInv'
<1> USE CommAssumption
<1>1. Accepted \in Nat /\ HandedOut \in Nat
  BY Lengths DEF CommInv
<1>2. sending.packet \in Packets /\ msg_queue[queue_tail] = sending.packet
  BY DEF CommInv, RingCalls, Publish
<1>3. /\ sent' \in Seq(Packets)
      /\ Accepted' = Accepted + 1
      /\ \A k \in 1 .. Accepted : sent'[k] = sent[k]
      /\ sent'[Accepted + 1] = sending.packet
  BY <1>2, AppendProperties DEF CommInv, RingTypes, Publish, Accepted
<1>4. HandedOut' = HandedOut
  BY DEF Publish, HandedOut
<1>5. RingTypes'
  BY <1>3 DEF CommInv, RingTypes, Publish, Idle
<1>6. RingPositions'
  <2>1. queue_tail' = Slot(Accepted + 1)
    BY <1>1, NextSlot DEF CommInv, RingPositions, Publish
  <2>2. comm_initialized
    BY DEF CommInv, RingPositions, Publish, Idle
  <2> QED
    BY <1>1, <1>3, <1>4, <2>1, <2>2 DEF CommInv, RingPositions, RingCalls, Publish
<1>7. RingCalls'
  <2>1. HandedOut < Accepted => sent'[HandedOut + 1] = sent[HandedOut + 1]
    BY <1>1, <1>3
  <2>2. sending'.at = "idle" /\ receiving' = receiving
    BY DEF Publish, Idle
  <2>3. receiving.at # "idle" => HandedOut < Accepted
    BY DEF CommInv, RingCalls
  <2>4. receiving.at = "advance" => receiving.packet = sent[HandedOut + 1]
    BY DEF CommInv, RingCalls
  <2> QED
    BY <1>1, <1>3, <1>4, <2>1, <2>2, <2>3, <2>4 DEF RingCalls
<1>8. RingPlaces'
  <2>1. msg_queue[Slot(Accepted)] = sending.packet
    BY <1>2 DEF CommInv, RingPositions
  <2> QED
    <3> SUFFICES ASSUME NEW k \in 1 .. Accepted + 1
        PROVE  IF k <= HandedOut THEN received[k] = sent'[k]
                                 ELSE msg_queue[Slot(k - 1)] = sent'[k]
      BY <1>3, <1>4 DEF RingPlaces, Publish
    <3>1. CASE k = Accepted + 1
      <4>1. k - 1 = Accepted /\ ~(k <= HandedOut)
        BY <1>1, <3>1 DEF CommInv, RingPositions
      <4> QED
        BY <1>3, <2>1, <3>1, <4>1
    <3>2. CASE k \in 1 .. Accepted
      BY <1>3, <3>2 DEF CommInv, RingPlaces
    <3> QED
      BY <1>1, <3>1, <3>2
<1> QED
  BY <1>5, <1>6, <1>7, <1>8 DEF CommInv

LEMMA FindKeeps ==
  ASSUME CommInv, Find
  PROVE  CommInv'
<1>1. Accepted \in Nat /\ HandedOut \in Nat
  BY Lengths DEF CommInv
<1>2. UNCHANGED <<Accepted, HandedOut>>
  BY DEF Find, Accepted, HandedOut
<1>3. HandedOut < Accepted
  BY <1>1 DEF CommInv, RingPositions, Find, Empty
<1>4. RingTypes' /\ RingPositions' /\ RingPlaces'
  BY <1>2 DEF CommInv, Find, RingTypes, RingPositions, RingPlaces, Idle
<1>5. RingCalls'
  BY <1>2, <1>3 DEF CommInv, Find, RingCalls, Idle
<1> QED
  BY <1>4, <1>5 DEF CommInv

LEMMA CopyKeeps ==
  ASSUME CommInv, Copy
  PROVE  CommInv'
<1>1. Accepted \in Nat /\ HandedOut \in Nat
  BY Lengths DEF CommInv
<1>2. UNCHANGED <<Accepted, HandedOut>>
  BY DEF Copy, Accepted, HandedOut
<1>3. queue_head \in Slots
  BY <1>1, SlotOf DEF CommInv, RingPositions, Slots
<1>4. msg_queue[queue_head] = sent[HandedOut + 1]
  <2>1. HandedOut < Accepted
    BY DEF CommInv, RingCalls, Copy
  <2>2. (HandedOut + 1) - 1 = HandedOut
    BY <1>1
  <2> QED
    BY <1>1, <2>1, <2>2 DEF CommInv, RingPlaces, RingPositions
<1>5. RingTypes'
  BY <1>3 DEF CommInv, Copy, RingTypes
<1>6. RingPositions' /\ RingPlaces'
  BY <1>2 DEF CommInv, Copy, RingPositions, RingPlaces, Idle
<1>7. RingCalls'
  BY <1>2, <1>4 DEF CommInv, Copy, RingCalls
<1> QED
  BY <1>5, <1>6, <1>7 DEF CommInv

LEMMA ReleaseKeeps ==
  ASSUME CommInv, Release
  PROVE  CommInv'
<1> USE CommAssumption
<1>1. Accepted \in Nat /\ HandedOut \in Nat
  BY Lengths DEF CommInv
<1>2. HandedOut < Accepted /\ receiving.packet = sent[HandedOut + 1]
  BY DEF CommInv, RingCalls, Release
<1>3. receiving.packet \in Packets
  BY <1>1, <1>2, ElementOfSeq DEF CommInv, RingTypes, Accepted
<1>4. /\ received' \in Seq(Packets)
      /\ HandedOut' = HandedOut + 1
      /\ \A k \in 1 .. HandedOut : received'[k] = received[k]
      /\ received'[HandedOut + 1] = sent[HandedOut + 1]
  BY <1>2, <1>3, AppendProperties DEF CommInv, RingTypes, Release, HandedOut
<1>5. Accepted' = Accepted
  BY DEF Release, Accepted
<1>6. RingTypes'
  BY <1>4 DEF CommInv, RingTypes, Release, Idle
<1>7. RingPositions'
  <2>1. queue_head' = Slot(HandedOut + 1)
    BY <1>1, NextSlot DEF CommInv, RingPositions, Release
  <2>2. comm_initialized
    BY DEF CommInv, RingPositions, Release, Idle
  <2> QED
    BY <1>1, <1>2, <1>4, <1>5, <2>1, <2>2 DEF CommInv, RingPositions, Release
<1>8. RingCalls'
  BY <1>1, <1>4, <1>5 DEF CommInv, RingCalls, Release, Idle
<1>9. RingPlaces'
  <2> SUFFICES ASSUME NEW k \in 1 .. Accepted
      PROVE  IF k <= HandedOut + 1 THEN received'[k] = sent[k]
                                   ELSE msg_queue[Slot(k - 1)] = sent[k]
    BY <1>4, <1>5 DEF RingPlaces, Release
  <2>1. CASE k = HandedOut + 1
    BY <1>1, <1>4, <2>1
  <2>2. CASE k # HandedOut + 1
    <3>1. k \in 1 .. HandedOut \/ ~(k <= HandedOut + 1)
      BY <1>1, <2>2
    <3> QED
      BY <1>1, <1>4, <2>2, <3>1 DEF CommInv, RingPlaces
  <2> QED
    BY <2>1, <2>2
<1> QED
  BY <1>6, <1>7, <1>8, <1>9 DEF CommInv

LEMMA CommKeeps == CommInv /\ [CommNext]_commVars => CommInv'
<1> SUFFICES ASSUME CommInv, [CommNext]_commVars PROVE CommInv'
  OBVIOUS
<1>1. CASE UNCHANGED commVars
  BY <1>1 DEF commVars, CommInv, RingTypes, RingPositions, RingCalls, RingPlaces, Accepted, HandedOut
<1>2. CASE CommNext
  BY <1>2, LifeKeeps, AcceptKeeps, StoreKeeps, PublishKeeps, FindKeeps, CopyKeeps,
     ReleaseKeeps
  DEF CommNext, comm_send, comm_recv
<1> QED
  BY <1>1, <1>2

(***************************************************************************)
(* The inductive invariant holds in every reachable state: the slots from  *)
(* the read index to the write index hold what was sent and not received.  *)
(***************************************************************************)
THEOREM CommHolds == CommSpec => []CommInv
  BY CommBegins, CommKeeps, PTL DEF CommSpec
-----------------------------------------------------------------------------
LEMMA CommTyped == CommInv => CommTypeOK
<1> SUFFICES ASSUME CommInv PROVE CommTypeOK
  OBVIOUS
<1>1. queue_head \in Slots /\ queue_tail \in Slots
  BY Lengths, SlotOf DEF CommInv, RingPositions, Slots
<1> QED
  BY <1>1 DEF CommInv, RingTypes, CommTypeOK

(* Packets, indices and the two parties keep their types, for any ring size. *)
THEOREM CommTypes == CommSpec => []CommTypeOK
  BY CommTyped, CommHolds, PTL

(***************************************************************************)
(* With one sender and one receiver and no lock, a ring of any size hands  *)
(* out exactly the packets that it accepted, in their order, and holds     *)
(* the rest, however their steps interleave.                               *)
(***************************************************************************)
THEOREM RingIsFifo == CommSpec => []ReceivedInOrder
<1>1. CommInv => ReceivedInOrder
  <2> SUFFICES ASSUME CommInv PROVE received \o Queued = sent
    BY DEF ReceivedInOrder
  <2> DEFINE d == Accepted - HandedOut
  <2>1. Accepted \in Nat /\ HandedOut \in Nat /\ d \in Nat
    BY Lengths DEF CommInv, RingPositions
  <2>2. Slot(queue_tail - queue_head) = d
    BY <2>1, SlotDistance DEF CommInv, RingPositions
  <2>3. ASSUME NEW i \in 1 .. d
        PROVE  /\ msg_queue[Slot(queue_head + i - 1)] = sent[HandedOut + i]
               /\ sent[HandedOut + i] \in Packets
    <3>1. Slot(queue_head + (i - 1)) = Slot(HandedOut + (i - 1))
      BY <2>1, SlotOfSum DEF CommInv, RingPositions
    <3>2. queue_head \in Int
      BY <2>1, SlotOf DEF CommInv, RingPositions
    <3>3. /\ queue_head + (i - 1) = queue_head + i - 1
          /\ HandedOut + (i - 1) = HandedOut + i - 1
      BY <2>1, <3>2
    <3>4. HandedOut + i \in 1 .. Accepted /\ HandedOut + i > HandedOut
      BY <2>1
    <3>5. msg_queue[Slot(HandedOut + i - 1)] = sent[HandedOut + i]
      BY <2>1, <3>4 DEF CommInv, RingPlaces
    <3>6. sent[HandedOut + i] \in Packets
      BY <3>4, ElementOfSeq DEF CommInv, RingTypes, Accepted
    <3> QED
      BY <3>1, <3>3, <3>5, <3>6
  <2> HIDE DEF d
  <2>4. /\ Queued \in [1 .. d -> Packets]
        /\ \A i \in 1 .. d : Queued[i] = sent[HandedOut + i]
    BY <2>2, <2>3 DEF Queued, Slot
  <2>5. Queued \in Seq(Packets) /\ Len(Queued) = d
    <3>1. Queued \in Seq(Packets)
      BY <2>1, <2>4, SeqDef
    <3>2. DOMAIN Queued = 1 .. d /\ DOMAIN Queued = 1 .. Len(Queued) /\ Len(Queued) \in Nat
      BY <2>4, <3>1, LenProperties
    <3> QED
      BY <2>1, <3>1, <3>2
  <2>6. /\ received \o Queued \in Seq(Packets)
        /\ Len(received \o Queued) = HandedOut + d
        /\ \A i \in 1 .. HandedOut + d :
             (received \o Queued)[i] = IF i <= HandedOut THEN received[i]
                                                         ELSE Queued[i - HandedOut]
    <3>1. received \in Seq(Packets) /\ Len(received) = HandedOut
      BY DEF CommInv, RingTypes, HandedOut
    <3> HIDE DEF Queued
    <3> QED
      BY <2>5, <3>1, ConcatProperties
  <2>7. HandedOut + d = Accepted
    BY <2>1 DEF d
  <2>8. ASSUME NEW i \in 1 .. Accepted
        PROVE  (received \o Queued)[i] = sent[i]
    <3>1. CASE i <= HandedOut
      BY <2>6, <2>7, <3>1 DEF CommInv, RingPlaces
    <3>2. CASE ~(i <= HandedOut)
      <4>1. i - HandedOut \in 1 .. d /\ HandedOut + (i - HandedOut) = i
        BY <2>1, <2>7, <3>2
      <4>2. (received \o Queued)[i] = Queued[i - HandedOut]
        BY <2>6, <2>7, <3>2
      <4>3. Queued[i - HandedOut] = sent[HandedOut + (i - HandedOut)]
        BY <2>4, <4>1
      <4> QED
        BY <4>1, <4>2, <4>3
    <3> QED
      BY <3>1, <3>2
  <2> QED
    BY <2>6, <2>7, <2>8, SeqEqual DEF CommInv, RingTypes, Accepted
<1> QED
  BY <1>1, CommHolds, PTL

-----------------------------------------------------------------------------
(***************************************************************************)
(* The south bridge (SouthBridge).                                         *)
(***************************************************************************)

Watts == 0 .. MaxWatts
PchInfo ==
  [chipset_type : {"H670", "B660", "Z690", "B550", "A520", "X570", "unknown"},
   total_pch_lanes : Int, cpu_direct_lanes : Int, available_pch_lanes : Int,
   power_consumption : Watts, temperature : Int, gating_active : BOOLEAN,
   lane_allocation : {"default", "remapped"}]

PchTypes ==
  /\ g_southbridge_info \in PchInfo
  /\ g_southbridge_initialized \in BOOLEAN
  /\ overpaid \in BOOLEAN
  /\ lanes_of \in [PchSlots -> Nat]

FreeLanes == g_southbridge_info.available_pch_lanes
AllLanes == g_southbridge_info.total_pch_lanes

(* The free lanes and those of the slots make up what SATA and USB leave. *)
PchLanesLeft ==
  /\ ~g_southbridge_initialized => lanes_of = [s \in PchSlots |-> 0] /\ overpaid = FALSE
  /\ g_southbridge_initialized => AllLanes \in 16 .. 20
  /\ g_southbridge_initialized /\ ~overpaid =>
       FreeLanes >= 0 /\ FreeLanes + SeqSum(lanes_of) = AllLanes - 8

PchInv == PchTypes /\ PchLanesLeft

LEMMA ClearedTyped == Cleared \in PchInfo
<1>1. 0 \in Watts
  BY WattsAssumption DEF Watts
<1>2. FALSE \in BOOLEAN /\ 0 \in Int
  OBVIOUS
<1> QED
  BY <1>1, <1>2, Zenon DEF Cleared, PchInfo

(* What the slots hold is a sequence of numbers, with their sum. *)
LEMMA SlotsHold ==
  ASSUME NEW f \in [PchSlots -> Nat]
  PROVE  f \in Seq(Nat) /\ f \in Seq(Int) /\ Len(f) = NumSlots /\ SeqSum(f) \in Nat
<1>1. f \in Seq(Nat) /\ f \in Seq(Int) /\ Len(f) = NumSlots
  BY LanesAssumption DEF PchSlots
<1> QED
  BY <1>1, SumIsNatural

LEMMA NothingHeld ==
  LET none == [s \in PchSlots |-> 0] IN none \in [PchSlots -> Nat] /\ SeqSum(none) = 0
<1> DEFINE none == [s \in PchSlots |-> 0]
<1>1. none \in Seq(Int) /\ \A k \in 1 .. Len(none) : none[k] = 0
  BY LanesAssumption DEF PchSlots
<1> HIDE DEF none
<1>2. SeqSum(none) = 0
  BY <1>1, SumOfZeros
<1> QED
  BY <1>2 DEF none

LEMMA PchBegins == PchInit => PchInv
<1> SUFFICES ASSUME PchInit PROVE PchInv
  OBVIOUS
<1>1. PchTypes
  BY ClearedTyped, NothingHeld, Zenon DEF PchInit, PchTypes
<1> QED
  BY <1>1 DEF PchInit, PchInv, PchLanesLeft

(* A slot that takes or returns lanes, where the free ones change with it. *)
LEMMA LanesMove ==
  ASSUME PchInv, NEW slot \in PchSlots, NEW lanes \in Int, Takes(slot, lanes),
         g_southbridge_initialized, g_southbridge_initialized' = TRUE,
         FreeLanes - lanes >= 0,
         g_southbridge_info' = [g_southbridge_info EXCEPT !.available_pch_lanes = @ - lanes]
  PROVE  PchInv'
<1>1. /\ g_southbridge_info \in PchInfo /\ g_southbridge_info' \in PchInfo
      /\ FreeLanes \in Int /\ AllLanes \in Int
      /\ FreeLanes' = FreeLanes - lanes /\ AllLanes' = AllLanes
  BY DEF PchInv, PchTypes, PchInfo, FreeLanes, AllLanes
<1> DEFINE left == lanes_of[slot] + lanes
<1>2. lanes_of \in [PchSlots -> Nat] /\ overpaid \in BOOLEAN /\ left \in Int
  BY DEF PchInv, PchTypes
<1>3. overpaid' = (overpaid \/ left < 0)
  BY Zenon DEF Takes
<1>4. AllLanes' \in 16 .. 20
  BY <1>1 DEF PchInv, PchLanesLeft
<1>5. CASE overpaid \/ left < 0
  <2>1. overpaid' = TRUE
    BY <1>3, <1>5
  <2>2. lanes_of' = [s \in PchSlots |-> 0]
    BY <1>5, Zenon DEF Takes
  <2>3. PchTypes'
    BY <1>1, <2>1, <2>2, NothingHeld, Zenon DEF PchTypes
  <2> QED
    BY <1>4, <2>1, <2>3 DEF PchInv, PchLanesLeft
<1>6. CASE ~(overpaid \/ left < 0)
  <2>1. overpaid' = FALSE /\ overpaid = FALSE /\ left \in Nat
    BY <1>2, <1>3, <1>6
  <2>2. lanes_of' = [lanes_of EXCEPT ![slot] = left]
    BY <1>6, Zenon DEF Takes
  <2> HIDE DEF left
  <2>3. /\ lanes_of' \in [PchSlots -> Nat] /\ lanes_of'[slot] = left
        /\ \A s \in PchSlots : s # slot => lanes_of[s] = lanes_of'[s]
    BY <1>2, <2>1, <2>2
  <2>4. /\ lanes_of \in Seq(Int) /\ lanes_of' \in Seq(Int)
        /\ Len(lanes_of) = NumSlots /\ Len(lanes_of') = NumSlots
        /\ SeqSum(lanes_of) \in Nat
    BY <1>2, <2>3, SlotsHold
  <2>5. SeqSum(lanes_of') = SeqSum(lanes_of) - lanes_of[slot] + lanes_of'[slot]
    <3>1. slot \in 1 .. Len(lanes_of) /\ Len(lanes_of) = Len(lanes_of')
      BY <2>4 DEF PchSlots
    <3>2. \A k \in 1 .. Len(lanes_of) : k # slot => lanes_of[k] = lanes_of'[k]
      BY <2>3, <2>4 DEF PchSlots
    <3> QED
      BY <2>4, <3>1, <3>2, SumsChanged
  <2>6. SeqSum(lanes_of') = SeqSum(lanes_of) + lanes
    <3>1. lanes_of[slot] \in Int
      BY <1>2
    <3> QED
      BY <2>3, <2>4, <2>5, <3>1 DEF left
  <2>7. FreeLanes + SeqSum(lanes_of) = AllLanes - 8
    BY <2>1 DEF PchInv, PchLanesLeft
  <2>8. FreeLanes' >= 0 /\ FreeLanes' + SeqSum(lanes_of') = AllLanes' - 8
    BY <1>1, <2>4, <2>6, <2>7
  <2>9. PchTypes'
    BY <1>1, <2>1, <2>3 DEF PchTypes
  <2>10. PchLanesLeft'
    BY <1>4, <2>8 DEF PchLanesLeft
  <2> QED
    BY <2>9, <2>10 DEF PchInv
<1> QED
  BY <1>5, <1>6

LEMMA PchKeeps == PchInv /\ [PchNext]_pchVars => PchInv'
<1> SUFFICES ASSUME PchInv, [PchNext]_pchVars PROVE PchInv'
  OBVIOUS
<1> DEFINE info == g_southbridge_info
<1>2. CASE retryix_southbridge_init
  <2>1. PICK c \in Detected :
          g_southbridge_info' =
            [chipset_type |-> c,
             total_pch_lanes |-> PchLanes(c), cpu_direct_lanes |-> CpuLanes(c),
             available_pch_lanes |-> PchLanes(c) - SATA_USB,
             power_consumption |-> SAVING, temperature |-> 45,
             gating_active |-> TRUE, lane_allocation |-> "default"]
    BY <1>2 DEF retryix_southbridge_init
  <2>2. c \in {"H670", "B660", "Z690", "B550", "A520", "X570", "unknown"}
    BY DEF Detected, detect_chipset_type
  <2>3. PchLanes(c) \in 16 .. 20 /\ CpuLanes(c) \in Int
    BY <2>2 DEF PchLanes, CpuLanes
  <2>4. SAVING \in Watts
    BY WattsAssumption DEF SAVING, Watts
  <2>5. /\ g_southbridge_info' \in PchInfo
        /\ AllLanes' = PchLanes(c) /\ FreeLanes' = PchLanes(c) - 8
    BY <2>1, <2>2, <2>3, <2>4 DEF PchInfo, AllLanes, FreeLanes, SATA_USB
  <2>6. /\ g_southbridge_initialized' = TRUE
        /\ lanes_of' = [s \in PchSlots |-> 0] /\ overpaid' = FALSE
    BY <1>2 DEF PchInv, PchLanesLeft, retryix_southbridge_init
  <2>7. PchTypes'
    BY <2>5, <2>6, NothingHeld, Zenon DEF PchTypes
  <2>8. SeqSum(lanes_of') = 0
    BY <2>6, NothingHeld
  <2>9. FreeLanes' >= 0 /\ FreeLanes' + SeqSum(lanes_of') = AllLanes' - 8
    BY <2>3, <2>5, <2>8
  <2>10. PchLanesLeft'
    BY <2>3, <2>5, <2>6, <2>9 DEF PchLanesLeft
  <2> QED
    BY <2>7, <2>10 DEF PchInv
<1>3. ASSUME NEW slot \in PchSlots, NEW lanes \in LaneRequests, NEW priority \in Priorities,
             NEW force \in BOOLEAN,
             retryix_southbridge_coordinate_lanes(slot, lanes, priority, force)
      PROVE  PchInv'
  <2>1. lanes \in Int /\ FreeLanes \in Int
    BY LanesAssumption DEF PchInv, PchTypes, PchInfo, FreeLanes
  <2>2. FreeLanes - lanes >= 0
    BY <1>3, <2>1 DEF retryix_southbridge_coordinate_lanes, TooMany, FreeLanes
  <2>3. /\ g_southbridge_initialized /\ g_southbridge_initialized' = TRUE
        /\ Takes(slot, lanes)
        /\ g_southbridge_info' = [g_southbridge_info EXCEPT !.available_pch_lanes = @ - lanes]
    BY <1>3 DEF retryix_southbridge_coordinate_lanes, PchInv, PchTypes
  <2> QED
    BY <2>1, <2>2, <2>3, LanesMove
<1>4. ASSUME NEW slot \in PchSlots, retryix_southbridge_hotplug_coordinate(slot)
      PROVE  PchInv'
  <2>1. FreeLanes \in Int /\ RETURNED = 4
    BY DEF PchInv, PchTypes, PchInfo, FreeLanes, RETURNED
  <2>2. /\ g_southbridge_initialized /\ g_southbridge_initialized' = TRUE
        /\ Takes(slot, -4)
        /\ g_southbridge_info' = [g_southbridge_info EXCEPT !.available_pch_lanes = @ + 4]
    BY <1>4, <2>1 DEF retryix_southbridge_hotplug_coordinate, PchInv, PchTypes
  <2>3. g_southbridge_info' = [g_southbridge_info EXCEPT !.available_pch_lanes = @ - (-4)]
    BY <2>1, <2>2 DEF FreeLanes
  <2>4. CASE overpaid
    <3>1. overpaid' = TRUE
      BY <2>2, <2>4, Zenon DEF Takes
    <3>2. lanes_of' = [s \in PchSlots |-> 0]
      BY <2>2, <2>4, Zenon DEF Takes
    <3>3. g_southbridge_info' \in PchInfo /\ AllLanes' = AllLanes
      BY <2>1, <2>2 DEF PchInv, PchTypes, PchInfo, AllLanes, FreeLanes
    <3>4. PchTypes'
      BY <2>2, <3>1, <3>2, <3>3, NothingHeld, Zenon DEF PchTypes
    <3> QED
      BY <2>2, <3>1, <3>3, <3>4 DEF PchInv, PchLanesLeft
  <2>5. CASE ~overpaid
    <3>1. FreeLanes - (-4) >= 0
      BY <2>1, <2>2, <2>5 DEF PchInv, PchLanesLeft
    <3> QED
      BY <2>2, <2>3, <3>1, LanesMove
  <2> QED
    BY <2>4, <2>5
<1>5. ASSUME NEW high \in BOOLEAN, retryix_southbridge_power_coordinate(high)
      PROVE  PchInv'
  <2>1. /\ info'.available_pch_lanes = info.available_pch_lanes
        /\ info'.total_pch_lanes = info.total_pch_lanes
        /\ UNCHANGED <<g_southbridge_initialized, lanes_of, overpaid>>
    BY <1>5 DEF PchInv, PchTypes, PchInfo, retryix_southbridge_power_coordinate
  <2>2. SAVING \in Watts /\ HIGH \in Nat /\ MaxWatts \in Nat
    BY WattsAssumption DEF SAVING, HIGH, Watts
  <2>3. PICK watts \in Watts, gated \in BOOLEAN :
          info' = [info EXCEPT !.gating_active = gated, !.power_consumption = watts]
    <3>1. info.power_consumption \in Watts
      BY DEF PchInv, PchTypes, PchInfo
    <3>2. info.power_consumption + HIGH <= MaxWatts => info.power_consumption + HIGH \in Watts
      BY <2>2, <3>1 DEF Watts
    <3> HIDE DEF info
    <3> QED
      BY <1>5, <2>2, <3>2 DEF retryix_southbridge_power_coordinate, info
  <2>4. PchTypes'
    BY <2>1, <2>3, Zenon DEF PchInv, PchTypes, PchInfo
  <2> QED
    BY <2>1, <2>4 DEF PchInv, PchLanesLeft, FreeLanes, AllLanes
<1>6. CASE retryix_southbridge_dynamic_remap
  <2>1. /\ info'.available_pch_lanes = info.available_pch_lanes
        /\ info'.total_pch_lanes = info.total_pch_lanes
        /\ UNCHANGED <<g_southbridge_initialized, lanes_of, overpaid>>
    BY <1>6 DEF PchInv, PchTypes, PchInfo, retryix_southbridge_dynamic_remap
  <2>2. PchTypes'
    BY <1>6 DEF PchInv, PchTypes, PchInfo, retryix_southbridge_dynamic_remap
  <2> QED
    BY <2>1, <2>2 DEF PchInv, PchLanesLeft, FreeLanes, AllLanes
<1>7. CASE retryix_southbridge_cleanup
  <2>1. PchTypes'
    BY <1>7, NothingHeld, ClearedTyped, Zenon DEF PchTypes, retryix_southbridge_cleanup
  <2> QED
    BY <1>7, <2>1 DEF PchInv, PchLanesLeft, retryix_southbridge_cleanup
<1>8. CASE UNCHANGED pchVars
  BY <1>8 DEF PchInv, PchTypes, PchInfo, PchLanesLeft, FreeLanes, AllLanes, pchVars
<1> QED
  BY <1>2, <1>3, <1>4, <1>5, <1>6, <1>7, <1>8 DEF PchNext

LEMMA PchHolds == PchSpec => []PchInv
  BY PchBegins, PchKeeps, PTL DEF PchSpec

(***************************************************************************)
(* Until a slot returns more lanes than it was granted, no lane is given   *)
(* twice, for any number of slots and any sizes of requests, in any order  *)
(* of requests and detached devices.                                       *)
(***************************************************************************)
THEOREM LanesStayWithinTotal == PchSpec => []LanesWithinTotal
<1>1. PchInv => LanesWithinTotal
  <2> SUFFICES ASSUME PchInv, g_southbridge_initialized, ~overpaid
               PROVE  /\ g_southbridge_info.available_pch_lanes >= 0
                      /\ g_southbridge_info.available_pch_lanes + SeqSum(lanes_of)
                           = g_southbridge_info.total_pch_lanes - SATA_USB
                      /\ \A s \in PchSlots \ {1} : ~Feasible16x(s)
    BY DEF LanesWithinTotal
  <2>1. FreeLanes \in Int /\ AllLanes \in 16 .. 20
    BY DEF PchInv, PchLanesLeft, PchTypes, PchInfo, FreeLanes
  <2>2. SeqSum(lanes_of) \in Nat
    BY SlotsHold DEF PchInv, PchTypes
  <2>3. FreeLanes >= 0 /\ FreeLanes + SeqSum(lanes_of) = AllLanes - 8
    BY DEF PchInv, PchLanesLeft
  <2>4. FreeLanes < 16
    BY <2>1, <2>2, <2>3
  <2> QED
    BY <2>3, <2>4, <2>1 DEF Feasible16x, SATA_USB, FreeLanes, AllLanes
<1> QED
  BY <1>1, PchHolds, PTL

LEMMA PchTyped == PchInv => PchTypeOK
  BY DEF PchInv, PchTypes, PchInfo, Watts, PchTypeOK

-----------------------------------------------------------------------------
(***************************************************************************)
(* The table of workloads (WorkloadControl).                               *)
(***************************************************************************)

FieldValues == Configs \cup {Untouched}

(* The call that sets, and what it has done to its entry so far. *)
SettingOK ==
  /\ setting \in [at : {"idle", "name", "write"}, workload : Workloads \cup {Nobody},
                  config : FieldValues, index : Nat, field : Fields]
  /\ setting.at # "idle" =>
       /\ setting.workload \in Workloads
       /\ setting.config \in given[setting.workload]
       /\ setting.index \in Known
  /\ setting.at = "name" =>
       /\ setting.index = g_workload_count - 1
       /\ Entry(setting.workload) = {}
       /\ setting.field = 1
  /\ setting.at = "write" => g_workload_table[setting.index].id = setting.workload

(* Counted entries bear distinct names, but for the one that is being named. *)
TableOK ==
  /\ g_workload_table \in [Entries -> [id : Workloads \cup {Nobody},
                                       value : [Fields -> FieldValues]]]
  /\ g_workload_count \in 0 .. MAX_WORKLOADS
  /\ \A i \in Entries :
       g_workload_table[i].id = Nobody <=>
         i \notin Known \/ (setting.at = "name" /\ i = setting.index)
  /\ \A i, j \in Known :
       i # j => g_workload_table[i].id # g_workload_table[j].id

GivenOK ==
  /\ given \in [Workloads -> SUBSET Configs]
  /\ settled \subseteq Workloads
  /\ \A w \in settled : Entry(w) # {}

(* Where a field of an entry comes from.  Once a workload has been set, or the
   running call has passed the field, it is a configuration of the workload. *)
Origin(i, f) ==
  LET w == g_workload_table[i].id
      v == g_workload_table[i].value[f]
  IN  IF w = Nobody THEN v = Untouched
      ELSE /\ v \in given[w] \cup {Untouched}
           /\ w \in settled => v \in given[w]
           /\ setting.at = "write" /\ setting.index = i /\ f < setting.field
                => v \in given[w]

ContentsOK == \A i \in Entries, f \in Fields : Origin(i, f)

QueryCalls ==
  [at : {"idle", "missing", "read", "answered"}, workload : Workloads \cup {Nobody},
   index : Nat, field : 1 .. NumFields + 1, answer : [Fields -> FieldValues],
   settled : BOOLEAN]

(* A query stays with the entry it found. *)
QueryOK(q) ==
  /\ q.at # "idle" => q.workload \in Workloads
  /\ q.at \in {"idle", "missing"} => q.field = 1
  /\ q.at = "read" => /\ q.index \in Known
                      /\ g_workload_table[q.index].id = q.workload
                      /\ q.field \in Fields
  /\ q.settled => q.workload \in settled /\ q.at # "missing"
  /\ \A f \in Fields :
       f < q.field => q.answer[f] \in given[q.workload]
                                      \cup (IF q.settled THEN {} ELSE {Untouched})

QueriesOK ==
  /\ asking \in [Readers -> QueryCalls]
  /\ \A r \in Readers : QueryOK(asking[r])

TableInv == SettingOK /\ TableOK /\ GivenOK /\ ContentsOK /\ QueriesOK
-----------------------------------------------------------------------------
LEMMA FirstEntry ==
  ASSUME TableOK, NEW w \in Workloads, Entry(w) # {}
  PROVE  First(Entry(w)) \in Entry(w)
<1>1. PICK i : i \in Entry(w)
  OBVIOUS
<1>2. i \in Nat /\ \A j \in Entry(w) : j = i
  BY <1>1, WorkloadAssumption DEF Entry, Known, TableOK
<1>3. \A j \in Entry(w) : i <= j
  BY <1>2
<1> QED
  BY <1>1, <1>3 DEF First

LEMMA TableBegins == TableInit => TableInv
<1> SUFFICES ASSUME TableInit PROVE TableInv
  OBVIOUS
<1> USE WorkloadAssumption
    DEF TableInit, NoCall, NoQuery, Entry, Known, Entries, Fields, FieldValues
<1>1. SettingOK
  BY DEF SettingOK
<1>2. TableOK
  BY DEF TableOK
<1>3. GivenOK
  BY DEF GivenOK
<1>4. ContentsOK
  BY DEF ContentsOK, Origin
<1>5. QueriesOK
  BY DEF QueriesOK, QueryCalls, QueryOK
<1> QED
  BY <1>1, <1>2, <1>3, <1>4, <1>5 DEF TableInv

(* A call finds the entry of its workload, or counts one that nobody has. *)
LEMMA SearchKeeps ==
  ASSUME TableInv, NEW w \in Workloads, NEW c \in Configs, Search(w, c)
  PROVE  TableInv'
<1> USE WorkloadAssumption DEF Entry, Known, Entries, Fields, FieldValues
<1>1. /\ setting.at = "idle"
      /\ given' = [given EXCEPT ![w] = @ \cup {c}]
      /\ UNCHANGED <<g_workload_table, asking, settled>>
  BY DEF Search
<1>2. CASE /\ Entry(w) # {}
           /\ setting' = [at |-> "write", workload |-> w, config |-> c,
                           index |-> First(Entry(w)), field |-> 1]
           /\ UNCHANGED g_workload_count
  <2>1. First(Entry(w)) \in Known /\ g_workload_table[First(Entry(w))].id = w
    BY <1>2, FirstEntry DEF TableInv
  <2>2. SettingOK'
    BY <1>1, <1>2, <2>1 DEF TableInv, SettingOK, TableOK, GivenOK
  <2>3. TableOK'
    BY <1>1, <1>2 DEF TableInv, SettingOK, TableOK
  <2>4. GivenOK'
    BY <1>1, <1>2 DEF TableInv, GivenOK
  <2>5. ContentsOK'
    BY <1>1, <1>2 DEF TableInv, TableOK, GivenOK, ContentsOK, Origin
  <2>6. QueriesOK'
    BY <1>1, <1>2 DEF TableInv, GivenOK, QueriesOK, QueryCalls, QueryOK
  <2> QED
    BY <2>2, <2>3, <2>4, <2>5, <2>6 DEF TableInv
<1>3. CASE /\ Entry(w) = {}
           /\ g_workload_count < MAX_WORKLOADS
           /\ setting' = [at |-> "name", workload |-> w, config |-> c,
                           index |-> g_workload_count, field |-> 1]
           /\ g_workload_count' = g_workload_count + 1
  <2>1. g_workload_table[g_workload_count].id = Nobody
    BY <1>3 DEF TableInv, TableOK
  <2>2. SettingOK'
    BY <1>1, <1>3, <2>1 DEF TableInv, SettingOK, TableOK, GivenOK
  <2>3. TableOK'
    BY <1>1, <1>3, <2>1 DEF TableInv, SettingOK, TableOK
  <2>4. GivenOK'
    BY <1>1, <1>3 DEF TableInv, TableOK, GivenOK
  <2>5. ContentsOK'
    BY <1>1, <1>3 DEF TableInv, TableOK, GivenOK, ContentsOK, Origin
  <2>6. QueriesOK'
    BY <1>1, <1>3 DEF TableInv, TableOK, GivenOK, QueriesOK, QueryCalls, QueryOK
  <2> QED
    BY <2>2, <2>3, <2>4, <2>5, <2>6 DEF TableInv
<1> QED
  BY <1>2, <1>3 DEF Search

(* The counted entry gets the name that no other entry bears. *)
LEMMA NameEntryKeeps ==
  ASSUME TableInv, NameEntry
  PROVE  TableInv'
<1> USE WorkloadAssumption DEF Entry, Known, Entries, Fields, FieldValues
<1> DEFINE s == setting
<1>1. /\ s.at = "name" /\ s.index \in Entries /\ s.index = g_workload_count - 1
      /\ s.workload \in Workloads /\ s.config \in given[s.workload]
      /\ s.field = 1
      /\ \A i \in Known : g_workload_table[i].id # s.workload
      /\ g_workload_table[s.index].id = Nobody
  BY DEF NameEntry, TableInv, SettingOK, TableOK
<1>2. UNCHANGED <<g_workload_count, asking, given, settled>>
  BY DEF NameEntry
<1>3. /\ setting' \in [at : {"idle", "name", "write"}, workload : Workloads \cup {Nobody},
                        config : FieldValues, index : Nat, field : Fields]
      /\ setting'.at = "write" /\ setting'.index = s.index /\ setting'.field = 1
      /\ setting'.workload = s.workload /\ setting'.config = s.config
  BY <1>1 DEF NameEntry, TableInv, SettingOK
<1>4. /\ g_workload_table' \in [Entries -> [id : Workloads \cup {Nobody},
                                            value : [Fields -> FieldValues]]]
      /\ g_workload_table'[s.index].id = s.workload
      /\ \A i \in Entries \ {s.index} : g_workload_table'[i] = g_workload_table[i]
      /\ g_workload_table'[s.index].value = g_workload_table[s.index].value
  <2>1. g_workload_table[s.index] \in [id : Workloads \cup {Nobody}, value : [Fields -> FieldValues]]
    BY <1>1 DEF TableInv, TableOK
  <2> DEFINE e == [g_workload_table[s.index] EXCEPT !.id = s.workload]
  <2>2. /\ e \in [id : Workloads \cup {Nobody}, value : [Fields -> FieldValues]]
        /\ e.id = s.workload /\ e.value = g_workload_table[s.index].value
    BY <1>1, <2>1
  <2>3. g_workload_table' = [g_workload_table EXCEPT ![s.index] = e]
    BY DEF NameEntry
  <2> HIDE DEF e
  <2> QED
    BY <1>1, <2>2, <2>3 DEF TableInv, TableOK
<1> HIDE DEF s
<1>5. SettingOK'
  BY <1>1, <1>2, <1>3, <1>4 DEF TableInv, SettingOK, TableOK
<1>6. TableOK'
  <2>1. \A i \in Entries : g_workload_table'[i].id = Nobody <=> i \notin Known
    <3>1. s.index \in Known /\ s.workload # Nobody
      BY <1>1 DEF TableInv, TableOK
    <3>2. \A i \in Entries :
            g_workload_table[i].id = Nobody <=> i \notin Known \/ i = s.index
      BY <1>1 DEF TableInv, TableOK, s
    <3> HIDE DEF Known, Entries
    <3> QED
      BY <1>1, <1>4, <3>1, <3>2
  <2>2. \A i, j \in Known : i # j => g_workload_table'[i].id # g_workload_table'[j].id
    <3>1. Known \subseteq Entries
      BY DEF TableInv, TableOK
    <3>2. \A i, j \in Known : i # j => g_workload_table[i].id # g_workload_table[j].id
      BY DEF TableInv, TableOK
    <3> HIDE DEF Known, Entries
    <3>3. \A i \in Known : g_workload_table'[i].id =
                           IF i = s.index THEN s.workload ELSE g_workload_table[i].id
      BY <1>4, <3>1
    <3>4. \A i \in Known : g_workload_table[i].id # s.workload
      BY <1>1
    <3> QED
      BY <3>2, <3>3, <3>4
  <2> QED
    BY <1>2, <1>3, <1>4, <2>1, <2>2 DEF TableInv, TableOK
<1>7. \A w \in Workloads : Entry(w) # {} => Entry(w)' # {}
  <2> SUFFICES ASSUME NEW w \in Workloads, NEW i \in Known, g_workload_table[i].id = w
               PROVE  Entry(w)' # {}
    OBVIOUS
  <2>1. Known' = Known /\ Known \subseteq Entries
    BY <1>2 DEF TableInv, TableOK
  <2> HIDE DEF Known, Entries
  <2>2. i # s.index /\ i \in Entries
    BY <1>1, <2>1
  <2>3. g_workload_table'[i].id = w
    BY <1>4, <2>2
  <2> QED
    BY <2>1, <2>3
<1>8. GivenOK'
  BY <1>2, <1>7 DEF TableInv, GivenOK
<1>9. ContentsOK'
  <2>1. s.workload \notin settled
    BY <1>1 DEF TableInv, GivenOK
  <2>2. \A f \in Fields : g_workload_table'[s.index].value[f] = Untouched
    BY <1>1, <1>4 DEF TableInv, ContentsOK, Origin
  <2> QED
    BY <1>1, <1>2, <1>3, <1>4, <2>1, <2>2 DEF TableInv, TableOK, ContentsOK, Origin
<1>10. QueriesOK'
  <2>1. \A i \in Known : g_workload_table[i].id \in Workloads
                         => g_workload_table'[i].id = g_workload_table[i].id
    <3>1. Known \subseteq Entries
      BY DEF TableInv, TableOK
    <3> HIDE DEF Known, Entries
    <3> QED
      BY <1>1, <1>4, <3>1, WorkloadAssumption
  <2>2. ASSUME NEW q, QueryOK(q) PROVE QueryOK(q)'
    BY <1>2, <2>1, <2>2 DEF QueryOK
  <2> QED
    BY <1>2, <2>2 DEF TableInv, QueriesOK
<1> QED
  BY <1>5, <1>6, <1>8, <1>9, <1>10 DEF TableInv

(* A field gets what its workload was given; with the last one it is set. *)
LEMMA WriteFieldKeeps ==
  ASSUME TableInv, WriteField
  PROVE  TableInv'
<1> USE WorkloadAssumption DEF Entry, Known, Entries, Fields, FieldValues
<1> DEFINE s == setting
<1>1. /\ s.at = "write" /\ s.index \in Entries /\ s.index \in Known
      /\ s.workload \in Workloads /\ s.config \in given[s.workload]
      /\ s.config \in FieldValues
      /\ s.field \in Fields
      /\ g_workload_table[s.index].id = s.workload
  BY DEF WriteField, TableInv, SettingOK, TableOK
<1>2. UNCHANGED <<g_workload_count, asking, given>>
  BY DEF WriteField
<1>3. /\ g_workload_table' \in [Entries -> [id : Workloads \cup {Nobody},
                                            value : [Fields -> FieldValues]]]
      /\ \A i \in Entries : g_workload_table'[i].id = g_workload_table[i].id
      /\ \A i \in Entries, f \in Fields :
           g_workload_table'[i].value[f] =
             IF i = s.index /\ f = s.field THEN s.config ELSE g_workload_table[i].value[f]
  BY <1>1 DEF WriteField, TableInv, TableOK
<1>4. \/ /\ setting' = [s EXCEPT !.field = s.field + 1]
         /\ s.field + 1 \in Fields
         /\ settled' = settled
      \/ /\ setting' = NoCall
         /\ s.field = NumFields
         /\ settled' = settled \cup {s.workload}
  BY <1>1 DEF WriteField
<1>5. \/ /\ setting' \in [at : {"idle", "name", "write"}, workload : Workloads \cup {Nobody},
                           config : FieldValues, index : Nat, field : Fields]
         /\ setting'.at = "write" /\ setting'.workload = s.workload
         /\ setting'.config = s.config /\ setting'.index = s.index
         /\ setting'.field = s.field + 1
      \/ /\ setting' \in [at : {"idle", "name", "write"}, workload : Workloads \cup {Nobody},
                           config : FieldValues, index : Nat, field : Fields]
         /\ setting'.at = "idle"
  BY <1>1, <1>4 DEF NoCall, TableInv, SettingOK
<1> HIDE DEF s
<1>6. SettingOK'
  BY <1>1, <1>2, <1>3, <1>5 DEF SettingOK
<1>7. TableOK'
  <2>1. setting.at # "name"
    BY <1>1 DEF s
  <2> QED
    BY <1>1, <1>2, <1>3, <1>5, <2>1 DEF TableInv, TableOK
<1>8. \A w \in Workloads : Entry(w)' = Entry(w)
  BY <1>2, <1>3 DEF TableInv, TableOK
<1>9. GivenOK'
  BY <1>1, <1>2, <1>4, <1>8 DEF TableInv, GivenOK
<1>10. ContentsOK'
  <2> SUFFICES ASSUME NEW i \in Entries, NEW f \in Fields
               PROVE  Origin(i, f)'
    BY DEF ContentsOK
  <2>1. Origin(i, f)
    BY DEF TableInv, ContentsOK
  <2>2. CASE i = s.index
    <3>1. /\ g_workload_table'[i].id = s.workload /\ s.workload # Nobody
          /\ g_workload_table'[i].value[f] =
               IF f = s.field THEN s.config ELSE g_workload_table[i].value[f]
          /\ given' = given
      BY <1>1, <1>2, <1>3, <2>2
    <3>2. /\ g_workload_table[i].value[f] \in given[s.workload] \cup {Untouched}
          /\ s.workload \in settled => g_workload_table[i].value[f] \in given[s.workload]
          /\ f < s.field => g_workload_table[i].value[f] \in given[s.workload]
      BY <1>1, <2>1, <2>2 DEF Origin, s
    <3>3. /\ s.workload \in settled' => s.workload \in settled \/ s.field = NumFields
          /\ setting'.at = "write" => setting'.field = s.field + 1
      BY <1>4, <1>5
    <3>4. f \in Nat /\ f <= NumFields /\ s.field \in Nat
      BY <1>1
    <3> QED
      BY <1>1, <3>1, <3>2, <3>3, <3>4 DEF Origin
  <2>3. CASE i # s.index
    <3>1. g_workload_table[i].id # s.workload
      <4>1. i \in Known \/ g_workload_table[i].id = Nobody
        BY DEF TableInv, TableOK
      <4> QED
        BY <1>1, <2>3, <4>1 DEF TableInv, TableOK
    <3> QED
      BY <1>2, <1>3, <1>4, <1>5, <2>1, <2>3, <3>1 DEF Origin
  <2> QED
    BY <2>2, <2>3
<1>11. QueriesOK'
  BY <1>2, <1>3, <1>4 DEF TableInv, TableOK, QueriesOK, QueryCalls, QueryOK
<1> QED
  BY <1>6, <1>7, <1>9, <1>10, <1>11 DEF TableInv

(* A reader changes nothing but its own query. *)
LEMMA QueryKeeps ==
  ASSUME TableInv, NEW r \in Readers,
         ReadField(r) \/ \E w \in Workloads : Ask(r, w)
  PROVE  TableInv'
<1> USE WorkloadAssumption DEF Entry, Known, Entries, Fields, FieldValues
<1>1. UNCHANGED <<g_workload_table, g_workload_count, setting, given, settled>>
  BY DEF ReadField, Ask
<1>2. SettingOK' /\ TableOK' /\ GivenOK' /\ ContentsOK'
  BY <1>1 DEF TableInv, SettingOK, TableOK, GivenOK, ContentsOK, Origin
<1>3. SUFFICES \E q \in QueryCalls : asking' = [asking EXCEPT ![r] = q] /\ QueryOK(q)
  <2>1. ASSUME NEW q \in QueryCalls, asking' = [asking EXCEPT ![r] = q], QueryOK(q)
        PROVE  QueriesOK'
    BY <1>1, <2>1 DEF TableInv, QueriesOK, QueryOK
  <2> QED
    BY <1>2, <2>1 DEF TableInv
<1>4. CASE ReadField(r)
  <2> DEFINE q == asking[r]
             n == asking'[r]
  <2>1. q \in QueryCalls /\ QueryOK(q) /\ q.at = "read" /\ q.index \in Entries
    BY <1>4 DEF ReadField, TableInv, QueriesOK, QueryOK, TableOK
  <2>2. g_workload_table[q.index].value[q.field] \in FieldValues
    BY <2>1 DEF QueryOK, TableInv, TableOK
  <2>3. /\ asking' = [asking EXCEPT ![r] = n]
        /\ n \in QueryCalls
        /\ n.at \in {"read", "answered"} /\ n.workload = q.workload /\ n.index = q.index
        /\ n.field = q.field + 1 /\ n.settled = q.settled
        /\ n.at = "read" => n.field \in Fields
        /\ n.answer = [q.answer EXCEPT
                         ![q.field] = g_workload_table[q.index].value[q.field]]
    <3>1. q.field \in Fields /\ q.index \in Nat /\ asking \in [Readers -> QueryCalls]
      BY <2>1 DEF QueryOK, QueryCalls, TableInv, QueriesOK
    <3>2. n = [q EXCEPT !.answer[q.field] = g_workload_table[q.index].value[q.field],
                        !.field = q.field + 1,
                        !.at = IF q.field < NumFields THEN "read" ELSE "answered"]
      BY <1>4, <3>1 DEF ReadField
    <3>3. asking' = [asking EXCEPT ![r] = n]
      BY <1>4, <3>1 DEF ReadField
    <3>4. q.field + 1 \in 1 .. NumFields + 1
      BY <3>1
    <3> HIDE DEF n, q
    <3>5. q \in QueryCalls /\ q.at = "read"
      BY <2>1
    <3> DEFINE a == [q.answer EXCEPT ![q.field] = g_workload_table[q.index].value[q.field]]
               l == IF q.field < NumFields THEN "read" ELSE "answered"
    <3>6. a \in [Fields -> FieldValues]
      BY <2>2, <3>1, <3>5 DEF QueryCalls
    <3>7. n = [q EXCEPT !.answer = a, !.field = q.field + 1, !.at = l]
      BY <3>2, <3>5 DEF QueryCalls
    <3>8. l \in {"read", "answered"} /\ (l = "read" => q.field + 1 \in Fields)
      BY <3>1
    <3> HIDE DEF a, l
    <3>9. n \in QueryCalls
      BY <3>4, <3>5, <3>6, <3>7, <3>8 DEF QueryCalls
    <3> QED
      BY <3>3, <3>5, <3>7, <3>8, <3>9 DEF a, QueryCalls
  <2>4. QueryOK(n)
    <3>1. Origin(q.index, q.field)
      BY <2>1 DEF TableInv, ContentsOK, QueryOK
    <3> HIDE DEF n, q
    <3>2. g_workload_table[q.index].value[q.field]
            \in given[q.workload] \cup (IF q.settled THEN {} ELSE {Untouched})
      BY <2>1, <3>1 DEF Origin, QueryOK, QueryCalls
    <3> QED
      BY <2>1, <2>3, <3>2 DEF QueryOK, QueryCalls
  <2> QED
    BY <2>3, <2>4
<1>5. ASSUME NEW w \in Workloads, Ask(r, w)
      PROVE  \E q \in QueryCalls : asking' = [asking EXCEPT ![r] = q] /\ QueryOK(q)
  <2>1. Entry(w) # {} => /\ First(Entry(w)) \in Known
                         /\ g_workload_table[First(Entry(w))].id = w
    BY FirstEntry DEF TableInv
  <2>2. w \in settled => Entry(w) # {}
    BY DEF TableInv, GivenOK
  <2> DEFINE n == [NoQuery EXCEPT
                    !.at = IF Entry(w) = {} THEN "missing" ELSE "read",
                    !.workload = w,
                    !.index = IF Entry(w) = {} THEN 0 ELSE First(Entry(w)),
                    !.settled = w \in settled]
  <2>3. asking' = [asking EXCEPT ![r] = n]
    BY <1>5 DEF Ask
  <2>4. n \in QueryCalls
    <3> DEFINE at == IF Entry(w) = {} THEN "missing" ELSE "read"
               index == IF Entry(w) = {} THEN 0 ELSE First(Entry(w))
               known == w \in settled
    <3>1. NoQuery \in QueryCalls
      BY DEF NoQuery, QueryCalls
    <3>2. index \in Nat
      BY <2>1 DEF TableInv, TableOK
    <3>3. at \in {"missing", "read"} /\ known \in BOOLEAN
      OBVIOUS
    <3>4. n = [NoQuery EXCEPT !.at = at, !.workload = w, !.index = index, !.settled = known]
      OBVIOUS
    <3> HIDE DEF at, index, known, n
    <3> QED
      BY <3>1, <3>2, <3>3, <3>4 DEF QueryCalls
  <2>5. QueryOK(n)
    <3>1. /\ n.at = "missing" => Entry(w) = {}
          /\ n.at = "read" => Entry(w) # {} /\ n.index = First(Entry(w))
          /\ n.at \in {"missing", "read"}
          /\ n.workload = w /\ n.field = 1
          /\ n.settled => w \in settled
      BY DEF NoQuery
    <3> HIDE DEF n
    <3> QED
      BY <2>1, <2>2, <3>1 DEF QueryOK
  <2> QED
    BY <2>3, <2>4, <2>5
<1> QED
  BY <1>4, <1>5

LEMMA TableKeeps == TableInv /\ [TableNext]_tableVars => TableInv'
<1> SUFFICES ASSUME TableInv, [TableNext]_tableVars PROVE TableInv'
  OBVIOUS
<1>1. CASE UNCHANGED tableVars
  BY <1>1 DEF tableVars, TableInv, SettingOK, TableOK, GivenOK, ContentsOK, Origin, QueriesOK,
              QueryOK, Entry, Known
<1>2. CASE TableNext
  BY <1>2, SearchKeeps, NameEntryKeeps, WriteFieldKeeps, QueryKeeps DEF TableNext
<1> QED
  BY <1>1, <1>2

(***************************************************************************)
(* The inductive invariant holds in every reachable state: an entry below  *)
(* the count has the values that were given to its workload, but for the   *)
(* fields that the setter is still writing.                                *)
(***************************************************************************)
THEOREM TableHolds == TableSpec => []TableInv
  BY TableBegins, TableKeeps, PTL DEF TableSpec
-----------------------------------------------------------------------------
LEMMA TableTyped == TableInv => TableTypeOK
  BY DEF TableInv, SettingOK, TableOK, FieldValues, TableTypeOK

(* The table, the setter and the queries keep their types, for any table size. *)
THEOREM TableTypes == TableSpec => []TableTypeOK
  BY TableTyped, TableHolds, PTL

(***************************************************************************)
(* Whatever the interleaving of a setter with any number of readers of the *)
(* table without a lock, an answer about a workload has only fields that   *)
(* were given to that workload, or none yet, and a workload that has been  *)
(* set is found.                                                           *)
(***************************************************************************)
THEOREM AnswersAreSound == TableSpec => []AnswersWereGiven
<1>1. TableInv => AnswersWereGiven
  <2> SUFFICES ASSUME TableInv, NEW r \in Readers, NEW f \in 1 .. asking[r].field - 1
      PROVE  /\ asking[r].settled => asking[r].at # "missing"
             /\ asking[r].answer[f] \in given[asking[r].workload]
                  \cup (IF asking[r].settled THEN {} ELSE {Untouched})
    BY DEF AnswersWereGiven, TableInv, QueriesOK, QueryOK
  <2>1. f \in Fields /\ f < asking[r].field
    BY WorkloadAssumption DEF TableInv, QueriesOK, QueryCalls, Fields
  <2> QED
    BY <2>1 DEF TableInv, QueriesOK, QueryOK
<1> QED
  BY <1>1, TableHolds, PTL

-----------------------------------------------------------------------------
(***************************************************************************)
(* Eight threads that share out an addition (KernelThreads).               *)
(***************************************************************************)

RunKinds == KernelNames \cup {"other", "none"}

KernelTypes ==
  /\ kernel \in [name : KernelNames \cup {"none"}, is_svm : [ArgIndexes -> BOOLEAN],
                 n : Nat, arg_count : 0 .. 4]
  /\ kernel # NoKernel => kernel.name \in KernelNames
  /\ g_active_kernels = IF kernel = NoKernel THEN 0 ELSE 1
  /\ g_completed_executions \in 0 .. MaxRuns
  /\ caller \in [at : {"idle", "dispatch", "create", "wait", "returned"}, global : Nat,
                 n : Nat, kind : RunKinds, created : 0 .. NumThreads, missing : 0 .. MaxMissing]
  /\ abandoned \in BOOLEAN
  /\ workers \in [Workers -> [next : Nat, end : Nat]]
  /\ output \in [Elements -> KernelNames \cup {"old", "anything"}]

(* Whether the work is, or was, shared out. *)
Shared == caller.at \in {"create", "wait"} \/ caller.created = NumThreads

Begun(t) == t < caller.created

Did(t, e) == Chunk(t).next <= e /\ e < workers[t].next

(* Where the caller stands, and what that says of the threads and the work. *)
CallerOK ==
  /\ caller.at \in {"dispatch", "create", "wait"} => g_completed_executions < MaxRuns
  /\ caller.at = "create" => caller.created < NumThreads
  /\ caller.at = "wait" => caller.created = NumThreads
  /\ Shared => caller.kind = "vector_add" /\ ~Alone /\ "vector_add" \in KernelNames
  /\ ~Shared => /\ caller.created = 0 /\ caller.missing = 0
               /\ \A t \in Workers : workers[t] = NotStarted
  /\ caller.at \in {"idle", "dispatch"} => (~abandoned => output = Old) /\ ~Shared
  /\ caller.at # "idle" => caller.kind \in KernelNames \cup {"other"}
  /\ caller.at = "returned" => IF Shared THEN \A t \in Workers : ~Running(t)
       ELSE ~abandoned => \A e \in Elements :
              output[e] = IF caller.kind # "other" /\ e \in Todo THEN caller.kind ELSE "old"

InChunk(t) ==
  /\ workers[t].end = Chunk(t).end
  /\ Chunk(t).next <= workers[t].next
  /\ \/ workers[t].next = Chunk(t).next
     \/ workers[t].next <= Lesser(workers[t].end, caller.n)

(* A thread stays in its chunk, and what it passed is done. *)
ThreadsOK ==
  Shared =>
    /\ \A t \in Workers :
         \/ Begun(t) /\ InChunk(t)
         \/ workers[t] = NotStarted /\ (Begun(t) => caller.missing > 0)
    /\ caller.missing = 0 /\ ~abandoned => \A e \in Elements :
         output[e] = IF \E t \in Workers : Begun(t) /\ Did(t, e) THEN "vector_add" ELSE "old"

KernelInv == KernelTypes /\ CallerOK /\ ThreadsOK

LEMMA Monotone ==
  ASSUME NEW a \in Nat, NEW b \in Nat, NEW c \in Nat, a <= b
  PROVE  a * c <= b * c /\ a * c \in Nat /\ b * c \in Nat
<1>1. (b - a) * c >= 0
  OBVIOUS
<1> QED
  BY <1>1

LEMMA ChunkSizes ==
  ASSUME KernelTypes, ~Alone
  PROVE  /\ ChunkSize \in Nat \ {0}
         /\ 8 * ChunkSize <= caller.global
         /\ caller.global \in Nat
<1>1. PICK g \in Nat : g = caller.global
  BY DEF KernelTypes
<1>2. g \div 8 \in Int /\ g = 8 * (g \div 8) + (g % 8) /\ g % 8 \in 0 .. 7
  OBVIOUS
<1>3. PICK q \in Int : q = g \div 8
  BY <1>2
<1>4. q > 0
  BY <1>1, <1>3 DEF Alone, ChunkSize, NumThreads
<1>5. 8 * q <= g
  <2>1. PICK r \in 0 .. 7 : g = 8 * q + r
    BY <1>2, <1>3
  <2> QED
    BY <2>1
<1>6. ChunkSize = q
  BY <1>1, <1>3 DEF ChunkSize, NumThreads
<1> QED
  BY <1>1, <1>4, <1>5, <1>6

(* The chunks follow each other and cover the work. *)
LEMMA Chunks ==
  ASSUME KernelTypes, ~Alone
  PROVE  /\ \A t \in Workers : /\ Chunk(t).next \in Nat /\ Chunk(t).end \in Nat
                               /\ Chunk(t).next < Chunk(t).end
                               /\ Chunk(t).end <= caller.global
         /\ \A t, u \in Workers : t < u => Chunk(t).end <= Chunk(u).next
         /\ \A e \in 0 .. caller.global - 1 :
              \E t \in Workers : Chunk(t).next <= e /\ e < Chunk(t).end
<1>1. PICK c \in Nat \ {0}, g \in Nat : c = ChunkSize /\ g = caller.global /\ 8 * c <= g
  BY ChunkSizes
<1>2. \A t \in Workers : /\ Chunk(t).next = t * c
                         /\ Chunk(t).end = IF t = 7 THEN g ELSE (t + 1) * c
  BY <1>1 DEF Chunk, NumThreads
<1>3. ASSUME NEW t \in Workers
      PROVE  /\ Chunk(t).next \in Nat /\ Chunk(t).end \in Nat
             /\ Chunk(t).next < Chunk(t).end
             /\ Chunk(t).end <= g
  <2>1. t \in 0 .. 7 /\ t \in Nat /\ t + 1 \in Nat /\ t + 1 <= 8
    BY DEF Workers, NumThreads
  <2>2. (t + 1) * c <= 8 * c /\ (t + 1) * c \in Nat /\ t * c \in Nat
    BY <2>1, Monotone
  <2>3. (t + 1) * c = t * c + c
    BY <2>1
  <2>4. CASE t = 7
    <3>1. Chunk(t).next = 7 * c /\ Chunk(t).end = g
      BY <1>2, <2>4
    <3> QED
      BY <1>1, <3>1
  <2>5. CASE t # 7
    BY <1>1, <1>2, <2>2, <2>3, <2>5
  <2> QED
    BY <2>4, <2>5
<1>4. ASSUME NEW t \in Workers, NEW u \in Workers, t < u
      PROVE  Chunk(t).end <= Chunk(u).next
  <2>1. t + 1 \in Nat /\ u \in Nat /\ t + 1 <= u /\ t # 7
    BY <1>4 DEF Workers, NumThreads
  <2>2. (t + 1) * c <= u * c
    BY <2>1, Monotone
  <2> QED
    BY <1>2, <2>1, <2>2
<1>5. ASSUME NEW e \in 0 .. g - 1
      PROVE  \E t \in Workers : Chunk(t).next <= e /\ e < Chunk(t).end
  <2>1. 0 \in Workers /\ 1 \in Workers /\ 2 \in Workers /\ 3 \in Workers
        /\ 4 \in Workers /\ 5 \in Workers /\ 6 \in Workers /\ 7 \in Workers
    BY DEF Workers, NumThreads
  <2>2. /\ Chunk(0).next = 0 /\ Chunk(0).end = c
        /\ Chunk(1).next = c /\ Chunk(1).end = 2 * c
        /\ Chunk(2).next = 2 * c /\ Chunk(2).end = 3 * c
        /\ Chunk(3).next = 3 * c /\ Chunk(3).end = 4 * c
        /\ Chunk(4).next = 4 * c /\ Chunk(4).end = 5 * c
        /\ Chunk(5).next = 5 * c /\ Chunk(5).end = 6 * c
        /\ Chunk(6).next = 6 * c /\ Chunk(6).end = 7 * c
        /\ Chunk(7).next = 7 * c /\ Chunk(7).end = g
    BY <1>2, <2>1
  <2>3. \/ 0 <= e /\ e < c
        \/ c <= e /\ e < 2 * c
        \/ 2 * c <= e /\ e < 3 * c
        \/ 3 * c <= e /\ e < 4 * c
        \/ 4 * c <= e /\ e < 5 * c
        \/ 5 * c <= e /\ e < 6 * c
        \/ 6 * c <= e /\ e < 7 * c
        \/ 7 * c <= e /\ e < g
    OBVIOUS
  <2> QED
    BY <2>1, <2>2, <2>3
<1> QED
  BY <1>1, <1>3, <1>4, <1>5

LEMMA KernelBegins == KernelInit => KernelInv
<1> SUFFICES ASSUME KernelInit PROVE KernelInv
  OBVIOUS
<1>1. KernelTypes
  <2>1. kernel \in [name : KernelNames \cup {"none"}, is_svm : [ArgIndexes -> BOOLEAN],
                 n : Nat, arg_count : 0 .. 4]
    <3>1. [i \in ArgIndexes |-> FALSE] \in [ArgIndexes -> BOOLEAN]
      OBVIOUS
    <3>2. 0 \in Nat /\ 0 \in 0 .. 4
      OBVIOUS
    <3> QED
      BY <3>1, <3>2, Zenon DEF KernelInit, NoKernel
  <2>2. caller \in [at : {"idle", "dispatch", "create", "wait", "returned"}, global : Nat,
                   n : Nat, kind : RunKinds, created : 0 .. NumThreads, missing : 0 .. MaxMissing]
    BY KernelAssumption DEF KernelInit, NoRun, NumThreads, RunKinds
  <2>3. /\ workers \in [Workers -> [next : Nat, end : Nat]]
        /\ output \in [Elements -> KernelNames \cup {"old", "anything"}]
        /\ abandoned \in BOOLEAN
    BY DEF KernelInit, NotStarted, Old
  <2>4. /\ kernel # NoKernel => kernel.name \in KernelNames
        /\ g_active_kernels = IF kernel = NoKernel THEN 0 ELSE 1
        /\ g_completed_executions \in 0 .. MaxRuns
    BY KernelAssumption DEF KernelInit
  <2> QED
    BY <2>1, <2>2, <2>3, <2>4 DEF KernelTypes
<1>2. CallerOK
  BY DEF KernelInit, CallerOK, Shared, NoRun, NumThreads
<1>3. ~Shared
  BY DEF KernelInit, Shared, NoRun, NumThreads
<1> QED
  BY <1>1, <1>2, <1>3 DEF KernelInv, ThreadsOK

(* What is said of a run depends on the caller, the threads and the output. *)
LEMMA RunFrame ==
  ASSUME CallerOK, ThreadsOK, UNCHANGED <<g_completed_executions, caller, workers, abandoned, output>>
  PROVE  CallerOK' /\ ThreadsOK'
  BY DEF CallerOK, ThreadsOK, InChunk, Shared, Alone, ChunkSize, Running, Todo, Begun, Did, Chunk,
         Lesser

(* Setting up the kernel. *)
LEMMA SetUpKeeps ==
  ASSUME KernelInv,
         \/ \E name \in KernelNames : retryix_kernel_create_from_source(name)
         \/ \E i \in Pointers : retryix_kernel_set_svm_arg(i)
         \/ \E size \in WorkSizes : retryix_kernel_set_scalar_arg(size)
  PROVE  KernelInv'
<1> DEFINE K == [name : KernelNames \cup {"none"}, is_svm : [ArgIndexes -> BOOLEAN],
                 n : Nat, arg_count : 0 .. 4]
           SvmFlags == [ArgIndexes -> BOOLEAN]
<1>1. kernel \in K /\ NoKernel \in K
  <2>1. [i \in ArgIndexes |-> FALSE] \in [ArgIndexes -> BOOLEAN]
    OBVIOUS
  <2>2. 0 \in Nat /\ 0 \in 0 .. 4
    OBVIOUS
  <2> QED
    BY <2>1, <2>2, Zenon DEF KernelInv, KernelTypes, NoKernel
<1>2. UNCHANGED <<g_completed_executions, caller, workers, abandoned, output>>
  BY DEF retryix_kernel_create_from_source, retryix_kernel_set_svm_arg,
         retryix_kernel_set_scalar_arg
<1>3. ASSUME NEW i \in ArgIndexes PROVE Counted(i) \in 0 .. 4 /\ Counted(i) > 0
  <2>1. kernel.arg_count \in 0 .. 4
    BY <1>1
  <2> HIDE DEF K
  <2> QED
    BY <2>1 DEF Counted, ArgIndexes
<1>4. /\ kernel' \in K
      /\ kernel' # NoKernel => kernel'.name \in KernelNames
      /\ g_active_kernels' = IF kernel' = NoKernel THEN 0 ELSE 1
  <2>1. ASSUME NEW name \in KernelNames, retryix_kernel_create_from_source(name)
        PROVE  /\ kernel' \in K
               /\ kernel' # NoKernel => kernel'.name \in KernelNames
               /\ g_active_kernels' = IF kernel' = NoKernel THEN 0 ELSE 1
    <3>1. kernel' = [NoKernel EXCEPT !.name = name] /\ g_active_kernels' = g_active_kernels + 1
          /\ kernel = NoKernel
      BY <2>1 DEF retryix_kernel_create_from_source
    <3>2. kernel' \in K /\ kernel'.name = name
      BY <1>1, <3>1, Zenon
    <3>3. name # "none" /\ NoKernel.name = "none"
      BY KernelAssumption DEF NoKernel
    <3>4. g_active_kernels = 0
      BY <3>1 DEF KernelInv, KernelTypes
    <3>5. kernel' # NoKernel
      BY <3>2, <3>3
    <3> HIDE DEF K
    <3> QED
      BY <3>1, <3>2, <3>4, <3>5
  <2>2. ASSUME NEW i \in ArgIndexes, NEW flag \in BOOLEAN, NEW n \in Nat,
               kernel # NoKernel,
               kernel' = [kernel EXCEPT !.n = n, !.is_svm[i] = flag, !.arg_count = Counted(i)],
               g_active_kernels' = g_active_kernels
        PROVE  /\ kernel' \in K
               /\ kernel' # NoKernel => kernel'.name \in KernelNames
               /\ g_active_kernels' = IF kernel' = NoKernel THEN 0 ELSE 1
    <3>1. [kernel.is_svm EXCEPT ![i] = flag] \in SvmFlags
      BY <1>1
    <3>2. kernel' = [name |-> kernel.name, is_svm |-> [kernel.is_svm EXCEPT ![i] = flag],
                     n |-> n, arg_count |-> Counted(i)]
      BY <1>1, <2>2
    <3>3. kernel.name \in KernelNames /\ kernel'.name = kernel.name /\ kernel'.arg_count = Counted(i)
      BY <2>2, <3>2 DEF KernelInv, KernelTypes
    <3>4. kernel' \in K
      BY <1>3, <3>1, <3>2, <3>3
    <3>5. kernel' # NoKernel
      <4>1. NoKernel.arg_count = 0
        BY DEF NoKernel
      <4> QED
        BY <1>3, <3>3, <4>1
    <3> QED
      BY <2>2, <3>3, <3>4, <3>5 DEF KernelInv, KernelTypes
  <2>3. ASSUME NEW i \in Pointers, retryix_kernel_set_svm_arg(i)
        PROVE  \E n \in Nat : kernel' = [kernel EXCEPT !.n = n, !.is_svm[i] = TRUE, !.arg_count = Counted(i)]
    <3>1. kernel' = [kernel EXCEPT !.is_svm[i] = TRUE, !.arg_count = Counted(i)]
      BY <2>3 DEF retryix_kernel_set_svm_arg
    <3>2. kernel.n \in Nat
      BY <1>1
    <3>3. kernel' = [kernel EXCEPT !.n = kernel.n, !.is_svm[i] = TRUE, !.arg_count = Counted(i)]
      BY <1>1, <3>1
    <3> QED
      BY <3>2, <3>3
  <2>4. Pointers \subseteq ArgIndexes /\ 3 \in ArgIndexes
    BY DEF Pointers, ArgIndexes
  <2>5. ASSUME NEW size \in WorkSizes, retryix_kernel_set_scalar_arg(size)
        PROVE  /\ size \in Nat
               /\ kernel' = [kernel EXCEPT !.n = size, !.is_svm[3] = FALSE, !.arg_count = Counted(3)]
    BY <2>5, KernelAssumption DEF retryix_kernel_set_scalar_arg
  <2>6. CASE \E i \in Pointers : retryix_kernel_set_svm_arg(i)
    <3>1. PICK i \in Pointers : retryix_kernel_set_svm_arg(i)
      BY <2>6
    <3>2. kernel # NoKernel /\ g_active_kernels' = g_active_kernels
      BY <3>1 DEF retryix_kernel_set_svm_arg
    <3> HIDE DEF K
    <3> QED
      BY <2>2, <2>3, <2>4, <3>1, <3>2
  <2>7. CASE \E size \in WorkSizes : retryix_kernel_set_scalar_arg(size)
    <3>1. PICK size \in WorkSizes : retryix_kernel_set_scalar_arg(size)
      BY <2>7
    <3>2. kernel # NoKernel /\ g_active_kernels' = g_active_kernels
      BY <3>1 DEF retryix_kernel_set_scalar_arg
    <3> HIDE DEF K
    <3> QED
      BY <2>2, <2>4, <2>5, <3>1, <3>2
  <2> HIDE DEF K
  <2> QED
    BY <2>1, <2>6, <2>7
<1>5. KernelTypes'
  BY <1>2, <1>4 DEF KernelInv, KernelTypes
<1>6. CallerOK' /\ ThreadsOK'
  BY <1>2, RunFrame DEF KernelInv
<1> QED
  BY <1>5, <1>6 DEF KernelInv

(* A run begins with nothing shared out and the old elements. *)
LEMMA ExecuteKeeps ==
  ASSUME KernelInv, NEW size \in WorkSizes, retryix_kernel_execute(size)
  PROVE  KernelInv'
<1>1. /\ caller' = [at |-> "dispatch", global |-> size, created |-> 0, missing |-> 0,
                    n |-> kernel.n, kind |-> IF Complete(kernel) THEN kernel.name ELSE "other"]
      /\ output' = Old /\ workers' = [t \in Workers |-> NotStarted]
      /\ UNCHANGED <<kernel, g_active_kernels, g_completed_executions, abandoned>>
      /\ kernel # NoKernel /\ g_completed_executions < MaxRuns
  BY DEF retryix_kernel_execute
<1>2. kernel.n \in Nat /\ kernel.name \in KernelNames /\ size \in Nat
  BY <1>1, KernelAssumption DEF KernelInv, KernelTypes
<1>3. PICK kind \in KernelNames \cup {"other"} :
        kind = IF Complete(kernel) THEN kernel.name ELSE "other"
  BY <1>2
<1>4. caller' = [at |-> "dispatch", global |-> size, created |-> 0, missing |-> 0,
                    n |-> kernel.n, kind |-> kind]
  BY <1>1, <1>3
<1>5. caller' \in [at : {"idle", "dispatch", "create", "wait", "returned"}, global : Nat,
                   n : Nat, kind : RunKinds, created : 0 .. NumThreads,
                   missing : 0 .. MaxMissing]
  BY <1>2, <1>4, KernelAssumption DEF RunKinds, NumThreads
<1>6. workers' \in [Workers -> [next : Nat, end : Nat]] /\ output' \in [Elements -> KernelNames \cup {"old", "anything"}]
  BY <1>1 DEF NotStarted, Old
<1>7. KernelTypes'
  BY <1>1, <1>5, <1>6 DEF KernelInv, KernelTypes
<1>8. ~Shared'
  BY <1>4 DEF Shared, NumThreads
<1> QED
  BY <1>1, <1>4, <1>7, <1>8 DEF KernelInv, CallerOK, ThreadsOK

LEMMA CallerFields ==
  ASSUME KernelTypes
  PROVE  /\ caller.global \in Nat /\ caller.n \in Nat /\ caller.created \in 0 .. 8
         /\ caller.missing \in 0 .. MaxMissing
         /\ caller = [at |-> caller.at, global |-> caller.global, n |-> caller.n,
                      kind |-> caller.kind, created |-> caller.created,
                      missing |-> caller.missing]
         /\ NumThreads = 8 /\ Workers = 0 .. 7
  BY DEF KernelTypes, NumThreads, Workers

LEMMA DispatchKeeps ==
  ASSUME KernelInv, Dispatch
  PROVE  KernelInv'
<1>1. /\ caller.at = "dispatch" /\ UNCHANGED <<kernel, g_active_kernels, workers, abandoned>>
      /\ (~abandoned => output = Old) /\ ~Shared /\ caller.created = 0 /\ caller.missing = 0
      /\ \A t \in Workers : workers[t] = NotStarted
      /\ caller.kind \in KernelNames \cup {"other"}
  BY DEF Dispatch, KernelInv, CallerOK
<1>2. CASE caller.kind = "vector_add" /\ ~Alone /\ caller' = [caller EXCEPT !.at = "create"]
             /\ UNCHANGED <<output, g_completed_executions>>
  <2>1. caller' = [at |-> "create", global |-> caller.global, n |-> caller.n,
                   kind |-> caller.kind, created |-> 0, missing |-> 0]
    BY <1>1, <1>2, CallerFields DEF KernelInv
  <2>2. KernelTypes'
    BY <1>1, <1>2, <2>1 DEF KernelInv, KernelTypes
  <2>3. Shared' /\ Alone' = Alone
    BY <2>1 DEF Shared, Alone, ChunkSize
  <2>4. "vector_add" \in KernelNames
    BY <1>1, <1>2
  <2>5. CallerOK'
    BY <1>1, <1>2, <2>1, <2>3, <2>4 DEF KernelInv, CallerOK, NumThreads
  <2>6. \A t \in Workers : ~Begun(t)' /\ workers'[t] = NotStarted
    BY <1>1, <2>1 DEF Begun, Workers, NumThreads
  <2>7. ~abandoned' => \A e \in Elements : output'[e] = "old"
    BY <1>1, <1>2 DEF Old
  <2>8. ThreadsOK'
    BY <2>6, <2>7 DEF ThreadsOK
  <2> QED
    BY <2>2, <2>5, <2>8 DEF KernelInv
<1>3. CASE /\ output' = [e \in Elements |-> IF caller.kind # "other" /\ e \in Todo
                                               THEN caller.kind ELSE output[e]]
           /\ caller' = [caller EXCEPT !.at = "returned"]
           /\ g_completed_executions' = g_completed_executions + 1
  <2>1. caller' = [at |-> "returned", global |-> caller.global, n |-> caller.n,
                   kind |-> caller.kind, created |-> 0, missing |-> 0]
    BY <1>1, <1>3, CallerFields DEF KernelInv
  <2>2. ~Shared' /\ Todo' = Todo
    BY <2>1 DEF Shared, Todo, NumThreads
  <2>3. ~abandoned' => \A e \in Elements :
          output'[e] = IF caller'.kind # "other" /\ e \in Todo' THEN caller'.kind ELSE "old"
    <3>1. ~abandoned => \A e \in Elements : output[e] = "old"
      BY <1>1 DEF Old
    <3> HIDE DEF Elements
    <3> QED
      BY <1>1, <1>3, <2>1, <2>2, <3>1
  <2>4. output' \in [Elements -> KernelNames \cup {"old", "anything"}]
    BY <1>1, <1>3 DEF KernelInv, KernelTypes
  <2>5. g_completed_executions' \in 0 .. MaxRuns
    BY <1>1, <1>3, KernelAssumption DEF KernelInv, CallerOK, KernelTypes
  <2>6. KernelTypes'
    BY <1>1, <2>1, <2>4, <2>5 DEF KernelInv, KernelTypes
  <2>7. CallerOK' /\ ThreadsOK'
    BY <1>1, <2>1, <2>2, <2>3 DEF CallerOK, ThreadsOK
  <2> QED
    BY <2>6, <2>7 DEF KernelInv
<1> QED
  BY <1>2, <1>3 DEF Dispatch

LEMMA CreateKeeps ==
  ASSUME KernelInv, CreateThread
  PROVE  KernelInv'
<1>0. PICK c \in 0 .. 8, m \in 0 .. MaxMissing : c = caller.created /\ m = caller.missing
  BY CallerFields DEF KernelInv
<1>1. /\ caller.at = "create"
      /\ UNCHANGED <<kernel, g_active_kernels, g_completed_executions, abandoned, output>>
      /\ Shared /\ ~Alone /\ c \in 0 .. 7 /\ c \in Workers
  BY <1>0, CallerFields DEF CreateThread, KernelInv, CallerOK, Shared, KernelTypes
<1>2. PICK f \in 0 .. 1, next \in {"create", "wait"} :
        /\ m + f <= MaxMissing
        /\ workers' = IF f = 1 THEN workers ELSE [workers EXCEPT ![c] = Chunk(c)]
        /\ caller' = [at |-> next, global |-> caller.global, n |-> caller.n,
                      kind |-> caller.kind, created |-> c + 1, missing |-> m + f]
        /\ next = IF c + 1 = 8 THEN "wait" ELSE "create"
  <2>1. PICK f \in 0 .. 1 :
          /\ m + f <= MaxMissing
          /\ workers' = IF f = 1 THEN workers ELSE [workers EXCEPT ![c] = Chunk(c)]
          /\ caller' = [caller EXCEPT !.created = c + 1, !.missing = m + f,
                                   !.at = IF c + 1 = 8 THEN "wait" ELSE "create"]
    BY <1>0, <1>1, CallerFields DEF CreateThread, KernelInv
  <2> QED
    BY <2>1, CallerFields DEF KernelInv
<1>3. Shared' /\ Alone' = Alone /\ \A t : Chunk(t)' = Chunk(t)
  BY <1>2 DEF Shared, Alone, ChunkSize, Chunk
<1>4. /\ \A t \in Workers : Chunk(t).next \in Nat /\ Chunk(t).end \in Nat
      /\ \A t \in Workers : Chunk(t) = [next |-> Chunk(t).next, end |-> Chunk(t).end]
  BY <1>1, Chunks DEF KernelInv, Chunk
<1>5. /\ \A t \in Workers : t # c => workers'[t] = workers[t]
      /\ workers'[c] = IF f = 1 THEN workers[c] ELSE Chunk(c)
  BY <1>1, <1>2 DEF KernelInv, KernelTypes
<1>6. workers' \in [Workers -> [next : Nat, end : Nat]]
  <2>1. Chunk(c) \in [next : Nat, end : Nat]
    <3>1. PICK a \in Nat, b \in Nat : Chunk(c) = [next |-> a, end |-> b]
      BY <1>1, <1>4
    <3> QED
      BY <3>1
  <2> QED
    BY <1>1, <1>2, <2>1 DEF KernelInv, KernelTypes
<1>7. KernelTypes'
  <2>1. c + 1 \in 0 .. NumThreads /\ m + f \in 0 .. MaxMissing
    BY <1>1, <1>2, KernelAssumption DEF NumThreads
  <2> QED
    BY <1>1, <1>2, <1>6, <2>1 DEF KernelInv, KernelTypes
<1>8. CallerOK'
  <2>1. c \in Int
    BY <1>1
  <2> QED
    BY <1>1, <1>2, <1>3, <2>1 DEF KernelInv, CallerOK, NumThreads
<1>9. /\ \A t \in Workers : Begun(t)' <=> Begun(t) \/ t = c
      /\ ~Begun(c) /\ workers[c] = NotStarted
  <2>1. \A t \in Workers : Begun(t)' <=> Begun(t) \/ t = c
    BY <1>0, <1>1, <1>2 DEF Begun, Workers
  <2>2. ~Begun(c)
    BY <1>0, <1>1 DEF Begun
  <2> QED
    BY <1>1, <2>1, <2>2 DEF KernelInv, ThreadsOK
<1>10. \A t \in Workers : \/ Begun(t)' /\ InChunk(t)'
                          \/ workers'[t] = NotStarted /\ (Begun(t)' => caller'.missing > 0)
  <2> SUFFICES ASSUME NEW t \in Workers
               PROVE  \/ Begun(t)' /\ InChunk(t)'
                      \/ workers'[t] = NotStarted /\ (Begun(t)' => caller'.missing > 0)
    OBVIOUS
  <2>1. CASE t = c /\ f = 1
    <3>1. m + f > 0
      BY <2>1
    <3> QED
      BY <1>2, <1>5, <1>9, <2>1, <3>1
  <2>2. CASE t = c /\ f # 1
    <3>1. workers'[t] = Chunk(c) /\ Begun(t)' /\ Chunk(c).next \in Nat
      BY <1>1, <1>4, <1>5, <1>9, <2>2
    <3> QED
      BY <1>3, <2>2, <3>1 DEF InChunk
  <2>3. CASE t # c
    <3>1. workers'[t] = workers[t] /\ (Begun(t)' <=> Begun(t)) /\ caller'.n = caller.n
      BY <1>2, <1>5, <1>9, <2>3
    <3>2. InChunk(t) => InChunk(t)'
      BY <1>3, <3>1 DEF InChunk, Lesser
    <3>3. caller.missing > 0 => caller'.missing > 0
      BY <1>0, <1>2
    <3> QED
      BY <1>1, <3>1, <3>2, <3>3 DEF KernelInv, ThreadsOK
  <2> QED
    BY <2>1, <2>2, <2>3
<1>11. ASSUME caller'.missing = 0, ~abandoned', NEW e \in Elements
       PROVE  output'[e] = IF \E t \in Workers : Begun(t)' /\ Did(t, e)' THEN "vector_add" ELSE "old"
  <2>0. f = 0 /\ caller.missing = 0 /\ ~abandoned
    BY <1>0, <1>1, <1>2, <1>11
  <2>1. ASSUME NEW t \in Workers, t # c PROVE Did(t, e)' <=> Did(t, e)
    BY <1>3, <1>5, <2>1 DEF Did
  <2>2. ~Did(c, e)'
    <3>1. workers'[c].next = Chunk(c).next /\ Chunk(c).next \in Nat /\ e \in Nat
      BY <1>1, <1>4, <1>5, <2>0 DEF Elements
    <3> QED
      BY <1>3, <3>1 DEF Did
  <2>3. (\E t \in Workers : Begun(t)' /\ Did(t, e)') <=> \E t \in Workers : Begun(t) /\ Did(t, e)
    BY <1>9, <2>1, <2>2
  <2> QED
    BY <1>1, <2>0, <2>3 DEF KernelInv, ThreadsOK
<1>12. ThreadsOK'
  BY <1>10, <1>11 DEF ThreadsOK
<1> QED
  BY <1>7, <1>8, <1>12 DEF KernelInv

LEMMA ThreadKeeps ==
  ASSUME KernelInv, NEW t \in Workers, vector_add_thread(t)
  PROVE  KernelInv'
<1> DEFINE k == workers[t].next
<1>1. /\ Running(t) /\ output' = [output EXCEPT ![k] = "vector_add"]
      /\ workers' = [workers EXCEPT ![t].next = @ + 1]
      /\ UNCHANGED <<kernel, g_active_kernels, g_completed_executions, caller, abandoned>>
  BY DEF vector_add_thread
<1>2. /\ k \in Nat /\ workers[t].end \in Nat /\ caller.n \in Nat
      /\ k < Lesser(workers[t].end, caller.n)
  BY <1>1, CallerFields DEF KernelInv, KernelTypes, Running
<1>3. Shared
  <2>1. workers[t] # NotStarted
    <3>1. NotStarted.next = 0 /\ NotStarted.end = 0
      BY DEF NotStarted
    <3> QED
      BY <1>2, <3>1 DEF Lesser
  <2> QED
    BY <2>1 DEF KernelInv, CallerOK
<1>4. caller.at \in {"create", "wait"} /\ ~Alone /\ "vector_add" \in KernelNames
  BY <1>1, <1>3 DEF KernelInv, CallerOK, KernelTypes
<1>5. Begun(t) /\ InChunk(t)
  <2>1. workers[t] # NotStarted
    <3>1. NotStarted.next = 0 /\ NotStarted.end = 0
      BY DEF NotStarted
    <3> QED
      BY <1>2, <3>1 DEF Lesser
  <2> QED
    BY <1>3, <2>1 DEF KernelInv, ThreadsOK
<1>6. Chunk(t).next <= k /\ Chunk(t).next \in Nat
  BY <1>3, <1>4, <1>5, Chunks DEF KernelInv, InChunk
<1>7. \A u \in Workers : workers'[u] = IF u = t THEN [next |-> k + 1, end |-> workers[t].end]
                                                ELSE workers[u]
  BY <1>1 DEF KernelInv, KernelTypes
<1>8. workers' \in [Workers -> [next : Nat, end : Nat]]
  <2>1. k + 1 \in Nat
    BY <1>2
  <2>2. [next |-> k + 1, end |-> workers[t].end] \in [next : Nat, end : Nat]
    BY <1>2, <2>1
  <2>3. DOMAIN workers' = Workers /\ workers' = [u \in Workers |-> workers'[u]]
    BY <1>1 DEF KernelInv, KernelTypes
  <2> QED
    BY <1>7, <2>2, <2>3 DEF KernelInv, KernelTypes
<1>9. output' \in [Elements -> KernelNames \cup {"old", "anything"}]
  BY <1>1, <1>4 DEF KernelInv, KernelTypes
<1>10. KernelTypes'
  BY <1>1, <1>8, <1>9 DEF KernelInv, KernelTypes
<1>11. CallerOK'
  BY <1>1, <1>3, <1>4 DEF KernelInv, CallerOK, Shared, Alone, ChunkSize
<1>12. /\ \A u : (Begun(u)' <=> Begun(u)) /\ Chunk(u)' = Chunk(u)
       /\ Shared' = Shared /\ caller'.n = caller.n
  BY <1>1 DEF Begun, Chunk, ChunkSize, Shared
<1>13. \A u \in Workers : \/ Begun(u)' /\ InChunk(u)'
                          \/ workers'[u] = NotStarted /\ (Begun(u)' => caller'.missing > 0)
  <2> SUFFICES ASSUME NEW u \in Workers
               PROVE  \/ Begun(u)' /\ InChunk(u)'
                      \/ workers'[u] = NotStarted /\ (Begun(u)' => caller'.missing > 0)
    OBVIOUS
  <2>1. CASE u = t
    <3>1. workers'[u].next = k + 1 /\ workers'[u].end = workers[t].end /\ Begun(u)'
      BY <1>5, <1>7, <1>12, <2>1
    <3>2. k + 1 <= Lesser(workers[t].end, caller.n)
      BY <1>2 DEF Lesser
    <3>3. workers[t].end = Chunk(t).end
      BY <1>5 DEF InChunk
    <3>4. Chunk(t).next <= k + 1
      BY <1>2, <1>6
    <3> QED
      BY <1>12, <2>1, <3>1, <3>2, <3>3, <3>4 DEF InChunk, Lesser
  <2>2. CASE u # t
    <3>1. workers'[u] = workers[u] /\ (Begun(u)' <=> Begun(u)) /\ caller' = caller
      BY <1>1, <1>7, <1>12, <2>2
    <3>2. InChunk(u) => InChunk(u)'
      BY <1>12, <3>1 DEF InChunk, Lesser
    <3> QED
      BY <1>3, <3>1, <3>2 DEF KernelInv, ThreadsOK
  <2> QED
    BY <2>1, <2>2
<1>14. ASSUME caller'.missing = 0, ~abandoned', NEW e \in Elements
       PROVE  output'[e] = IF \E u \in Workers : Begun(u)' /\ Did(u, e)' THEN "vector_add" ELSE "old"
  <2>1. \A u \in Workers : u # t => (Did(u, e)' <=> Did(u, e))
    BY <1>7, <1>12 DEF Did
  <2>2. Did(t, e)' <=> Did(t, e) \/ e = k
    <3>1. workers'[t].next = k + 1 /\ e \in Nat
      BY <1>7 DEF Elements
    <3> QED
      BY <1>2, <1>6, <1>12, <3>1 DEF Did
  <2>3. output[e] = IF \E u \in Workers : Begun(u) /\ Did(u, e) THEN "vector_add" ELSE "old"
    BY <1>1, <1>3, <1>14 DEF KernelInv, ThreadsOK
  <2>4. CASE e = k
    <3>1. output'[e] = "vector_add"
      BY <1>1, <2>4 DEF KernelInv, KernelTypes
    <3> QED
      BY <1>5, <1>12, <2>2, <2>4, <3>1
  <2>5. CASE e # k
    <3>1. output'[e] = output[e]
      BY <1>1, <2>5 DEF KernelInv, KernelTypes
    <3>2. (\E u \in Workers : Begun(u)' /\ Did(u, e)') <=> \E u \in Workers : Begun(u) /\ Did(u, e)
      BY <1>12, <2>1, <2>2, <2>5
    <3> QED
      BY <2>3, <3>1, <3>2
  <2> QED
    BY <2>4, <2>5
<1>15. ThreadsOK'
  BY <1>12, <1>13, <1>14 DEF ThreadsOK
<1> QED
  BY <1>10, <1>11, <1>15 DEF KernelInv

LEMMA AbandonedKeeps ==
  ASSUME KernelInv, AbandonedThread
  PROVE  KernelInv'
<1>1. /\ abandoned /\ abandoned'
      /\ output' \in [Elements -> KernelNames \cup {"old", "anything"}]
      /\ UNCHANGED <<kernel, g_active_kernels, g_completed_executions, caller, workers>>
  BY DEF AbandonedThread, KernelInv, KernelTypes
<1>2. KernelTypes'
  BY <1>1 DEF KernelInv, KernelTypes
<1>3. CallerOK'
  BY <1>1 DEF KernelInv, CallerOK, Shared, Alone, ChunkSize, Running
<1>4. ThreadsOK'
  BY <1>1 DEF KernelInv, ThreadsOK, InChunk, Shared, Begun, Chunk, ChunkSize
<1> QED
  BY <1>2, <1>3, <1>4 DEF KernelInv

LEMMA WaitKeeps ==
  ASSUME KernelInv, WaitForMultipleObjects
  PROVE  KernelInv'
<1>1. /\ caller.at = "wait"
      /\ caller' = [caller EXCEPT !.at = "returned"]
      /\ g_completed_executions' = g_completed_executions + 1
      /\ UNCHANGED <<kernel, g_active_kernels, output>>
      /\ \/ /\ caller.missing = 0 /\ \A t \in Workers : ~Running(t)
            /\ UNCHANGED <<workers, abandoned>>
         \/ /\ caller.missing > 0
            /\ abandoned' = (abandoned \/ \E t \in Workers : Running(t))
            /\ workers' = [t \in Workers |-> NotStarted]
  BY DEF WaitForMultipleObjects
<1>2. Shared /\ caller.created = NumThreads /\ g_completed_executions < MaxRuns
  BY <1>1 DEF KernelInv, CallerOK, Shared
<1>3. caller' = [at |-> "returned", global |-> caller.global, n |-> caller.n,
                 kind |-> caller.kind, created |-> caller.created, missing |-> caller.missing]
  BY <1>1, CallerFields DEF KernelInv
<1>4. g_completed_executions' \in 0 .. MaxRuns
  BY <1>1, <1>2, KernelAssumption DEF KernelInv, KernelTypes
<1>5. abandoned' \in BOOLEAN /\ workers' \in [Workers -> [next : Nat, end : Nat]]
  <2>1. abandoned \in BOOLEAN /\ workers \in [Workers -> [next : Nat, end : Nat]]
    BY DEF KernelInv, KernelTypes
  <2>2. (abandoned \/ \E t \in Workers : Running(t)) \in BOOLEAN
    BY <2>1
  <2>3. [t \in Workers |-> NotStarted] \in [Workers -> [next : Nat, end : Nat]]
    BY DEF NotStarted
  <2> QED
    BY <1>1, <2>1, <2>2, <2>3, Zenon
<1>6. KernelTypes'
  BY <1>1, <1>3, <1>4, <1>5 DEF KernelInv, KernelTypes
<1>7. /\ \A u : (Begun(u)' <=> Begun(u)) /\ Chunk(u)' = Chunk(u)
      /\ Shared' /\ Alone' = Alone
  BY <1>1, <1>2, <1>3 DEF Begun, Chunk, ChunkSize, Shared, Alone
<1>8. \A u \in Workers : ~Running(u)'
  <2>1. CASE UNCHANGED workers /\ \A t \in Workers : ~Running(t)
    BY <1>3, <2>1 DEF Running
  <2>2. CASE workers' = [t \in Workers |-> NotStarted]
    <3>1. \A u \in Workers : workers'[u].next = 0 /\ workers'[u].end = 0
      BY <2>2 DEF NotStarted
    <3>2. caller'.n \in Nat
      BY <1>3, CallerFields DEF KernelInv
    <3> QED
      BY <3>1, <3>2 DEF Running, Lesser
  <2> QED
    BY <1>1, <2>1, <2>2
<1>9. CallerOK'
  BY <1>2, <1>3, <1>7, <1>8 DEF KernelInv, CallerOK
<1>10. ThreadsOK'
  <2>1. CASE caller.missing = 0 /\ UNCHANGED <<workers, abandoned>>
    <3>1. caller'.n = caller.n /\ caller'.missing = caller.missing /\ output' = output
      BY <1>1, <1>3
    <3>2. \A u : (InChunk(u) => InChunk(u)') /\ \A e : Did(u, e)' <=> Did(u, e)
      BY <1>7, <2>1, <3>1 DEF InChunk, Did, Lesser
    <3> QED
      BY <1>2, <1>7, <2>1, <3>1, <3>2 DEF KernelInv, ThreadsOK
  <2>2. CASE caller.missing > 0 /\ workers' = [t \in Workers |-> NotStarted]
    <3>1. caller'.missing > 0 /\ caller'.missing # 0
      BY <1>3, <2>2, CallerFields DEF KernelInv
    <3> QED
      BY <2>2, <3>1 DEF ThreadsOK
  <2> QED
    BY <1>1, <2>1, <2>2
<1> QED
  BY <1>6, <1>9, <1>10 DEF KernelInv

LEMMA KernelKeeps == KernelInv /\ [KernelNext]_kernelVars => KernelInv'
<1> SUFFICES ASSUME KernelInv, [KernelNext]_kernelVars PROVE KernelInv'
  OBVIOUS
<1>1. CASE UNCHANGED kernelVars
  <2>1. KernelTypes'
    BY <1>1 DEF KernelInv, KernelTypes, kernelVars
  <2>2. CallerOK' /\ ThreadsOK'
    BY <1>1, RunFrame DEF KernelInv, kernelVars
  <2> QED
    BY <2>1, <2>2 DEF KernelInv
<1>2. CASE KernelNext
  BY <1>2, SetUpKeeps, ExecuteKeeps, DispatchKeeps, CreateKeeps, ThreadKeeps,
     AbandonedKeeps, WaitKeeps
     DEF KernelNext
<1> QED
  BY <1>1, <1>2

LEMMA KernelHolds == KernelSpec => []KernelInv
  BY KernelBegins, KernelKeeps, PTL DEF KernelSpec

LEMMA KernelTyped == KernelInv => KernelTypeOK
  BY DEF KernelInv, KernelTypes, KernelTypeOK

(***************************************************************************)
(* For any sizes: when an addition whose eight threads could be created    *)
(* has returned, they have computed the elements that both sizes cover,    *)
(* and no other, unless threads of an addition that lacked some disturb    *)
(* it; and no two threads ever share an element.                           *)
(***************************************************************************)
THEOREM ThreadsShareTheWork == KernelSpec => []ResultsAreComplete
<1>1. KernelInv => ResultsAreComplete
  <2> SUFFICES ASSUME KernelInv PROVE ResultsAreComplete
    OBVIOUS
  <2>1. ASSUME caller.at = "returned", caller.missing = 0, ~abandoned, NEW e \in Elements
        PROVE  output[e] = IF caller.kind # "other" /\ e \in Todo THEN caller.kind ELSE "old"
    <3>1. CASE ~Shared
      BY <2>1, <3>1 DEF KernelInv, CallerOK
    <3>2. CASE Shared
      <4>1. /\ caller.created = 8 /\ caller.kind = "vector_add" /\ ~Alone
            /\ \A t \in Workers : ~Running(t) /\ Begun(t)
        BY <2>1, <3>2, CallerFields DEF KernelInv, CallerOK, Shared, Begun
      <4>2. output[e] = IF \E t \in Workers : Did(t, e) THEN "vector_add" ELSE "old"
        BY <2>1, <3>2, <4>1 DEF KernelInv, ThreadsOK
      <4>3. e \in Nat /\ caller.global \in Nat /\ caller.n \in Nat
        BY CallerFields DEF KernelInv, Elements
      <4>4. ASSUME NEW t \in Workers
            PROVE  /\ workers[t].next \in Nat /\ workers[t].end = Chunk(t).end
                   /\ Chunk(t).next \in Nat /\ Chunk(t).end \in Nat
                   /\ Chunk(t).end <= caller.global
                   /\ workers[t].next >= Lesser(Chunk(t).end, caller.n)
                   /\ \/ workers[t].next = Chunk(t).next
                      \/ workers[t].next <= Lesser(Chunk(t).end, caller.n)
        <5>1. workers[t].next \in Nat /\ workers[t].end = Chunk(t).end /\ InChunk(t)
          <6>1. InChunk(t)
            BY <2>1, <3>2, <4>1 DEF KernelInv, ThreadsOK
          <6> QED
            BY <6>1 DEF KernelInv, KernelTypes, InChunk
        <5>2. Chunk(t).next \in Nat /\ Chunk(t).end \in Nat /\ Chunk(t).end <= caller.global
          BY <4>1, Chunks DEF KernelInv
        <5>3. \/ workers[t].next = Chunk(t).next
              \/ workers[t].next <= Lesser(Chunk(t).end, caller.n)
          BY <5>1 DEF InChunk
        <5>4. workers[t].next >= Lesser(Chunk(t).end, caller.n)
          BY <4>1, <4>3, <5>1, <5>2 DEF Running, Lesser
        <5> QED
          BY <5>1, <5>2, <5>3, <5>4
      <4>5. CASE e \in Todo
        <5>1. e < caller.n /\ e < caller.global
          BY <4>3, <4>5 DEF Todo, Lesser
        <5>2. PICK t \in Workers : Chunk(t).next <= e /\ e < Chunk(t).end
          BY <4>1, <4>3, <5>1, Chunks DEF KernelInv
        <5>3. Did(t, e)
          BY <4>3, <4>4, <5>1, <5>2 DEF Did, Lesser
        <5> QED
          BY <4>1, <4>2, <4>5, <5>3
      <4>6. CASE e \notin Todo
        <5>1. ASSUME NEW t \in Workers, Did(t, e) PROVE FALSE
          BY <4>3, <4>4, <4>6, <5>1 DEF Did, Todo, Lesser
        <5> QED
          BY <4>2, <4>6, <5>1
      <4> QED
        BY <4>5, <4>6
    <3> QED
      BY <3>1, <3>2
  <2>2. ASSUME NEW t \in Workers, NEW u \in Workers, t < u, workers[u] # NotStarted
        PROVE  workers[t].end <= workers[u].next
    <3>1. Shared /\ ~Alone
      BY <2>2 DEF KernelInv, CallerOK
    <3>2. Begun(u) /\ InChunk(u)
      BY <2>2, <3>1 DEF KernelInv, ThreadsOK
    <3>3. Chunk(u).next <= workers[u].next /\ workers[u].next \in Nat
      BY <3>2 DEF KernelInv, KernelTypes, InChunk
    <3>4. Chunk(t).end <= Chunk(u).next /\ Chunk(t).end \in Nat /\ Chunk(u).next \in Nat
      BY <2>2, <3>1, Chunks DEF KernelInv
    <3>5. workers[t].end = Chunk(t).end \/ workers[t] = NotStarted
      BY <3>1 DEF KernelInv, ThreadsOK, InChunk
    <3>6. NotStarted.end = 0
      BY DEF NotStarted
    <3> QED
      BY <3>3, <3>4, <3>5, <3>6
  <2> QED
    BY <2>1, <2>2 DEF ResultsAreComplete
<1> QED
  BY <1>1, KernelHolds, PTL

-----------------------------------------------------------------------------
(***************************************************************************)
(* Finding devices with OpenCL and the bridges (Discovery).                *)
(***************************************************************************)

Devices == [source : Int, number : Int]

Real(d) == \/ d.source \in PlatformIds /\ d.number \in 1 .. present[d.source]
           \/ d.source = Rocm /\ d.number \in 1 .. hip

(* A list that may be handed out. *)
GoodList(list) ==
  /\ list \in Seq(Devices)
  /\ Len(list) <= MAX_DEVICES
  /\ IsInjective(list)
  /\ \A i \in DOMAIN list : Real(list[i])

SearchPlaces == {"idle", "platforms", "fetch platforms", "count", "fetch", "release",
                 "bridge", "hip", "found"}

SearchTypes ==
  [at : SearchPlaces, attempt : 0 .. Retries, platform : Nat, counted : Nat,
   listed : Seq(Devices), bridge : 1 .. 5]

(* What is held at each place of the search. *)
HeldAt(place) == CASE place \in {"idle", "platforms", "bridge", "found"} -> {}
                   [] place \in {"fetch platforms", "count", "release"} -> {"platforms"}
                   [] place = "fetch" -> {"platforms", "devs"}
                   [] place = "hip" -> {"hip"}

(* Platforms are visited once, in their order. *)
Visited(list) == \A i \in DOMAIN list : list[i].source < search.platform

DiscoveryInv ==
  /\ present \in [PlatformIds -> 0 .. MaxPresent] /\ hip \in Nat
  /\ search \in SearchTypes
  /\ taken = HeldAt(search.at)
  /\ GoodList(search.listed)
  /\ search.at \in {"count", "fetch"} => search.platform \in PlatformIds /\ Visited(search.listed)
  /\ search.at \in {"platforms", "fetch platforms"} => search.listed = <<>> /\ search.platform = 1
  /\ search.at = "fetch" => search.counted <= present[search.platform]
  /\ api.device_count \in 0 .. (IF MAX_DEVICES > 1 THEN MAX_DEVICES ELSE 1)
  /\ search.at = "found" =>
       /\ api.device_count = Len(search.listed)
       /\ api.best_device = IF search.listed = <<>> THEN Dummy ELSE search.listed[1]
  /\ api \in [is_initialized : BOOLEAN, device_count : Int, best_device : Devices]

LEMMA DevicesAre ==
  /\ Dummy \in Devices
  /\ \A p \in Int, i \in Int : /\ Device(p, i) \in Devices
                               /\ Device(p, i).source = p /\ Device(p, i).number = i
  BY DEF Devices, Dummy, Device

LEMMA NoListIsGood == GoodList(<<>>) /\ \A list : list = <<>> => GoodList(list)
<1>1. PICK e : e = <<>>
  OBVIOUS
<1>2. e \in Seq(Devices) /\ Len(e) = 0 /\ DOMAIN e = {}
  BY <1>1
<1>3. GoodList(e)
  BY <1>2, DiscoveryAssumption DEF GoodList, IsInjective
<1> QED
  BY <1>1, <1>3, Zenon

Made(at, tries, platform, counted, list, nth) ==
  [at |-> at, attempt |-> tries, platform |-> platform, counted |-> counted,
   listed |-> list, bridge |-> nth]

LEMMA SearchMade ==
  ASSUME NEW at \in SearchPlaces, NEW tries \in 0 .. Retries, NEW platform \in Nat,
         NEW counted \in Nat, NEW list \in Seq(Devices), NEW nth \in 1 .. 5
  PROVE  Made(at, tries, platform, counted, list, nth) \in SearchTypes
  BY DEF SearchTypes, Made

LEMMA SearchFields ==
  ASSUME search \in SearchTypes
  PROVE  /\ search.at \in SearchPlaces /\ search.attempt \in 0 .. Retries
         /\ search.platform \in Nat /\ search.counted \in Nat
         /\ search.listed \in Seq(Devices) /\ search.bridge \in 1 .. 5
  BY DEF SearchTypes

LEMMA PlaceTyped ==
  ASSUME search \in SearchTypes, NEW place \in SearchPlaces
  PROVE  Made(place, search.attempt, search.platform, search.counted, search.listed,
              search.bridge) \in SearchTypes
  BY SearchFields, SearchMade

LEMMA FirstPlatform == 1 \in PlatformIds
<1>1. NumPlatforms \in Nat /\ NumPlatforms # 0
  BY DiscoveryAssumption
<1> QED
  BY <1>1 DEF PlatformIds

LEMMA EmptyList == \A list : list = <<>> => DOMAIN list = {} /\ Len(list) = 0
  OBVIOUS

LEMMA NoSearchTyped ==
  /\ NoSearch \in SearchTypes
  /\ NoSearch = [at |-> "idle", attempt |-> 0, platform |-> 1, counted |-> 0,
                 listed |-> <<>>, bridge |-> 1]
<1>1. <<>> \in Seq(Devices) /\ 0 \in 0 .. Retries
  BY DiscoveryAssumption
<1> QED
  BY <1>1 DEF NoSearch, SearchTypes, SearchPlaces

LEMMA DiscoveryBegins == DiscoveryInit => DiscoveryInv
<1> SUFFICES ASSUME DiscoveryInit PROVE DiscoveryInv
  OBVIOUS
<1>1. present \in [PlatformIds -> 0 .. MaxPresent] /\ hip \in Nat
  BY DiscoveryAssumption DEF DiscoveryInit
<1>2. search.at = "idle" /\ search.listed = <<>> /\ taken = {} /\ search \in SearchTypes
  BY NoSearchTyped DEF DiscoveryInit
<1>3. /\ api.device_count = 0
      /\ api \in [is_initialized : BOOLEAN, device_count : Int, best_device : Devices]
  BY DevicesAre DEF DiscoveryInit
<1> QED
  BY <1>1, <1>2, <1>3, NoListIsGood, DiscoveryAssumption DEF DiscoveryInv, HeldAt

LEMMA RealStays ==
  ASSUME NEW d, Real(d), UNCHANGED <<present, hip>>
  PROVE  Real(d)'
  BY DEF Real

(* On to the next platform, or to the end of the loop. *)
LEMMA MovedKeeps ==
  ASSUME DiscoveryInv, search.at \in {"count", "fetch"}, NEW list, GoodList(list),
         \A i \in DOMAIN list : list[i].source <= search.platform,
         search' = MovedOn(list), taken' = {"platforms"}, UNCHANGED <<present, hip, api>>
  PROVE  DiscoveryInv'
<1> DEFINE place == IF search.platform < NumPlatforms /\ Len(list) < MAX_DEVICES
                      THEN "count" ELSE "release"
<1>1. search \in SearchTypes /\ search.platform \in PlatformIds /\ list \in Seq(Devices)
  BY DEF DiscoveryInv, GoodList
<1>2. search' = Made(place, search.attempt, search.platform + 1,
                     search.counted, list, search.bridge)
  BY <1>1 DEF MovedOn, SearchTypes, Made
<1>3. place \in {"count", "release"}
  OBVIOUS
<1>4. search'.at = place /\ search'.platform = search.platform + 1 /\ search'.listed = list
  BY <1>2 DEF Made
<1>5. search' \in SearchTypes
  <2>1. search.platform + 1 \in Nat
    BY <1>1 DEF PlatformIds
  <2>2. place \in SearchPlaces
    BY <1>3 DEF SearchPlaces
  <2>3. search.attempt \in 0 .. Retries /\ search.counted \in Nat /\ search.bridge \in 1 .. 5
    BY <1>1 DEF SearchTypes
  <2> HIDE DEF place
  <2> QED
    BY <1>1, <1>2, <2>1, <2>2, <2>3, SearchMade
<1>6. GoodList(list)'
  BY RealStays DEF GoodList
<1>7. taken' = HeldAt(search'.at)
  BY <1>3, <1>4 DEF HeldAt
<1>8. place = "count" => search'.platform \in PlatformIds
  BY <1>1, <1>4, DiscoveryAssumption DEF PlatformIds
<1>9. \A i \in DOMAIN list : list[i].source < search'.platform
  <2>1. \A i \in DOMAIN list : list[i].source \in Int
    <3>1. \A i \in DOMAIN list : list[i] \in Devices
      BY <1>1
    <3> QED
      BY <3>1 DEF Devices
  <2> QED
    BY <1>1, <1>4, <2>1 DEF PlatformIds
<1> HIDE DEF place
<1> QED
  BY <1>3, <1>4, <1>5, <1>6, <1>7, <1>8, <1>9 DEF DiscoveryInv, Visited

(* The end of an attempt: found, or once more. *)
LEMMA EndKeeps ==
  ASSUME DiscoveryInv, NEW list, GoodList(list), EndAttempt(list), taken' = {},
         UNCHANGED <<present, hip>>
  PROVE  DiscoveryInv'
<1>1. /\ search \in SearchTypes /\ list \in Seq(Devices) /\ Len(list) <= MAX_DEVICES
      /\ api \in [is_initialized : BOOLEAN, device_count : Int, best_device : Devices]
  BY DEF DiscoveryInv, GoodList
<1>2. CASE list = <<>> /\ search.attempt < Retries
  <2>1. /\ search' = [NoSearch EXCEPT !.at = "platforms", !.attempt = search.attempt + 1]
        /\ UNCHANGED api
    BY <1>2 DEF EndAttempt
  <2>2. search' = Made("platforms", search.attempt + 1, 1,
                     0, <<>>, 1)
    BY <2>1, NoSearchTyped DEF Made
  <2>3. search.attempt + 1 \in 0 .. Retries
    BY <1>1, <1>2, DiscoveryAssumption DEF SearchTypes
  <2>4. search' \in SearchTypes
    <3>0. PICK e : e = <<>>
      OBVIOUS
    <3>1. e \in Seq(Devices)
      BY <3>0
    <3>2. "platforms" \in SearchPlaces /\ 0 \in Nat /\ 1 \in Nat /\ 1 \in 1 .. 5
      BY DEF SearchPlaces
    <3>3. PICK n \in 0 .. Retries : n = search.attempt + 1
      BY <2>3
    <3> QED
      BY <2>2, <3>0, <3>1, <3>2, <3>3, SearchMade
  <2>5. search'.at = "platforms" /\ search'.listed = <<>> /\ search'.platform = 1
    BY <2>2 DEF Made
  <2>6. GoodList(<<>>)'
    BY NoListIsGood DEF GoodList, Real
  <2> QED
    BY <2>1, <2>4, <2>5, <2>6 DEF DiscoveryInv, HeldAt
<1>3. CASE ~(list = <<>> /\ search.attempt < Retries)
  <2>1. /\ search' = [search EXCEPT !.at = "found", !.listed = list]
        /\ api' = [api EXCEPT !.device_count = Len(list),
                              !.best_device = IF list = <<>> THEN Dummy ELSE list[1]]
    BY <1>3 DEF EndAttempt
  <2>2. search' = Made("found", search.attempt, search.platform,
                     search.counted, list, search.bridge)
    BY <1>1, <2>1 DEF SearchTypes, Made
  <2>3. search' \in SearchTypes /\ search'.at = "found" /\ search'.listed = list
    <3>1. search.attempt \in 0 .. Retries /\ search.platform \in Nat /\ search.counted \in Nat
          /\ search.bridge \in 1 .. 5 /\ "found" \in SearchPlaces
      BY <1>1 DEF SearchTypes, SearchPlaces
    <3>2. search' \in SearchTypes
      BY <1>1, <2>2, <3>1, SearchMade
    <3> QED
      BY <2>2, <3>2 DEF Made
  <2> DEFINE best == IF list = <<>> THEN Dummy ELSE list[1]
  <2>4. best \in Devices /\ Len(list) \in Nat
    BY <1>1, DevicesAre
  <2> HIDE DEF best
  <2>5. api' = [is_initialized |-> api.is_initialized, device_count |-> Len(list),
                best_device |-> best]
    BY <1>1, <2>1 DEF best
  <2>6. /\ api' \in [is_initialized : BOOLEAN, device_count : Int, best_device : Devices]
        /\ api'.device_count = Len(list) /\ api'.best_device = best
    BY <1>1, <2>4, <2>5
  <2>7. api'.device_count \in 0 .. (IF MAX_DEVICES > 1 THEN MAX_DEVICES ELSE 1)
    BY <1>1, <2>4, <2>6, DiscoveryAssumption
  <2>8. GoodList(list)'
    BY RealStays DEF GoodList
  <2> QED
    BY <2>3, <2>6, <2>7, <2>8 DEF DiscoveryInv, HeldAt, best
<1> QED
  BY <1>2, <1>3

(* A step to another place that finds nothing new. *)
LEMMA PlaceKeeps ==
  ASSUME DiscoveryInv, NEW place \in SearchPlaces \ {"found"},
         search' = [search EXCEPT !.at = place], taken' = HeldAt(place),
         place \in {"count", "fetch"} => search.at = "fetch platforms",
         place = "fetch platforms" => search.at = "platforms", place # "platforms", place # "fetch",
         UNCHANGED <<present, hip, api>>
  PROVE  DiscoveryInv'
<1>1. search \in SearchTypes
  BY DEF DiscoveryInv
<1>2. search' = Made(place, search.attempt, search.platform,
                     search.counted, search.listed, search.bridge)
  BY <1>1 DEF SearchTypes, Made
<1>3. search' \in SearchTypes /\ search'.at = place /\ search'.listed = search.listed
      /\ search'.platform = search.platform
  <2>1. search' \in SearchTypes
    <3>1. place \in SearchPlaces
      OBVIOUS
    <3> QED
      BY <1>1, <1>2, <3>1, PlaceTyped
  <2> QED
    BY <1>2, <2>1 DEF Made
<1>4. GoodList(search.listed)'
  BY <1>3, RealStays DEF DiscoveryInv, GoodList
<1>5. place = "count" => search'.platform \in PlatformIds /\ Visited(search.listed)'
  <2>1. search.at = "fetch platforms" => search.listed = <<>> /\ search.platform = 1
    BY DEF DiscoveryInv
  <2>2. search.listed = <<>> => DOMAIN search'.listed = {}
    BY <1>3, EmptyList
  <2>3. place = "count" => search'.platform = 1 /\ DOMAIN search'.listed = {}
    BY <1>3, <2>1, <2>2
  <2>4. 1 \in PlatformIds
    BY FirstPlatform
  <2> QED
    BY <1>3, <2>3, <2>4 DEF Visited
<1>6. UNCHANGED <<present, hip, api>> /\ taken' = HeldAt(search'.at)
  BY <1>3
<1> QED
  BY <1>3, <1>4, <1>5, <1>6 DEF DiscoveryInv

(* The devices of a platform behind those of the platforms before it. *)
LEMMA JoinedList ==
  ASSUME DiscoveryInv, search.at = "fetch", NEW n \in Nat, n <= MAX_DEVICES - Len(search.listed),
         n <= search.counted
  PROVE  LET list == search.listed \o [i \in 1 .. n |-> Device(search.platform, i)]
         IN  GoodList(list) /\ \A i \in DOMAIN list : list[i].source <= search.platform
<1> DEFINE new == [i \in 1 .. n |-> Device(search.platform, i)]
           list == search.listed \o new
<1>1. PICK p \in PlatformIds, s \in Seq(Devices), m \in Nat :
        p = search.platform /\ s = search.listed /\ m = Len(search.listed)
  BY DEF DiscoveryInv, SearchTypes
<1>2. /\ Len(s) <= MAX_DEVICES /\ IsInjective(s) /\ \A i \in DOMAIN s : Real(s[i])
      /\ \A i \in DOMAIN s : s[i].source < p
      /\ n <= present[p] /\ present[p] \in Nat /\ p \in Int
  BY <1>1, DiscoveryAssumption DEF DiscoveryInv, GoodList, Visited, SearchTypes, PlatformIds
<1>3. new \in Seq(Devices) /\ Len(new) = n /\ \A i \in 1 .. n : new[i] = Device(p, i)
  <2>1. new \in [1 .. n -> Devices] /\ \A i \in 1 .. n : new[i] = Device(p, i)
    BY <1>1, <1>2, DevicesAre
  <2> HIDE DEF new
  <2> QED
    BY <2>1
<1> HIDE DEF new
<1>4. /\ list \in Seq(Devices) /\ Len(list) = m + n /\ DOMAIN list = 1 .. m + n
      /\ DOMAIN s = 1 .. m
      /\ \A i \in 1 .. m : list[i] = s[i]
      /\ \A i \in 1 .. m + n : i > m => list[i] = Device(p, i - m)
  <2>1. /\ s \o new \in Seq(Devices) /\ Len(s \o new) = m + n
        /\ \A i \in 1 .. m + n : (s \o new)[i] = IF i <= m THEN s[i] ELSE new[i - m]
    <3>1. /\ s \o new \in Seq(Devices) /\ Len(s \o new) = Len(s) + Len(new)
          /\ \A i \in 1 .. Len(s) + Len(new) :
               (s \o new)[i] = IF i <= Len(s) THEN s[i] ELSE new[i - Len(s)]
      BY <1>3, ConcatProperties
    <3>2. Len(s) = m /\ Len(new) = n
      BY <1>1, <1>3
    <3> QED
      BY <3>1, <3>2
  <2>2. ASSUME NEW i \in 1 .. m + n, i > m PROVE list[i] = Device(p, i - m)
    <3>1. i - m \in 1 .. n
      BY <2>2
    <3> QED
      BY <1>1, <1>3, <2>1, <2>2, <3>1
  <2> QED
    BY <1>1, <2>1, <2>2
<1> HIDE DEF list
<1>5. ASSUME NEW i \in 1 .. m + n
      PROVE  Real(list[i]) /\ list[i].source <= p /\ (i <= m <=> list[i].source < p)
  <2>1. CASE i <= m
    <3>1. i \in DOMAIN s /\ list[i] = s[i] /\ s[i] \in Devices
      BY <1>1, <1>4, <2>1
    <3>2. s[i].source \in Int
      BY <3>1 DEF Devices
    <3> QED
      BY <1>2, <2>1, <3>1, <3>2
  <2>2. CASE i > m
    <3>1. i - m \in 1 .. n /\ i - m \in Int
      BY <2>2
    <3>2. list[i].source = p /\ list[i].number = i - m
      BY <1>2, <1>4, <2>2, <3>1, DevicesAre
    <3>3. i - m \in 1 .. present[p]
      BY <1>2, <3>1
    <3> QED
      BY <1>2, <2>2, <3>2, <3>3 DEF Real
  <2> QED
    BY <2>1, <2>2
<1>6. ASSUME NEW i \in 1 .. m + n, NEW j \in 1 .. m + n, list[i] = list[j] PROVE i = j
  <2>1. CASE i <= m
    <3>1. j <= m
      BY <1>5, <1>6, <2>1
    <3>2. i \in DOMAIN s /\ j \in DOMAIN s /\ s[i] = s[j]
      BY <1>4, <1>6, <2>1, <3>1
    <3> QED
      BY <1>2, <3>2 DEF IsInjective
  <2>2. CASE i > m
    <3>1. j > m
      BY <1>5, <1>6, <2>2
    <3>2. Device(p, i - m) = Device(p, j - m) /\ i - m \in Int /\ j - m \in Int
      BY <1>4, <1>6, <2>2, <3>1
    <3>3. PICK x \in Int, y \in Int : x = i - m /\ y = j - m
      BY <3>2
    <3>4. Device(p, x).number = x /\ Device(p, y).number = y
      BY <1>2, DevicesAre
    <3>5. x = y
      BY <3>2, <3>3, <3>4
    <3> QED
      BY <3>3, <3>5
  <2> QED
    BY <2>1, <2>2
<1>7. IsInjective(list)
  BY <1>4, <1>6 DEF IsInjective
<1>8. m + n <= MAX_DEVICES
  BY <1>1, DiscoveryAssumption
<1>9. GoodList(list)
  BY <1>4, <1>5, <1>7, <1>8 DEF GoodList
<1> QED
  BY <1>1, <1>4, <1>5, <1>9 DEF list, new

(* The next bridge, or the end. *)
LEMMA BridgeKeeps ==
  ASSUME DiscoveryInv, NEW list, GoodList(list), NextBridge(list), taken' = {},
         UNCHANGED <<present, hip>>
  PROVE  DiscoveryInv'
<1>1. search \in SearchTypes /\ list \in Seq(Devices)
  BY DEF DiscoveryInv, GoodList
<1>2. Len(Bridges) = 5
  BY DEF Bridges
<1>3. CASE search.bridge < 5
  <2>1. /\ search' = [search EXCEPT !.bridge = @ + 1, !.at = "bridge", !.listed = list]
        /\ UNCHANGED api
    BY <1>2, <1>3 DEF NextBridge
  <2>2. search' = Made("bridge", search.attempt, search.platform,
                     search.counted, list, search.bridge + 1)
    BY <1>1, <2>1 DEF SearchTypes, Made
  <2>3. search.bridge + 1 \in 1 .. 5 /\ "bridge" \in SearchPlaces /\ search.attempt \in 0 .. Retries
        /\ search.platform \in Nat /\ search.counted \in Nat
    <3>1. search.bridge \in 1 .. 5
      BY <1>1, SearchFields
    <3>2. search.bridge + 1 \in 1 .. 5
      BY <1>3, <3>1
    <3>3. "bridge" \in SearchPlaces
      BY DEF SearchPlaces
    <3> QED
      BY <1>1, <3>2, <3>3, SearchFields
  <2>4. search' \in SearchTypes
    BY <1>1, <2>2, <2>3, SearchMade
  <2>5. search'.at = "bridge" /\ search'.listed = list
    BY <2>2 DEF Made
  <2>6. GoodList(list)'
    BY RealStays DEF GoodList
  <2> QED
    BY <2>1, <2>4, <2>5, <2>6 DEF DiscoveryInv, HeldAt
<1>4. CASE ~(search.bridge < 5)
  <2>1. EndAttempt(list)
    BY <1>2, <1>4 DEF NextBridge
  <2> QED
    BY <2>1, EndKeeps
<1> QED
  BY <1>3, <1>4

LEMMA HipListed ==
  ASSUME DiscoveryInv, NEW numbers \in HipLists
  PROVE  GoodList([i \in DOMAIN numbers |-> Device(Rocm, numbers[i])])
<1>1. PICK n \in 0 .. MAX_DEVICES : numbers \in [1 .. n -> 1 .. hip]
  BY DEF HipLists
<1>2. \A i, j \in 1 .. n : i < j => numbers[i] < numbers[j]
  BY <1>1 DEF HipLists
<1>3. PICK list : list = [i \in 1 .. n |-> Device(Rocm, numbers[i])]
  OBVIOUS
<1>4. ASSUME NEW i \in 1 .. n
      PROVE  /\ numbers[i] \in 1 .. hip /\ numbers[i] \in Int
             /\ list[i] = Device(Rocm, numbers[i])
             /\ list[i] \in Devices /\ list[i].source = Rocm /\ list[i].number = numbers[i]
  <2>1. numbers[i] \in 1 .. hip /\ numbers[i] \in Int
    <3>1. hip \in Nat
      BY DEF DiscoveryInv
    <3>2. numbers[i] \in 1 .. hip
      BY <1>1
    <3> QED
      BY <3>1, <3>2
  <2>2. Rocm \in Int
    BY DEF Rocm
  <2> QED
    BY <1>3, <2>1, <2>2, DevicesAre
<1>5. list \in Seq(Devices) /\ Len(list) = n /\ DOMAIN list = 1 .. n
  <2>1. list \in [1 .. n -> Devices] /\ n \in Nat
    BY <1>3, <1>4, DiscoveryAssumption
  <2> QED
    BY <2>1
<1>6. IsInjective(list)
  <2>1. ASSUME NEW i \in 1 .. n, NEW j \in 1 .. n, list[i] = list[j] PROVE i = j
    <3>1. numbers[i] = numbers[j] /\ numbers[i] \in Int
      BY <1>4, <2>1
    <3>2. ~(i < j) /\ ~(j < i)
      BY <1>2, <3>1
    <3> QED
      BY <3>2
  <2> QED
    BY <1>5, <2>1 DEF IsInjective
<1>7. \A i \in DOMAIN list : Real(list[i])
  BY <1>4, <1>5 DEF Real
<1>8. GoodList(list)
  BY <1>5, <1>6, <1>7, DiscoveryAssumption DEF GoodList
<1> QED
  BY <1>1, <1>3, <1>8

LEMMA DiscoveryKeeps == DiscoveryInv /\ [DiscoveryNext]_discoveryVars => DiscoveryInv'
<1> SUFFICES ASSUME DiscoveryInv, [DiscoveryNext]_discoveryVars PROVE DiscoveryInv'
  OBVIOUS
<1>1. search \in SearchTypes /\ GoodList(search.listed) /\ taken = HeldAt(search.at)
  BY DEF DiscoveryInv
<1>2. ASSUME NEW p \in PlatformIds, DeviceAppears(p) PROVE DiscoveryInv'
  <2>1. /\ present[p] < MaxPresent /\ present' = [present EXCEPT ![p] = @ + 1]
        /\ UNCHANGED <<hip, search, taken, api>>
    BY <1>2 DEF DeviceAppears
  <2>2. /\ present' \in [PlatformIds -> 0 .. MaxPresent]
        /\ \A q \in PlatformIds : present[q] \in Nat /\ present'[q] \in Nat /\ present[q] <= present'[q]
    <3>1. present \in [PlatformIds -> 0 .. MaxPresent] /\ MaxPresent \in Nat
      BY DiscoveryAssumption DEF DiscoveryInv
    <3> QED
      BY <2>1, <3>1
  <2>3. \A d : Real(d) => Real(d)'
    BY <2>1, <2>2 DEF Real
  <2>4. GoodList(search.listed)'
    BY <1>1, <2>1, <2>3 DEF GoodList
  <2>5. search.at = "fetch" => search.counted <= present'[search.platform]
    <3>1. search.at = "fetch" => search.platform \in PlatformIds
      BY DEF DiscoveryInv
    <3>2. search.counted \in Nat
      BY <1>1 DEF SearchTypes
    <3> QED
      BY <2>2, <3>1, <3>2 DEF DiscoveryInv
  <2> QED
    BY <2>1, <2>2, <2>4, <2>5 DEF DiscoveryInv, Visited
<1>3. CASE retryix_auto_initialize
  <2>1. /\ search.at = "idle" /\ search' = [NoSearch EXCEPT !.at = "platforms"]
        /\ api' = [api EXCEPT !.is_initialized = TRUE, !.device_count = 1]
        /\ UNCHANGED <<present, hip, taken>>
    BY <1>3 DEF retryix_auto_initialize
  <2>2. search' = Made("platforms", 0, 1,
                     0, <<>>, 1)
    BY <2>1, NoSearchTyped DEF Made
  <2>3. search' \in SearchTypes /\ search'.at = "platforms" /\ search'.listed = <<>>
        /\ search'.platform = 1
    <3>0. PICK e : e = <<>>
      OBVIOUS
    <3>1. e \in Seq(Devices)
      BY <3>0
    <3>2. 0 \in 0 .. Retries /\ "platforms" \in SearchPlaces /\ 1 \in 1 .. 5
      BY DiscoveryAssumption DEF SearchPlaces
    <3>3. search' \in SearchTypes
      BY <2>2, <3>0, <3>1, <3>2, SearchMade
    <3> QED
      BY <2>2, <3>3 DEF Made
  <2>4. api' = [is_initialized |-> TRUE, device_count |-> 1, best_device |-> api.best_device]
    BY <2>1 DEF DiscoveryInv
  <2>5. api' \in [is_initialized : BOOLEAN, device_count : Int, best_device : Devices]
    <3>0. api.best_device \in Devices
      BY DEF DiscoveryInv
    <3>1. TRUE \in BOOLEAN /\ 1 \in Int /\ api.best_device \in Devices
      BY <3>0
    <3> QED
      BY <2>4, <3>1, Zenon
  <2>6. api'.device_count = 1 /\ 1 \in 0 .. (IF MAX_DEVICES > 1 THEN MAX_DEVICES ELSE 1)
    BY <2>4, DiscoveryAssumption
  <2>7. GoodList(<<>>)'
    BY  NoListIsGood DEF GoodList, Real
  <2> QED
    BY <2>1, <2>3, <2>5, <2>6, <2>7 DEF DiscoveryInv, HeldAt
<1>4. CASE NoPlatforms
  BY <1>1, <1>4, EndKeeps, NoListIsGood DEF NoPlatforms, HeldAt
<1>5. CASE TakePlatforms
  BY <1>1, <1>5, PlaceKeeps DEF TakePlatforms, HeldAt, SearchPlaces
<1>6. ASSUME NEW ok \in BOOLEAN, FetchPlatforms(ok) PROVE DiscoveryInv'
  <2>1. taken = {"platforms"} /\ search.at = "fetch platforms"
    BY <1>1, <1>6 DEF FetchPlatforms, HeldAt
  <2>2. CASE ok
    BY <1>6, <2>1, <2>2, PlaceKeeps DEF FetchPlatforms, HeldAt, SearchPlaces
  <2>3. CASE ~ok
    BY <1>6, <2>1, <2>3, EndKeeps, NoListIsGood DEF FetchPlatforms
  <2> QED
    BY <2>2, <2>3
<1>7. ASSUME search.at \in {"count", "fetch"}
      PROVE  \A i \in DOMAIN search.listed : search.listed[i].source <= search.platform
  <2>1. \A i \in DOMAIN search.listed : search.listed[i].source < search.platform
    BY <1>7 DEF DiscoveryInv, Visited
  <2>2. \A i \in DOMAIN search.listed : search.listed[i] \in Devices
    BY <1>1 DEF GoodList
  <2>3. search.platform \in Int
    BY <1>1 DEF SearchTypes
  <2> QED
    BY <2>1, <2>2, <2>3 DEF Devices
<1>8. CASE SkipPlatform
  <2>1. search.at = "count" /\ taken = {"platforms"} /\ UNCHANGED <<present, hip, taken, api>>
        /\ search' = MovedOn(search.listed)
    BY <1>1, <1>8 DEF SkipPlatform, HeldAt
  <2> QED
    BY <1>1, <1>7, <2>1, MovedKeeps
<1>9. CASE CountDevices
  <2>1. /\ search.at = "count" /\ taken' = {"platforms", "devs"}
        /\ search' = [search EXCEPT !.at = "fetch", !.counted = present[search.platform]]
        /\ UNCHANGED <<present, hip, api>>
    BY <1>1, <1>9 DEF CountDevices, HeldAt
  <2>2. PICK c \in Nat : c = present[search.platform] /\ search.platform \in PlatformIds
    BY <2>1, DiscoveryAssumption DEF DiscoveryInv
  <2>3. search' = Made("fetch", search.attempt, search.platform,
                     c, search.listed, search.bridge)
    BY <1>1, <2>1, <2>2 DEF SearchTypes, Made
  <2>4. search.attempt \in 0 .. Retries /\ search.platform \in Nat /\ search.listed \in Seq(Devices)
        /\ search.bridge \in 1 .. 5 /\ "fetch" \in SearchPlaces
    BY <1>1 DEF SearchTypes, SearchPlaces
  <2>5. search' \in SearchTypes
    BY <2>2, <2>3, <2>4, SearchMade
  <2>6. /\ search'.at = "fetch" /\ search'.listed = search.listed
        /\ search'.platform = search.platform /\ search'.counted = c
    BY <2>3 DEF Made
  <2>7. GoodList(search.listed)' /\ Visited(search.listed)'
    BY <1>1, <2>1, <2>6, RealStays DEF GoodList, DiscoveryInv, Visited
  <2>8. c <= c
    BY <2>2
  <2> QED
    BY <2>1, <2>2, <2>5, <2>6, <2>7, <2>8 DEF DiscoveryInv, HeldAt
<1>10. CASE NoDevices
  <2>1. search.at = "fetch" /\ taken' = {"platforms"} /\ UNCHANGED <<present, hip, api>>
        /\ search' = MovedOn(search.listed)
    BY <1>1, <1>10 DEF NoDevices, HeldAt
  <2> QED
    BY <1>1, <1>7, <2>1, MovedKeeps
<1>11. CASE ListDevices
  <2> DEFINE room == MAX_DEVICES - Len(search.listed)
  <2>1. PICK n \in Nat : n = IF search.counted < room THEN search.counted ELSE room
    <3>1. search.counted \in Nat /\ room \in Nat
      BY <1>1, DiscoveryAssumption DEF SearchTypes, GoodList
    <3> QED
      BY <3>1
  <2>2. n <= room /\ n <= search.counted
    <3>1. search.counted \in Nat /\ room \in Nat
      BY <1>1, DiscoveryAssumption DEF SearchTypes, GoodList
    <3> QED
      BY <2>1, <3>1
  <2>3. search.at = "fetch" /\ taken' = {"platforms"} /\ UNCHANGED <<present, hip, api>>
        /\ search' = MovedOn(search.listed \o [i \in 1 .. n |-> Device(search.platform, i)])
    BY <1>1, <1>11, <2>1 DEF ListDevices, HeldAt
  <2>4. PICK list : /\ list = search.listed \o [i \in 1 .. n |-> Device(search.platform, i)]
                    /\ GoodList(list) /\ \A i \in DOMAIN list : list[i].source <= search.platform
    BY <2>2, <2>3, JoinedList
  <2> QED
    BY <2>3, <2>4, MovedKeeps
<1>12. CASE ReleasePlatforms
  <2>1. search.at = "release" /\ taken' = {} /\ UNCHANGED <<present, hip>>
    BY <1>1, <1>12 DEF ReleasePlatforms, HeldAt
  <2>2. CASE search.listed = <<>>
    BY <1>12, <2>1, <2>2, PlaceKeeps DEF ReleasePlatforms, HeldAt, SearchPlaces
  <2>3. CASE search.listed # <<>>
    BY <1>1, <1>12, <2>1, <2>3, EndKeeps DEF ReleasePlatforms
  <2> QED
    BY <2>2, <2>3
<1>13. CASE SkipBridge
  BY <1>1, <1>13, BridgeKeeps DEF SkipBridge, HeldAt
<1>14. CASE OpenHip
  <2>1. search.at = "bridge" /\ taken' = {"hip"}
    BY <1>1, <1>14 DEF OpenHip, HeldAt
  <2> QED
    BY <1>14, <2>1, PlaceKeeps DEF OpenHip, HeldAt, SearchPlaces
<1>15. ASSUME NEW numbers \in HipLists, ListHip(numbers) PROVE DiscoveryInv'
  <2>1. taken' = {}
    BY <1>1, <1>15 DEF ListHip, HeldAt
  <2> QED
    BY <1>15, <2>1, HipListed, BridgeKeeps DEF ListHip
<1>16. CASE AutoInitialized
  <2>1. search.at = "found" /\ search' = NoSearch /\ UNCHANGED <<present, hip, taken, api>>
    BY <1>16 DEF AutoInitialized
  <2>2. search' \in SearchTypes /\ search'.at = "idle" /\ search'.listed = <<>>
    BY <2>1, NoSearchTyped
  <2>3. GoodList(<<>>)'
    BY  NoListIsGood DEF GoodList, Real
  <2> QED
    BY <2>1, <2>2, <2>3 DEF DiscoveryInv, HeldAt
<1>17. CASE UNCHANGED discoveryVars
  <2>1. GoodList(search.listed)'
    BY <1>1, <1>17, RealStays DEF GoodList, discoveryVars
  <2> QED
    BY <1>17, <2>1 DEF DiscoveryInv, Visited, discoveryVars
<1> QED
  BY <1>2, <1>3, <1>4, <1>5, <1>6, <1>8, <1>9, <1>10, <1>11, <1>12, <1>13, <1>14, <1>15, <1>16,
     <1>17 DEF DiscoveryNext, retryix_discover_all_devices

LEMMA DiscoveryHolds == DiscoverySpec => []DiscoveryInv
  BY DiscoveryBegins, DiscoveryKeeps, PTL DEF DiscoverySpec

LEMMA DiscoveryTyped == DiscoveryInv => DiscoveryTypeOK
  BY DEF DiscoveryInv, DiscoveryTypeOK, HeldAt, SearchTypes, SearchPlaces

LEMMA DiscoveryGivesBack == DiscoveryInv => DiscoveryUnwinds
  BY DEF DiscoveryInv, DiscoveryUnwinds, HeldAt, GoodList, Real

-----------------------------------------------------------------------------
(***************************************************************************)
(* Finding GPUs without OpenCL (NativeDiscovery).                          *)
(***************************************************************************)

Vias == {"vulkan", "dxgi", "registry"}
Gpus == [via : Vias, number : Int]

ScanPlaces == {"idle", "vulkan", "instance", "count", "fetch", "dxgi", "adapters", "registry",
               "subkeys", "done"}

Scans == [at : ScanPlaces, asked : Nat, next : Nat \ {0}, listed : Seq(Gpus)]

(* Opaque in the proofs below: a scan by its parts. *)
ScanOf(at, asked, next, list) == [at |-> at, asked |-> asked, next |-> next, listed |-> list]

HeldIn(place) == CASE place = "instance" -> {"library"}
                   [] place = "count" -> {"library", "instance"}
                   [] place = "fetch" -> {"library", "instance", "array"}
                   [] place = "adapters" -> {"factory"}
                   [] place = "subkeys" -> {"key"}
                   [] OTHER -> {}

ViaOf(place) == CASE place = "adapters" -> "dxgi"
                  [] place = "subkeys" -> "registry"
                  [] OTHER -> "none"

GoodGpus(list) ==
  /\ list \in Seq(Gpus)
  /\ Len(list) <= max_devices
  /\ \A i, j \in DOMAIN list : list[i].via = list[j].via
  /\ IsInjective(list)

(* An adapter that is not released is left only by a machine with more *)
(* GPUs than the array has room for.                                   *)
NativeInv ==
  /\ gpus \in 0 .. MaxGpus
  /\ native \in Scans
  /\ held \ {"adapter"} = HeldIn(native.at)
  /\ "adapter" \in held => gpus > max_devices
  /\ native.at = "fetch" => native.asked <= max_devices
  /\ GoodGpus(native.listed)
  /\ native.at \in {"adapters", "subkeys"} =>
       \A i \in DOMAIN native.listed : native.listed[i].via = ViaOf(native.at)
  /\ native.at \in {"adapters", "subkeys"} =>
       /\ Len(native.listed) < native.next
       /\ \A i \in DOMAIN native.listed : native.listed[i].number < native.next
  /\ native.at \notin {"adapters", "subkeys", "done"} => native.listed = <<>>

LEMMA ScanMade ==
  ASSUME NEW at \in ScanPlaces, NEW asked \in Nat, NEW next \in Nat \ {0}, NEW list \in Seq(Gpus)
  PROVE  /\ ScanOf(at, asked, next, list) \in Scans
         /\ ScanOf(at, asked, next, list).at = at
         /\ ScanOf(at, asked, next, list).asked = asked
         /\ ScanOf(at, asked, next, list).next = next
         /\ ScanOf(at, asked, next, list).listed = list
  BY DEF Scans, ScanOf

LEMMA ScanFields ==
  ASSUME native \in Scans
  PROVE  /\ native.at \in ScanPlaces /\ native.asked \in Nat /\ native.next \in Nat \ {0}
         /\ native.listed \in Seq(Gpus)
         /\ native = ScanOf(native.at, native.asked, native.next, native.listed)
  BY DEF Scans, ScanOf

LEMMA NoGpus ==
  \A list : list = <<>> => GoodGpus(list) /\ DOMAIN list = {} /\ Len(list) = 0
                           /\ list \in Seq(Gpus)
<1> SUFFICES ASSUME NEW list, list = <<>>
             PROVE  GoodGpus(list) /\ DOMAIN list = {} /\ Len(list) = 0 /\ list \in Seq(Gpus)
  OBVIOUS
<1>1. list \in Seq(Gpus) /\ Len(list) = 0 /\ DOMAIN list = {}
  OBVIOUS
<1> QED
  BY <1>1, NativeAssumption DEF GoodGpus, IsInjective

LEMMA NoScanTyped == \E e : e = <<>> /\ NoScan = ScanOf("idle", 0, 1, e)
  BY DEF NoScan, ScanOf

LEMMA GpuTyped ==
  \A via \in Vias, n \in Int : /\ Gpu(via, n) \in Gpus
                                 /\ Gpu(via, n).via = via /\ Gpu(via, n).number = n
  BY DEF Gpu, Gpus, Vias

LEMMA NativeBegins == NativeInit => NativeInv
<1> SUFFICES ASSUME NativeInit PROVE NativeInv
  OBVIOUS
<1>1. gpus \in 0 .. MaxGpus /\ native = NoScan /\ held = {}
  BY DEF NativeInit
<1>2. PICK e : e = <<>> /\ native = ScanOf("idle", 0, 1, e)
  BY <1>1, NoScanTyped
<1>3. "idle" \in ScanPlaces /\ 0 \in Nat /\ 1 \in Nat \ {0} /\ e \in Seq(Gpus)
  BY <1>2 DEF ScanPlaces
<1>4. native \in Scans /\ native.at = "idle" /\ native.listed = e
  <2>1. native = ScanOf("idle", 0, 1, e)
    BY <1>2
  <2> QED
    BY <1>3, <2>1, ScanMade
<1> QED
  BY <1>1, <1>2, <1>4, NoGpus DEF NativeInv, HeldIn

(* The end of a tier: to the one below it, or done. *)
LEMMA TierEnds ==
  ASSUME NativeInv, NEW list, GoodGpus(list), EndTier(list),
         native.at \notin {"idle", "done"}, held' \ {"adapter"} = {},
         "adapter" \in held' => gpus > max_devices, UNCHANGED gpus
  PROVE  NativeInv'
<1>1. PICK place : place = IF list = <<>> THEN TierBelow ELSE "done"
  OBVIOUS
<1>2. native' = ScanOf(place, 0, 1, list)
  BY <1>1 DEF EndTier, NoScan, ScanOf
<1>3. /\ place \in {"dxgi", "registry", "done"}
  <2>1. native.at \in ScanPlaces
    BY ScanFields DEF NativeInv
  <2> QED
    BY <1>1, <2>1 DEF TierBelow, ScanPlaces
<1>4. place # "done" => list = <<>>
  BY <1>1
<1>5. place \in ScanPlaces /\ 0 \in Nat /\ 1 \in Nat \ {0} /\ list \in Seq(Gpus)
  BY <1>3 DEF ScanPlaces, GoodGpus
<1>6. native' \in Scans /\ native'.at = place /\ native'.listed = list
  BY <1>2, <1>5, ScanMade
<1>7. GoodGpus(list)'
  BY DEF GoodGpus
<1>8. HeldIn(place) = {}
  BY <1>3 DEF HeldIn
<1> QED
  BY <1>3, <1>4, <1>6, <1>7, <1>8 DEF NativeInv

(* A step of a tier that lists nothing new. *)
LEMMA TierMoves ==
  ASSUME NativeInv, NEW place \in ScanPlaces, NEW asked \in Nat,
         native' = ScanOf(place, asked, native.next, native.listed),
         place \in {"instance", "count", "fetch", "adapters", "subkeys"},
         native.at \in {"vulkan", "instance", "count", "dxgi", "registry"},
         place = "fetch" => asked <= max_devices,
         place = "adapters" => native.at = "dxgi", place = "subkeys" => native.at = "registry",
         held' = held \cup HeldIn(place), HeldIn(native.at) \subseteq HeldIn(place),
         UNCHANGED gpus
  PROVE  NativeInv'
<1>1. native.next \in Nat \ {0} /\ native.listed \in Seq(Gpus) /\ native.listed = <<>>
  BY ScanFields DEF NativeInv
<1>2. PICK e \in Seq(Gpus), n \in Nat \ {0} : e = native.listed /\ e = <<>> /\ n = native.next
  BY <1>1
<1>3. /\ native' \in Scans /\ native'.at = place /\ native'.listed = e /\ native'.asked = asked
      /\ native'.next = n
  <2>1. native' = ScanOf(place, asked, n, e)
    BY <1>2
  <2>2. place \in ScanPlaces /\ asked \in Nat /\ n \in Nat \ {0} /\ e \in Seq(Gpus)
    BY <1>2
  <2> QED
    BY <2>1, <2>2, ScanMade
<1>4. DOMAIN e = {} /\ Len(e) = 0
  BY <1>2, NoGpus
<1>5. GoodGpus(e)'
  BY <1>2, NoGpus DEF GoodGpus
<1>6. "adapter" \notin HeldIn(place)
  BY DEF HeldIn
<1>7. /\ held \ {"adapter"} = HeldIn(native.at)
      /\ "adapter" \in held => gpus > max_devices
      /\ gpus \in 0 .. MaxGpus
  BY DEF NativeInv
<1>8. /\ held' \ {"adapter"} = HeldIn(place)
      /\ "adapter" \in held' => "adapter" \in held
  BY <1>6, <1>7
<1> QED
  BY <1>2, <1>3, <1>4, <1>5, <1>7, <1>8 DEF NativeInv

LEMMA TierSkips ==
  ASSUME NativeInv,
         native' = ScanOf(native.at, native.asked, native.next + 1, native.listed),
         UNCHANGED <<gpus, held>>
  PROVE  NativeInv'
<1>1. PICK a \in ScanPlaces, k \in Nat, n \in Nat \ {0}, s \in Seq(Gpus) :
        /\ a = native.at /\ k = native.asked
        /\ n = native.next /\ s = native.listed
  BY ScanFields DEF NativeInv
<1>2. native' = ScanOf(a, k, n + 1, s)
  BY <1>1
<1>3. /\ native' \in Scans /\ native'.at = a /\ native'.asked = k /\ native'.next = n + 1
      /\ native'.listed = s
  <2>1. PICK m \in Nat \ {0} : m = n + 1
    OBVIOUS
  <2>2. native' = ScanOf(a, k, m, s) /\ a \in ScanPlaces /\ k \in Nat /\ s \in Seq(Gpus)
    BY <1>2, <2>1
  <2>3. /\ native' \in Scans /\ native'.at = a /\ native'.asked = k /\ native'.next = m
        /\ native'.listed = s
    BY <2>2, ScanMade
  <2> QED
    BY <2>1, <2>3
<1>4. GoodGpus(s)'
  BY <1>1 DEF NativeInv, GoodGpus
<1>5. \A i \in DOMAIN s : s[i].number \in Int
  <2>1. \A i \in DOMAIN s : s[i] \in Gpus
    BY <1>1
  <2> QED
    BY <2>1 DEF Gpus
<1>6. a \in {"adapters", "subkeys"} => Len(s) < n + 1 /\ \A i \in DOMAIN s : s[i].number < n + 1
  <2>1. a \in {"adapters", "subkeys"} => Len(s) < n /\ \A i \in DOMAIN s : s[i].number < n
    BY <1>1 DEF NativeInv
  <2>2. Len(s) \in Nat
    BY <1>1
  <2> QED
    BY <1>1, <1>5, <2>1, <2>2
<1>7. gpus' \in 0 .. MaxGpus
  BY DEF NativeInv
<1> QED
  BY <1>1, <1>3, <1>4, <1>6, <1>7 DEF NativeInv

LEMMA TierLists ==
  ASSUME NativeInv, NEW number \in Int, HasRoom,
         native.at \in {"adapters", "subkeys"},
         number = native.next,
         native' = Lists(Gpu(ViaOf(native.at), number)), UNCHANGED <<gpus, held>>
  PROVE  NativeInv'
<1>1. PICK a \in ScanPlaces, k \in Nat, n \in Nat \ {0}, s \in Seq(Gpus) :
        /\ a = native.at /\ k = native.asked
        /\ n = native.next /\ s = native.listed
  BY ScanFields DEF NativeInv
<1>2. PICK g \in Gpus : g = Gpu(ViaOf(a), number) /\ g.via = ViaOf(a) /\ g.number = number
  <2>1. ViaOf(a) \in Vias
    BY <1>1 DEF ViaOf, Vias
  <2> QED
    BY <2>1, GpuTyped
<1>3. PICK t : t = Append(s, g)
  OBVIOUS
<1>4. /\ t \in Seq(Gpus) /\ Len(t) = Len(s) + 1 /\ Len(s) \in Nat
      /\ DOMAIN t = 1 .. Len(s) + 1 /\ DOMAIN s = 1 .. Len(s)
      /\ \A i \in 1 .. Len(s) : t[i] = s[i]
      /\ t[Len(s) + 1] = g
  BY <1>1, <1>2, <1>3
<1>5. native' = ScanOf(a, k, n + 1, t)
  BY <1>1, <1>2, <1>3 DEF NativeInv, Scans, ScanOf, Lists
<1>6. /\ native' \in Scans /\ native'.at = a /\ native'.asked = k /\ native'.next = n + 1
      /\ native'.listed = t
  BY <1>1, <1>4, <1>5, ScanMade
<1>7. \A i \in DOMAIN s : s[i].number \in Int /\ s[i].via = ViaOf(a)
  <2>1. \A i \in DOMAIN s : s[i] \in Gpus
    BY <1>1
  <2>2. \A i \in DOMAIN s : s[i].via = ViaOf(a)
    BY <1>1 DEF NativeInv
  <2> QED
    BY <2>1, <2>2 DEF Gpus
<1>8. \A i \in DOMAIN t : t[i].via = ViaOf(a)
  BY <1>2, <1>4, <1>7
<1>9. a \in {"adapters", "subkeys"} =>
        /\ number = n
        /\ Len(s) < n /\ \A i \in DOMAIN s : s[i].number < n
  BY <1>1 DEF NativeInv
<1>10. a \in {"adapters", "subkeys"} => Len(t) < n + 1 /\ \A i \in DOMAIN t : t[i].number < n + 1
  <2> SUFFICES ASSUME a \in {"adapters", "subkeys"}
               PROVE  Len(t) < n + 1 /\ \A i \in DOMAIN t : t[i].number < n + 1
    OBVIOUS
  <2>1. PICK l \in Nat : l = Len(s)
    BY <1>4
  <2>2. l < n /\ Len(t) = l + 1 /\ g.number = n
    BY <1>2, <1>4, <1>9, <2>1
  <2>3. ASSUME NEW i \in DOMAIN t PROVE t[i].number < n + 1
    <3>1. CASE i \in 1 .. l
      <4>1. t[i] = s[i] /\ s[i].number < n /\ s[i].number \in Int
        BY <1>4, <1>7, <1>9, <2>1, <3>1
      <4> QED
        BY <4>1
    <3>2. CASE i = l + 1
      BY <1>4, <2>1, <2>2, <3>2
    <3> QED
      BY <1>4, <2>1, <2>3, <3>1, <3>2
  <2> QED
    BY <2>2, <2>3
<1>11. a \in {"adapters", "subkeys"}
  BY <1>1
<1>12. IsInjective(t)
  <2> SUFFICES ASSUME NEW i \in DOMAIN t, NEW j \in DOMAIN t, t[i] = t[j]
               PROVE  i = j
    BY DEF IsInjective
  <2>1. IsInjective(s)
    BY <1>1 DEF NativeInv, GoodGpus
  <2>2. \A l \in 1 .. Len(s) : t[l].number < n /\ t[l].number \in Int
    BY <1>4, <1>7, <1>9, <1>11
  <2>3. t[Len(s) + 1].number = n
    BY <1>2, <1>4, <1>9, <1>11
  <2>4. CASE i \in 1 .. Len(s) /\ j \in 1 .. Len(s)
    BY <1>4, <2>1, <2>4 DEF IsInjective
  <2>5. \A l \in 1 .. Len(s) : t[l] # t[Len(s) + 1]
    <3>1. \A l \in 1 .. Len(s) : t[l].number # n
      BY <1>1, <2>2
    <3> QED
      BY <2>3, <3>1
  <2>6. i = Len(s) + 1 \/ i \in 1 .. Len(s)
    BY <1>4
  <2>7. j = Len(s) + 1 \/ j \in 1 .. Len(s)
    BY <1>4
  <2> QED
    BY <2>4, <2>5, <2>6, <2>7, Zenon
<1>13. GoodGpus(t)'
  <2>1. Len(s) < max_devices
    BY <1>1 DEF HasRoom
  <2>2. Len(t) <= max_devices
    BY <1>4, <2>1, NativeAssumption
  <2>3. \A i, j \in DOMAIN t : t[i].via = t[j].via
    BY <1>8
  <2> QED
    BY <1>4, <1>12, <2>2, <2>3 DEF GoodGpus
<1>14. /\ gpus' \in 0 .. MaxGpus
       /\ a \notin {"fetch"} /\ held' \ {"adapter"} = HeldIn(a)
       /\ "adapter" \in held' => gpus' > max_devices
  BY <1>1 DEF NativeInv
<1> QED
  BY <1>1, <1>6, <1>8, <1>10, <1>13, <1>14 DEF NativeInv

LEMMA FetchedGpus ==
  ASSUME NativeInv, gpus <= max_devices
  PROVE  GoodGpus([n \in 1 .. gpus |-> Gpu("vulkan", n)])
<1>1. PICK g \in Nat : g = gpus
  BY NativeAssumption DEF NativeInv
<1>2. PICK list : list = [n \in 1 .. g |-> Gpu("vulkan", n)]
  OBVIOUS
<1>3. \A n \in 1 .. g : list[n] \in Gpus /\ list[n].via = "vulkan" /\ list[n].number = n
  <2> SUFFICES ASSUME NEW n \in 1 .. g
               PROVE  list[n] \in Gpus /\ list[n].via = "vulkan" /\ list[n].number = n
    OBVIOUS
  <2>1. list[n] = Gpu("vulkan", n) /\ n \in Int
    BY <1>2
  <2>2. "vulkan" \in Vias
    BY DEF Vias
  <2> QED
    BY <2>1, <2>2, GpuTyped
<1>4. list \in Seq(Gpus) /\ Len(list) = g /\ DOMAIN list = 1 .. g
  <2>1. list \in [1 .. g -> Gpus]
    BY <1>2, <1>3
  <2> QED
    BY <2>1
<1>5. IsInjective(list)
  BY <1>3, <1>4 DEF IsInjective
<1>6. GoodGpus(list)
  BY <1>1, <1>3, <1>4, <1>5 DEF GoodGpus
<1> QED
  BY <1>1, <1>2, <1>6

LEMMA NativeKeeps == NativeInv /\ [NativeNext]_nativeVars => NativeInv'
<1> SUFFICES ASSUME NativeInv, [NativeNext]_nativeVars PROVE NativeInv'
  OBVIOUS
<1>1. /\ native.at \in ScanPlaces /\ native.asked \in Nat /\ native.next \in Nat \ {0}
      /\ native.listed \in Seq(Gpus)
      /\ native = ScanOf(native.at, native.asked, native.next, native.listed)
  BY ScanFields DEF NativeInv
<1>2. /\ held \ {"adapter"} = HeldIn(native.at) /\ gpus \in Nat /\ GoodGpus(native.listed)
      /\ "adapter" \in held => gpus > max_devices
      /\ max_devices \in Nat
  BY NativeAssumption DEF NativeInv
<1>3. PICK e : e = <<>> /\ NoScan = ScanOf("idle", 0, 1, e) /\ GoodGpus(e) /\ e \in Seq(Gpus)
  BY NoScanTyped, NoGpus
<1>4. CASE GpuAppears
  <2>1. GoodGpus(native.listed)'
    BY <1>2, <1>4 DEF GpuAppears, GoodGpus
  <2> QED
    BY <1>4, <2>1, NativeAssumption DEF GpuAppears, NativeInv
<1>5. CASE retryix_discover_devices_native
  <2>1. native.at = "idle" /\ native' = ScanOf("vulkan", 0, 1, e) /\ UNCHANGED <<gpus, held>>
    BY <1>3, <1>5 DEF retryix_discover_devices_native, NoScan, ScanOf
  <2>2. native' \in Scans /\ native'.at = "vulkan" /\ native'.listed = e
    <3>1. "vulkan" \in ScanPlaces /\ 0 \in Nat /\ 1 \in Nat \ {0}
      BY DEF ScanPlaces
    <3>2. e \in Seq(Gpus)
      BY <1>3
    <3> QED
      BY <2>1, <3>1, <3>2, ScanMade
  <2>3. GoodGpus(e)'
    BY <1>3, <2>1 DEF GoodGpus
  <2> QED
    BY <1>3, <2>1, <2>2, <2>3 DEF NativeInv, HeldIn
<1>6. CASE NativeReturn
  <2>1. native.at = "done" /\ native' = ScanOf("idle", 0, 1, e) /\ UNCHANGED <<gpus, held>>
    BY <1>3, <1>6 DEF NativeReturn
  <2>2. native' \in Scans /\ native'.at = "idle" /\ native'.listed = e
    <3>1. "idle" \in ScanPlaces /\ 0 \in Nat /\ 1 \in Nat \ {0}
      BY DEF ScanPlaces
    <3>2. e \in Seq(Gpus)
      BY <1>3
    <3> QED
      BY <2>1, <3>1, <3>2, ScanMade
  <2>3. GoodGpus(e)'
    BY <1>3, <2>1 DEF GoodGpus
  <2> QED
    BY <1>3, <2>1, <2>2, <2>3 DEF NativeInv, HeldIn
<1>7. ASSUME NEW place, native' = [native EXCEPT !.at = place]
      PROVE  native' = ScanOf(place, native.asked, native.next, native.listed)
  BY <1>1, <1>7 DEF ScanOf
<1>25. ASSUME native' = [native EXCEPT !.next = @ + 1]
       PROVE  native' = ScanOf(native.at, native.asked, native.next + 1, native.listed)
  BY <1>1, <1>25 DEF ScanOf
<1>8. CASE LoadVulkan
  <2>1. native.at = "vulkan" /\ held' = held \cup {"library"} /\ UNCHANGED gpus
        /\ native' = ScanOf("instance", native.asked, native.next, native.listed)
    BY <1>7, <1>8 DEF LoadVulkan
  <2>2. "instance" \in ScanPlaces /\ HeldIn("instance") = {"library"} /\ HeldIn(native.at) = {}
    BY <2>1 DEF ScanPlaces, HeldIn
  <2> QED
    BY <1>1, <2>1, <2>2, TierMoves
<1>9. CASE CreateInstance
  <2>1. native.at = "instance" /\ held' = held \cup {"instance"} /\ UNCHANGED gpus
        /\ native' = ScanOf("count", native.asked, native.next, native.listed)
    BY <1>7, <1>9 DEF CreateInstance
  <2>2. /\ "count" \in ScanPlaces /\ HeldIn("count") = {"library", "instance"}
        /\ HeldIn(native.at) = {"library"}
    BY <2>1 DEF ScanPlaces, HeldIn
  <2>3. held' = held \cup HeldIn("count")
    BY <1>2, <2>1, <2>2
  <2> QED
    BY <1>1, <2>1, <2>2, <2>3, TierMoves
<1>10. CASE CountGpus
  <2>1. PICK asked \in Nat : asked = IF gpus > max_devices THEN max_devices ELSE gpus
    BY <1>2
  <2>2. asked <= max_devices
    BY <1>2, <2>1
  <2>3. native.at = "count" /\ held' = held \cup {"array"} /\ UNCHANGED gpus
        /\ native' = ScanOf("fetch", asked, native.next, native.listed)
    BY <1>1, <1>10, <2>1 DEF CountGpus, ScanOf
  <2>4. /\ "fetch" \in ScanPlaces /\ HeldIn("fetch") = {"library", "instance", "array"}
        /\ HeldIn(native.at) = {"library", "instance"}
    BY <2>3 DEF ScanPlaces, HeldIn
  <2>5. held' = held \cup HeldIn("fetch")
    BY <1>2, <2>3, <2>4
  <2> QED
    BY <1>1, <2>2, <2>3, <2>4, <2>5, TierMoves
<1>11. CASE FetchGpus
  <2>1. gpus <= max_devices
    BY <1>1, <1>2, <1>11 DEF FetchGpus, NativeInv
  <2>2. /\ native.at = "fetch" /\ held' = held \ {"library", "instance", "array"}
        /\ EndTier([n \in 1 .. gpus |-> Gpu("vulkan", n)]) /\ UNCHANGED gpus
    BY <1>11 DEF FetchGpus
  <2>3. held' \ {"adapter"} = {} /\ ("adapter" \in held' => gpus > max_devices)
    BY <1>2, <2>2 DEF HeldIn
  <2>4. PICK list : list = [n \in 1 .. gpus |-> Gpu("vulkan", n)]
    OBVIOUS
  <2>5. GoodGpus(list) /\ EndTier(list)
    BY <2>1, <2>2, <2>4, FetchedGpus
  <2> QED
    BY <2>2, <2>3, <2>5, TierEnds
<1>12. CASE VulkanFails
  <2>1. /\ native.at \in {"vulkan", "instance", "count", "fetch"} /\ EndTier(e)
        /\ held' = held \ {"library", "instance", "array"} /\ UNCHANGED gpus
    BY <1>3, <1>12 DEF VulkanFails
  <2>2. held' \ {"adapter"} = {} /\ ("adapter" \in held' => gpus > max_devices)
    BY <1>2, <2>1 DEF HeldIn
  <2> QED
    BY <1>3, <2>1, <2>2, TierEnds
<1>13. ASSUME NEW at, NEW place, NEW thing,
              \/ <<at, place, thing>> = <<"dxgi", "adapters", "factory">>
              \/ <<at, place, thing>> = <<"registry", "subkeys", "key">>,
              native.at = at, UNCHANGED gpus,
              \/ /\ held' = held \cup {thing}
                 /\ native' = [native EXCEPT !.at = place]
              \/ EndTier(e) /\ UNCHANGED held
       PROVE  NativeInv'
  <2>1. place \in ScanPlaces /\ HeldIn(place) = {thing} /\ HeldIn(at) = {}
        /\ place \in {"adapters", "subkeys"} /\ at \in {"dxgi", "registry"}
        /\ (place = "adapters" => at = "dxgi")
        /\ (place = "subkeys" => at = "registry")
    BY <1>13 DEF ScanPlaces, HeldIn
  <2>2. CASE held' = held \cup {thing} /\ native' = [native EXCEPT !.at = place]
    BY <1>1, <1>7, <1>13, <2>1, <2>2, TierMoves
  <2>3. CASE EndTier(e) /\ UNCHANGED held
    BY <1>2, <1>3, <1>13, <2>1, <2>3, TierEnds
  <2> QED
    BY <1>13, <2>2, <2>3
<1>14. CASE CreateFactory
  BY <1>3, <1>13, <1>14 DEF CreateFactory
<1>15. CASE OpenClass
  BY <1>3, <1>13, <1>15 DEF OpenClass
<1>17. CASE ListAdapter
  <2>1. ViaOf("adapters") = "dxgi"
    BY DEF ViaOf
  <2> QED
    BY <1>1, <1>17, <1>25, <2>1, TierLists, TierSkips DEF ListAdapter
<1>18. CASE ReadSubkey
  <2>1. ViaOf("subkeys") = "registry"
    BY DEF ViaOf
  <2> QED
    BY <1>1, <1>18, <1>25, <2>1, TierLists, TierSkips DEF ReadSubkey
<1>20. CASE NoRoomForAdapter
  <2>1. /\ native.at = "adapters" /\ native.next <= gpus /\ ~HasRoom
        /\ held' = (held \ {"factory"}) \cup {"adapter"}
        /\ EndTier(native.listed) /\ UNCHANGED gpus
    BY <1>20 DEF NoRoomForAdapter
  <2>2. held' \ {"adapter"} = {}
    BY <1>2, <2>1 DEF HeldIn
  <2>3. gpus > max_devices
    BY <1>1, <1>2, <2>1 DEF NativeInv, HasRoom
  <2> QED
    BY <1>2, <2>1, <2>2, <2>3, TierEnds
<1>21. CASE NoMoreAdapters
  <2>1. /\ native.at = "adapters" /\ held' = held \ {"factory"}
        /\ EndTier(native.listed) /\ UNCHANGED gpus
    BY <1>21 DEF NoMoreAdapters
  <2>2. held' \ {"adapter"} = {} /\ ("adapter" \in held' => gpus > max_devices)
    BY <1>2, <2>1 DEF HeldIn
  <2> QED
    BY <1>2, <2>1, <2>2, TierEnds
<1>22. CASE CloseClass
  <2>1. /\ native.at = "subkeys" /\ held' = held \ {"key"}
        /\ EndTier(native.listed) /\ UNCHANGED gpus
    BY <1>22 DEF CloseClass
  <2>2. held' \ {"adapter"} = {} /\ ("adapter" \in held' => gpus > max_devices)
    BY <1>2, <2>1 DEF HeldIn
  <2> QED
    BY <1>2, <2>1, <2>2, TierEnds
<1>24. CASE UNCHANGED nativeVars
  BY <1>24 DEF NativeInv, GoodGpus, nativeVars
<1> QED
  BY <1>4, <1>5, <1>6, <1>8, <1>9, <1>10, <1>11, <1>12, <1>14, <1>15, <1>17, <1>18, <1>20,
     <1>21, <1>22, <1>24
  DEF NativeNext, query_vulkan_gpu, query_windows_gpu_dxgi, query_windows_gpu_registry

LEMMA NativeHolds == NativeSpec => []NativeInv
  BY NativeBegins, NativeKeeps, PTL DEF NativeSpec

LEMMA NativeTyped == NativeInv => NativeTypeOK
  BY DEF NativeInv, NativeTypeOK, HeldIn, Scans, ScanPlaces

LEMMA NativeGivesBack == NativeInv => NativeUnwinds
  BY DEF NativeInv, NativeUnwinds, HeldIn, GoodGpus

-----------------------------------------------------------------------------
(***************************************************************************)
(* What the system reports of itself (Multimodal).                         *)
(***************************************************************************)

ReportFields == {"at", "whole", "room", "buffers", "failed", "seen", "nics", "virtual", "audio", "groups",
                 "nodes", "native"}
ReportPlaces == {"idle", "first", "second", "audio", "devices", "done"}
InventoryFields == {"platforms", "devices", "discovered"}

IsRecordOf(record, fields) == record = [f \in fields |-> record[f]]

(* The walk of a list of adapters: those that are filtered, and the rest. *)
Virtual(list) == {i \in DOMAIN list : is_virtual_adapter(list[i])}
Walked(list, nics, count) ==
  /\ list \in Seq(AdapterKinds) /\ Len(list) <= MaxAdapters
  /\ nics = DOMAIN list \ Virtual(list)
  /\ count = Cardinality(Virtual(list))

Groups == <<InGroup("CPU"), InGroup("GPU"), InGroup("Accelerator")>>

(* The buffers of a document by where it is. *)
BuffersIn(document) ==
  /\ document.at = "first" => document.buffers \subseteq {"first"}
  /\ document.at = "second" => document.buffers \subseteq {"second"}
  /\ document.at \in {"first", "second"} => document.seen = <<>> /\ document.failed = FALSE
  /\ document.at \notin {"first", "second"} => (document.buffers = {} \/ document.failed)
  /\ document.buffers \in {{}, {"first"}, {"second"}}
  /\ document.failed \in BOOLEAN
  /\ document.failed => document.seen = <<>>

(* Groups are those of an inventory that was discovered, which it stays. *)
ReportInv ==
  /\ installed \in Seq(AdapterKinds) /\ Len(installed) <= MaxAdapters
  /\ IsRecordOf(report, ReportFields)
  /\ report.at \in ReportPlaces
  /\ Walked(report.seen, report.nics, report.virtual)
  /\ report.audio \in 0 .. AudioDevices
  /\ BuffersIn(report)
  /\ IsRecordOf(inventory, InventoryFields)
  /\ inventory.platforms \in {0, 3} /\ inventory.devices \in {0, 4}
  /\ inventory.discovered \in BOOLEAN
  /\ inventory.discovered <=> inventory.devices = 4
  /\ report.groups = <<>> \/ (report.groups = Groups /\ inventory.devices = 4)

LEMMA NothingWalked ==
  ASSUME NEW list, list = <<>> PROVE Walked(list, {}, 0)
<1>1. list \in Seq(AdapterKinds) /\ Len(list) = 0 /\ DOMAIN list = {}
  OBVIOUS
<1>2. Virtual(list) = {}
  BY <1>1 DEF Virtual
<1>3. Cardinality({}) = 0
  BY FS_EmptySet
<1> QED
  BY <1>1, <1>2, <1>3, ReportAssumption DEF Walked

LEMMA NoReportIs ==
  /\ NoReport.buffers = {} /\ NoReport.failed = FALSE /\ BuffersIn(NoReport)
  /\ IsRecordOf(NoReport, ReportFields) /\ NoReport.at = "idle"
  /\ Walked(NoReport.seen, NoReport.nics, NoReport.virtual)
  /\ NoReport.audio = 0 /\ NoReport.groups = <<>>
<1>1. IsRecordOf(NoReport, ReportFields)
  BY DEF NoReport, IsRecordOf, ReportFields
<1>2. /\ NoReport.at = "idle" /\ NoReport.seen = <<>> /\ NoReport.nics = {}
      /\ NoReport.virtual = 0 /\ NoReport.audio = 0 /\ NoReport.groups = <<>>
  BY DEF NoReport
<1>3. NoReport.buffers = {} /\ NoReport.failed = FALSE
  BY Zenon DEF NoReport
<1>4. BuffersIn(NoReport)
  BY <1>2, <1>3, Zenon DEF BuffersIn
<1> QED
  BY <1>1, <1>2, <1>3, <1>4, NothingWalked

LEMMA ReportBegins == ReportInit => ReportInv
<1> SUFFICES ASSUME ReportInit PROVE ReportInv
  OBVIOUS
<1>1. installed = <<>> /\ report = NoReport
  BY DEF ReportInit
<1>2. installed \in Seq(AdapterKinds) /\ Len(installed) <= MaxAdapters
  <2>1. installed \in Seq(AdapterKinds) /\ Len(installed) = 0
    BY <1>1
  <2> QED
    BY <2>1, ReportAssumption
<1>3. /\ IsRecordOf(inventory, InventoryFields)
      /\ inventory.platforms = 0 /\ inventory.devices = 0
  BY DEF ReportInit, IsRecordOf, InventoryFields
<1>4. inventory.discovered = FALSE
  BY Zenon DEF ReportInit
<1>5. 0 \in 0 .. AudioDevices
  BY ReportAssumption
<1>6. /\ inventory.discovered \in BOOLEAN
      /\ inventory.discovered <=> inventory.devices = 4
  <2>1. ~(0 = 4)
    OBVIOUS
  <2> QED
    BY <1>3, <1>4, <2>1, Zenon
<1>7. report.at \in ReportPlaces /\ BuffersIn(report)
      /\ inventory.platforms \in {0, 3} /\ inventory.devices \in {0, 4}
  BY <1>1, <1>3, NoReportIs DEF ReportPlaces
<1>8. /\ IsRecordOf(report, ReportFields) /\ Walked(report.seen, report.nics, report.virtual)
      /\ report.audio \in 0 .. AudioDevices /\ report.groups = <<>>
  BY <1>1, <1>5, NoReportIs
<1> QED
  BY <1>2, <1>3, <1>6, <1>7, <1>8 DEF ReportInv

(* A step of the document that walks no list. *)
LEMMA DocumentMoves ==
  ASSUME ReportInv, NEW document, IsRecordOf(document, ReportFields),
         document.at \in ReportPlaces, document.audio \in 0 .. AudioDevices,
         Walked(document.seen, document.nics, document.virtual),
         document.groups \in {<<>>, report.groups}, report' = document,
         BuffersIn(document), UNCHANGED <<installed, inventory>>
  PROVE  ReportInv'
<1>1. /\ installed' \in Seq(AdapterKinds) /\ Len(installed') <= MaxAdapters
      /\ IsRecordOf(inventory', InventoryFields)
      /\ inventory'.platforms \in {0, 3} /\ inventory'.devices \in {0, 4}
      /\ inventory'.discovered \in BOOLEAN
      /\ inventory'.discovered <=> inventory'.devices = 4
  BY DEF ReportInv
<1>2. report'.groups = <<>> \/ (report'.groups = Groups /\ inventory'.devices = 4)
  BY DEF ReportInv
<1>3. /\ IsRecordOf(report', ReportFields) /\ report'.at \in ReportPlaces
      /\ BuffersIn(report')
      /\ report'.audio \in 0 .. AudioDevices
      /\ Walked(report'.seen, report'.nics, report'.virtual)
  OBVIOUS
<1> QED
  BY <1>1, <1>2, <1>3 DEF ReportInv, Walked, BuffersIn

LEMMA DocumentBegins ==
  ASSUME NEW place \in ReportPlaces, NEW document, IsRecordOf(document, ReportFields),
         document.at = place, document.seen = NoReport.seen, document.nics = NoReport.nics,
         document.virtual = NoReport.virtual, document.audio = NoReport.audio,
         document.groups = NoReport.groups, BuffersIn(document), ReportInv, report' = document,
         UNCHANGED <<installed, inventory>>
  PROVE  ReportInv'
<1>1. Walked(document.seen, document.nics, document.virtual)
  BY NoReportIs
<1>2. document.audio \in 0 .. AudioDevices
  <2>1. document.audio = 0
    BY NoReportIs
  <2> QED
    BY <2>1, ReportAssumption
<1>3. document.groups \in {<<>>, report.groups}
  BY NoReportIs DEF ReportInv
<1> QED
  BY <1>1, <1>2, <1>3, DocumentMoves

(* Devices do not change the document. *)
LEMMA InventoryMoves ==
  ASSUME ReportInv, IsRecordOf(inventory', InventoryFields),
         inventory'.platforms \in {0, 3}, inventory'.devices \in {0, 4},
         inventory'.discovered \in BOOLEAN, inventory'.discovered <=> inventory'.devices = 4,
         inventory.devices = 4 => inventory'.devices = 4,
         UNCHANGED <<installed, report>>
  PROVE  ReportInv'
  BY Zenon DEF ReportInv, Walked, BuffersIn

LEMMA AllDiscovered ==
  ASSUME ReportInv, NEW all, all = discover_all_devices
  PROVE  /\ IsRecordOf(all, InventoryFields)
         /\ all.platforms = inventory.platforms /\ all.devices = 4 /\ all.discovered = TRUE
<1>1. inventory = [f \in InventoryFields |-> inventory[f]]
  BY DEF ReportInv, IsRecordOf
<1>2. all = [inventory EXCEPT !.devices = 4, !.discovered = TRUE]
  BY DEF discover_all_devices
<1>3. all = [f \in InventoryFields |-> all[f]] /\ all.platforms = inventory.platforms
  BY <1>1, <1>2 DEF InventoryFields
<1>4. all.devices = 4
  BY <1>1, <1>2 DEF InventoryFields
<1>5. all.discovered = TRUE
  BY <1>1, <1>2 DEF InventoryFields
<1> QED
  BY <1>3, <1>4, <1>5 DEF IsRecordOf

LEMMA ReportKeeps == ReportInv /\ [ReportNext]_reportVars => ReportInv'
<1> SUFFICES ASSUME ReportInv, [ReportNext]_reportVars PROVE ReportInv'
  OBVIOUS
<1>1. /\ report = [f \in ReportFields |-> report[f]] /\ report.at \in ReportPlaces
      /\ report.audio \in 0 .. AudioDevices /\ BuffersIn(report)
  BY DEF ReportInv, IsRecordOf
<1>2. Walked(report.seen, report.nics, report.virtual)
  BY DEF ReportInv
<1>3. ASSUME NEW k \in AdapterKinds, AdapterAppears(k) PROVE ReportInv'
  <2>3. Len(installed) < MaxAdapters /\ installed' = Append(installed, k)
        /\ UNCHANGED <<report, inventory>>
    BY <1>3 DEF AdapterAppears
  <2>4. installed' \in Seq(AdapterKinds) /\ Len(installed') = Len(installed) + 1
    BY <1>3, <2>3 DEF ReportInv
  <2>5. Len(installed') <= MaxAdapters
    <3>1. installed \in Seq(AdapterKinds) /\ MaxAdapters \in Nat
      BY ReportAssumption DEF ReportInv
    <3>2. Len(installed) \in Nat
      BY <3>1
    <3> QED
      BY <2>3, <2>4, <3>1, <3>2
  <2> QED
    BY <2>3, <2>4, <2>5, Zenon DEF ReportInv, Walked, BuffersIn
<1>4. ASSUME NEW whole \in BOOLEAN, retryix_discover_network_topology_json(whole) PROVE ReportInv'
  <2>0. PICK memory \in BOOLEAN :
          report' = [NoReport EXCEPT !.at = "first", !.whole = whole, !.room = Room,
                                     !.buffers = IF memory THEN {"first"} ELSE {}]
    BY <1>4 DEF retryix_discover_network_topology_json
  <2>1. PICK asked, new :
          /\ asked = IF memory THEN {"first"} ELSE {}
          /\ new = [NoReport EXCEPT !.at = "first", !.whole = whole, !.room = Room,
                                    !.buffers = IF memory THEN {"first"} ELSE {}]
    OBVIOUS
  <2>2. report' = new /\ UNCHANGED <<installed, inventory>>
    BY <1>4, <2>0, <2>1, Zenon DEF retryix_discover_network_topology_json
  <2>3. NoReport = [f \in ReportFields |-> NoReport[f]]
    BY NoReportIs DEF IsRecordOf
  <2>4. /\ new = [f \in ReportFields |-> new[f]] /\ new.at = "first"
        /\ new.seen = NoReport.seen /\ new.nics = NoReport.nics
        /\ new.virtual = NoReport.virtual /\ new.audio = NoReport.audio
        /\ new.groups = NoReport.groups /\ new.buffers = asked
    BY <2>1, <2>3 DEF ReportFields
  <2>5. "first" \in ReportPlaces
    BY DEF ReportPlaces
  <2>6. new.failed = FALSE
    BY <2>1, <2>3, NoReportIs DEF ReportFields
  <2>7. BuffersIn(new)
    <3>1. new.seen = <<>>
      BY <2>4 DEF NoReport
    <3>2. asked \in {{}, {"first"}}
      BY <2>1
    <3> QED
      BY <2>4, <2>6, <3>1, <3>2 DEF BuffersIn
  <2> QED
    BY <2>2, <2>4, <2>5, <2>7, DocumentBegins DEF IsRecordOf
<1>5. CASE retryix_discover_atomic_topology_json
  <2>1. PICK new : new = [NoReport EXCEPT !.at = "done",
                          !.native = EMULATED \in retryix_atomic_get_128bit_capabilities]
    OBVIOUS
  <2>2. report' = new /\ UNCHANGED <<installed, inventory>>
    BY <1>5, <2>1 DEF retryix_discover_atomic_topology_json
  <2>3. NoReport = [f \in ReportFields |-> NoReport[f]]
    BY NoReportIs DEF IsRecordOf
  <2>4. /\ new = [f \in ReportFields |-> new[f]] /\ new.at = "done"
        /\ new.seen = NoReport.seen /\ new.nics = NoReport.nics
        /\ new.virtual = NoReport.virtual /\ new.audio = NoReport.audio
        /\ new.groups = NoReport.groups
    BY <2>1, <2>3 DEF ReportFields
  <2>5. "done" \in ReportPlaces
    BY DEF ReportPlaces
  <2>6. BuffersIn(new)
    <3>1. new.buffers = {} /\ new.failed = FALSE
      BY <2>1, <2>3, NoReportIs DEF ReportFields
    <3> QED
      BY <2>4, <3>1 DEF BuffersIn
  <2> QED
    BY <2>2, <2>4, <2>5, <2>6, DocumentBegins DEF IsRecordOf
<1>6. CASE retryix_discover_svm_topology_json
  <2>1. PICK nodes, new : /\ new = [NoReport EXCEPT !.at = "done", !.nodes = nodes]
                          /\ report' = new
                          /\ UNCHANGED <<installed, inventory>>
    BY <1>6 DEF retryix_discover_svm_topology_json
  <2>3. NoReport = [f \in ReportFields |-> NoReport[f]]
    BY NoReportIs DEF IsRecordOf
  <2>4. /\ new = [f \in ReportFields |-> new[f]] /\ new.at = "done"
        /\ new.seen = NoReport.seen /\ new.nics = NoReport.nics
        /\ new.virtual = NoReport.virtual /\ new.audio = NoReport.audio
        /\ new.groups = NoReport.groups
    BY <2>1, <2>3 DEF ReportFields
  <2>5. "done" \in ReportPlaces
    BY DEF ReportPlaces
  <2>6. BuffersIn(new)
    <3>1. new.buffers = {} /\ new.failed = FALSE
      BY <2>1, <2>3, NoReportIs DEF ReportFields
    <3> QED
      BY <2>4, <3>1 DEF BuffersIn
  <2> QED
    BY <2>1, <2>4, <2>5, <2>6, DocumentBegins DEF IsRecordOf
<1>7. CASE retryix_free_json
  <2>1. report' = NoReport /\ UNCHANGED <<installed, inventory>>
    BY <1>7 DEF retryix_free_json
  <2>2. "idle" \in ReportPlaces
    BY DEF ReportPlaces
  <2> QED
    BY <2>1, <2>2, NoReportIs, DocumentBegins
<1>8. AfterNetwork \in ReportPlaces /\ AfterNetwork \notin {"first", "second"}
  BY DEF AfterNetwork, ReportPlaces
<1>9. CASE AskAgain
  <2>1. PICK asked, buffers, new :
          /\ asked \in {{}, {"second"}} /\ buffers = (report.buffers \ {"first"}) \cup asked
          /\ new = [report EXCEPT !.at = "second", !.room = Len(installed), !.buffers = buffers]
          /\ report' = new /\ UNCHANGED <<installed, inventory>>
    BY <1>9 DEF AskAgain
  <2>3. /\ new = [f \in ReportFields |-> new[f]] /\ new.at = "second"
        /\ new.seen = report.seen /\ new.nics = report.nics /\ new.virtual = report.virtual
        /\ new.audio = report.audio /\ new.groups = report.groups
        /\ new.buffers = buffers /\ new.failed = report.failed
    BY <1>1, <2>1 DEF ReportFields
  <2>4. "second" \in ReportPlaces
    BY DEF ReportPlaces
  <2>5. BuffersIn(new)
    <3>1. report.at = "first"
      BY <1>9 DEF AskAgain
    <3>2. report.buffers \subseteq {"first"} /\ report.seen = <<>>
      BY <1>1, <3>1 DEF BuffersIn
    <3>3. buffers \in {{}, {"second"}}
      BY <2>1, <3>2
    <3>4. report.failed = FALSE
      BY <1>1, <3>1, Zenon DEF BuffersIn
    <3> QED
      BY <2>3, <3>2, <3>3, <3>4 DEF BuffersIn
  <2> QED
    BY <1>1, <1>2, <2>1, <2>3, <2>4, <2>5, DocumentMoves DEF IsRecordOf
<1>10. CASE ListFails
  <2>1. PICK next, new : /\ next = AfterNetwork
                         /\ new = [report EXCEPT !.at = next, !.failed = TRUE]
    OBVIOUS
  <2>2. report' = new /\ UNCHANGED <<installed, inventory>>
    BY <1>10, <2>1 DEF ListFails
  <2>3. /\ new = [f \in ReportFields |-> new[f]] /\ new.at = next
        /\ new.seen = report.seen /\ new.nics = report.nics /\ new.virtual = report.virtual
        /\ new.audio = report.audio /\ new.groups = report.groups
        /\ new.buffers = report.buffers /\ new.failed = TRUE
    BY <1>1, <2>1 DEF ReportFields
  <2>4. BuffersIn(new)
    <3>1. report.at \in {"first", "second"}
      BY <1>10 DEF ListFails
    <3>2. report.buffers \in {{}, {"first"}, {"second"}} /\ report.seen = <<>>
      BY <1>1, <3>1 DEF BuffersIn
    <3>3. new.failed = TRUE
      BY <2>3
    <3> QED
      BY <1>8, <2>1, <2>3, <3>2, <3>3 DEF BuffersIn
  <2> QED
    BY <1>1, <1>2, <1>8, <2>1, <2>2, <2>3, <2>4, DocumentMoves DEF IsRecordOf
<1>11. CASE Walk
  <2>1. PICK next, nics, count, list, new :
          /\ next = AfterNetwork /\ list = installed
          /\ nics = DOMAIN installed \ Filtered /\ count = Cardinality(Filtered)
          /\ new = [report EXCEPT !.at = next, !.buffers = {}, !.seen = list, !.nics = nics,
                                  !.virtual = count]
    OBVIOUS
  <2>2. report' = new /\ UNCHANGED <<installed, inventory>>
    BY <1>11, <2>1 DEF Walk
  <2>3. /\ new = [f \in ReportFields |-> new[f]] /\ new.at = next
        /\ new.seen = list /\ new.nics = nics /\ new.virtual = count
        /\ new.audio = report.audio /\ new.groups = report.groups
        /\ new.buffers = {} /\ new.failed = report.failed
    BY <1>1, <2>1 DEF ReportFields
  <2>4. Walked(list, nics, count)
    BY <2>1 DEF Walked, Virtual, Filtered, ReportInv
  <2>5. /\ IsRecordOf(new, ReportFields) /\ new.at \in ReportPlaces
        /\ new.audio \in 0 .. AudioDevices /\ new.groups \in {<<>>, report.groups}
    BY <1>1, <1>8, <2>1, <2>3 DEF IsRecordOf
  <2>6. Walked(new.seen, new.nics, new.virtual)
    BY <1>1, <2>2, <2>3, <2>4
  <2>7. BuffersIn(new)
    <3>1. report.failed = FALSE
      BY <1>1, <1>11, Zenon DEF BuffersIn, Walk
    <3> QED
      BY <1>8, <2>1, <2>3, <3>1 DEF BuffersIn
  <2> QED
    BY <2>2, <2>5, <2>6, <2>7, DocumentMoves
<1>12. CASE retryix_discover_audio_topology_json
  <2>0. PICK answered \in 0 .. AudioDevices :
          report' = [report EXCEPT !.at = IF report.at = "audio" THEN "devices" ELSE "done",
                                   !.audio = answered]
    BY <1>12 DEF retryix_discover_audio_topology_json
  <2>1. PICK next, new :
          /\ next = IF report.at = "audio" THEN "devices" ELSE "done"
          /\ new = [report EXCEPT !.at = next, !.audio = answered]
          /\ report' = new /\ UNCHANGED <<installed, inventory>>
    BY <1>12, <2>0 DEF retryix_discover_audio_topology_json
  <2>3. /\ new = [f \in ReportFields |-> new[f]] /\ new.at = next
        /\ new.seen = report.seen /\ new.nics = report.nics /\ new.virtual = report.virtual
        /\ new.audio = answered /\ new.groups = report.groups
        /\ new.buffers = report.buffers /\ new.failed = report.failed
    BY <1>1, <2>1 DEF ReportFields
  <2>4. next \in ReportPlaces
    BY <2>1 DEF ReportPlaces
  <2>5. /\ IsRecordOf(new, ReportFields) /\ new.at \in ReportPlaces
        /\ new.audio \in 0 .. AudioDevices /\ new.groups \in {<<>>, report.groups}
    BY <2>3, <2>4 DEF IsRecordOf
  <2>6. Walked(new.seen, new.nics, new.virtual)
    BY <1>1, <1>2, <2>1, <2>3
  <2>7. BuffersIn(new)
    <3>1. report.at \in {"idle", "audio"}
      BY <1>12 DEF retryix_discover_audio_topology_json
    <3>2. report.at \notin {"first", "second"} /\ new.at \notin {"first", "second"}
      BY <2>1, <2>3, <3>1
    <3>3. /\ new.at # "first" /\ new.at # "second"
          /\ new.buffers = report.buffers /\ new.failed = report.failed
          /\ new.seen = report.seen
      BY <2>3, <3>2
    <3> QED
      BY <1>1, <3>2, <3>3, Zenon DEF BuffersIn
  <2> QED
    BY <2>1, <2>5, <2>6, <2>7, DocumentMoves
<1>13. CASE retryix_discover_platforms
  <2>1. PICK new : /\ new = [inventory EXCEPT !.platforms = 3] /\ inventory' = new
                   /\ UNCHANGED <<installed, report>>
    BY <1>13 DEF retryix_discover_platforms
  <2>2. inventory = [f \in InventoryFields |-> inventory[f]]
    BY DEF ReportInv, IsRecordOf
  <2>3. new = [f \in InventoryFields |-> new[f]] /\ new.platforms = 3
        /\ new.devices = inventory.devices
    BY <2>1, <2>2 DEF InventoryFields
  <2>4. new.discovered = inventory.discovered
    BY <2>1, <2>2 DEF InventoryFields
  <2>5. new.platforms \in {0, 3} /\ new.devices \in {0, 4}
    BY <2>3 DEF ReportInv
  <2>6. new.discovered \in BOOLEAN /\ (new.discovered <=> new.devices = 4)
    BY <2>3, <2>4, Zenon DEF ReportInv
  <2> QED
    BY <2>1, <2>3, <2>5, <2>6, InventoryMoves, Zenon DEF IsRecordOf
<1>14. PICK all : all = discover_all_devices
  OBVIOUS
<1>15. /\ IsRecordOf(all, InventoryFields) /\ all.devices = 4
       /\ all.platforms \in {0, 3} /\ all.devices \in {0, 4}
  BY <1>14, AllDiscovered DEF ReportInv
<1>16. all.discovered \in BOOLEAN /\ (all.discovered <=> all.devices = 4)
  BY <1>14, <1>15, AllDiscovered, Zenon
<1>17. CASE retryix_enumerate_devices
  <2>1. UNCHANGED <<installed, report>> /\ (inventory' = inventory \/ inventory' = all)
    BY <1>14, <1>17 DEF retryix_enumerate_devices
  <2>2. CASE inventory' = all
    BY <1>15, <1>16, <2>1, <2>2, InventoryMoves, Zenon
  <2>3. CASE inventory' = inventory
    BY <2>1, <2>3, Zenon DEF ReportInv, Walked, BuffersIn
  <2> QED
    BY <2>1, <2>2, <2>3
<1>18. CASE retryix_discover_multimodal_topology_json
  <2>1. PICK groups, new : /\ groups = Groups
                           /\ new = [report EXCEPT !.at = "done", !.groups = groups]
                           /\ report' = new /\ inventory' = all
                           /\ UNCHANGED <<installed>>
    BY <1>14, <1>18 DEF retryix_discover_multimodal_topology_json, Groups
  <2>2. /\ new = [f \in ReportFields |-> new[f]] /\ new.at = "done"
        /\ new.seen = report.seen /\ new.nics = report.nics /\ new.virtual = report.virtual
        /\ new.audio = report.audio /\ new.groups = groups
        /\ new.buffers = report.buffers /\ new.failed = report.failed
    BY <1>1, <2>1 DEF ReportFields
  <2>3. "done" \in ReportPlaces
    BY DEF ReportPlaces
  <2>4. /\ IsRecordOf(new, ReportFields) /\ new.at \in ReportPlaces
        /\ Walked(new.seen, new.nics, new.virtual) /\ new.audio \in 0 .. AudioDevices
        /\ new.groups = Groups
    BY <1>1, <1>2, <2>1, <2>2, <2>3 DEF IsRecordOf
  <2>5. Walked(new.seen, new.nics, new.virtual)'
    BY <2>4 DEF Walked
  <2>6. installed \in Seq(AdapterKinds) /\ Len(installed) <= MaxAdapters
    BY DEF ReportInv
  <2>7. BuffersIn(new)
    <3>1. report.at = "devices"
      BY <1>18 DEF retryix_discover_multimodal_topology_json
    <3> QED
      BY <1>1, <2>2, <3>1 DEF BuffersIn
  <2>8. BuffersIn(report')
    BY <2>1, <2>7
  <2> QED
    BY <1>1, <1>15, <1>16, <2>1, <2>4, <2>6, <2>8, Zenon DEF ReportInv, Walked, BuffersIn
<1>19. CASE UNCHANGED reportVars
  BY <1>19, Zenon DEF ReportInv, Walked, BuffersIn, reportVars
<1> QED
  BY <1>3, <1>4, <1>5, <1>6, <1>7, <1>9, <1>10, <1>11, <1>12, <1>13, <1>17, <1>18, <1>19
  DEF ReportNext

LEMMA ReportHolds == ReportSpec => []ReportInv
  BY ReportBegins, ReportKeeps, PTL DEF ReportSpec

LEMMA WalkedAgrees ==
  ASSUME NEW list, NEW nics, NEW count, Walked(list, nics, count)
  PROVE  /\ Cardinality(nics) + count = Len(list) /\ count \in 0 .. MaxAdapters
<1>1. PICK n \in Nat : n = Len(list) /\ DOMAIN list = 1 .. n /\ list \in Seq(AdapterKinds)
  BY DEF Walked
<1>2. PICK all : all = 1 .. n /\ IsFiniteSet(all) /\ Cardinality(all) = n
  BY FS_Interval
<1>3. PICK out : out = Virtual(list) /\ out \subseteq all
  BY <1>1, <1>2 DEF Virtual
<1>4. nics = all \ out /\ count = Cardinality(out)
  BY <1>1, <1>2, <1>3 DEF Walked
<1>5. /\ Cardinality(all \ out) = Cardinality(all) - Cardinality(all \cap out)
      /\ Cardinality(out) \in Nat
  BY <1>2, <1>3, FS_Difference, FS_Subset, FS_CardinalityType
<1>6. all \cap out = out
  BY <1>3
<1>7. Cardinality(nics) = n - count /\ count \in Nat
  BY <1>2, <1>4, <1>5, <1>6
<1>8. count <= n
  BY <1>2, <1>3, <1>4, FS_Subset
<1>12. n <= MaxAdapters
  BY <1>1 DEF Walked
<1>13. Cardinality(nics) + count = n /\ count \in 0 .. MaxAdapters
  BY <1>7, <1>8, <1>12, ReportAssumption
<1> QED
  BY <1>1, <1>13

(* The inventory by type. *)
LEMMA GroupsAre ==
  InGroup("CPU") = {0} /\ InGroup("GPU") = {1, 2} /\ InGroup("Accelerator") = {3}
<1>1. /\ DeviceTypes[1] = "CPU" /\ DeviceTypes[2] = "GPU" /\ DeviceTypes[3] = "GPU"
      /\ DeviceTypes[4] = "Accelerator"
  BY DEF DeviceTypes
<1>2. 0 .. 3 = {0, 1, 2, 3}
  OBVIOUS
<1>3. \A id \in 0 .. 3 : id = 0 \/ id = 1 \/ id = 2 \/ id = 3
  OBVIOUS
<1>4. \A id \in 0 .. 3 : DeviceTypes[id + 1] = IF id = 0 THEN "CPU" ELSE IF id = 3 THEN "Accelerator"
                                               ELSE "GPU"
  BY <1>1, <1>3
<1> QED
  BY <1>2, <1>4 DEF InGroup

LEMMA ReportTyped == ReportInv => ReportTypeOK
<1> SUFFICES ASSUME ReportInv PROVE ReportTypeOK
  OBVIOUS
<1>1. report.virtual \in 0 .. MaxAdapters
  BY WalkedAgrees DEF ReportInv
<1>2. report.buffers \subseteq {"first", "second"} /\ report.failed \in BOOLEAN
  BY DEF ReportInv, BuffersIn
<1> QED
  BY <1>1, <1>2 DEF ReportInv, ReportTypeOK, ReportPlaces

LEMMA ReportAgrees == ReportInv => DocumentsAgree
<1> SUFFICES ASSUME ReportInv PROVE DocumentsAgree
  OBVIOUS
<1>1. Walked(report.seen, report.nics, report.virtual)
  BY DEF ReportInv
<1>3. ASSUME report.groups # <<>>
      PROVE  /\ report.groups[1] \cup report.groups[2] \cup report.groups[3]
                  = 0 .. inventory.devices - 1
             /\ Cardinality(report.groups[1]) = retryix_filter_devices_by_type("CPU")
             /\ Cardinality(report.groups[2]) = retryix_filter_devices_by_type("GPU")
             /\ \A id \in (0 .. inventory.devices - 1) \ report.groups[3] :
                  retryix_export_all_devices_json(id) = retryix_get_device_info(id)
  <2>1. report.groups = Groups /\ inventory.devices = 4
    BY <1>3 DEF ReportInv
  <2>2. report.groups[1] = {0} /\ report.groups[2] = {1, 2} /\ report.groups[3] = {3}
    BY <2>1, GroupsAre DEF Groups
  <2>3. Cardinality({0}) = 1 /\ Cardinality({1, 2}) = 2
    <3>1. Cardinality({0}) = 1 /\ IsFiniteSet({1}) /\ Cardinality({1}) = 1
      BY FS_Singleton
    <3>2. {1, 2} = {1} \cup {2} /\ 2 \notin {1}
      OBVIOUS
    <3>3. Cardinality({1} \cup {2}) = 2
      BY <3>1, <3>2, FS_AddElement
    <3> QED
      BY <3>1, <3>2, <3>3
  <2>4. /\ retryix_filter_devices_by_type("CPU") = 1
        /\ retryix_filter_devices_by_type("GPU") = 2
    BY DEF retryix_filter_devices_by_type
  <2>5. {0} \cup {1, 2} \cup {3} = 0 .. 4 - 1
    OBVIOUS
  <2>6. ASSUME NEW id \in (0 .. 3) \ {3}
        PROVE  retryix_export_all_devices_json(id) = retryix_get_device_info(id)
    <3>1. id = 0 \/ id = 1 \/ id = 2
      OBVIOUS
    <3>2. /\ DeviceTypes[1] = "CPU" /\ DeviceTypes[2] = "GPU" /\ DeviceTypes[3] = "GPU"
      BY DEF DeviceTypes
    <3> QED
      BY <3>1, <3>2 DEF retryix_export_all_devices_json, retryix_get_device_info
  <2> QED
    BY <2>1, <2>2, <2>3, <2>4, <2>5, <2>6
<1>4. inventory.discovered <=> inventory.devices = 4
  BY DEF ReportInv
<1>5. Cardinality(report.nics) + report.virtual = Len(report.seen)
  BY <1>1, WalkedAgrees
<1>6. report.failed => report.seen = <<>>
  BY DEF ReportInv, BuffersIn
<1> QED
  BY <1>3, <1>4, <1>5, <1>6, Zenon DEF DocumentsAgree

LEMMA ReportGivesBack == ReportInv => ReportUnwinds
<1> SUFFICES ASSUME ReportInv PROVE ReportUnwinds
  OBVIOUS
<1>1. BuffersIn(report)
  BY DEF ReportInv
<1>2. Cardinality(report.buffers) <= 1
  <2>1. report.buffers \in {{}, {"first"}, {"second"}}
    BY <1>1 DEF BuffersIn
  <2>2. /\ Cardinality({}) = 0 /\ Cardinality({"first"}) = 1 /\ Cardinality({"second"}) = 1
    BY FS_EmptySet, FS_Singleton
  <2>3. 0 <= 1 /\ 1 <= 1
    OBVIOUS
  <2> QED
    BY <2>1, <2>2, <2>3
<1> QED
  BY <1>1, <1>2 DEF ReportUnwinds, BuffersIn

-----------------------------------------------------------------------------
(***************************************************************************)
(* The Android bridge (AndroidBridge).                                     *)
(***************************************************************************)

Paths == ToSet(Libraries)
AndroidPlaces == {"idle", "scan", "display", "context", "surface", "current", "list"}
Questions == Purposes \cup {"none", "platforms"}
Phones == [at : AndroidPlaces, purpose : Questions, library : 1 .. Len(Libraries) + 1]
GpuFamilies == Families \cup {"unknown", "unset"}
Answers == [gpu_type : GpuFamilies, platforms : Seq(Paths),
            svm : SUBSET {"svm", "fine grain", "atomics"}, ok : BOOLEAN]

(* Opaque in the proofs below: the two records by their parts. *)
Phone(at, purpose, library) == [at |-> at, purpose |-> purpose, library |-> library]
AnswerOf(gpu_type, platforms, svm, ok) ==
  [gpu_type |-> gpu_type, platforms |-> platforms, svm |-> svm, ok |-> ok]

(* What may be open of EGL at each place. *)
EglAt(place) == CASE place = "context" -> {"display"}
                  [] place = "surface" -> {"display", "context"}
                  [] place = "current" -> {"display", "context", "surface"}
                  [] OTHER -> {}

Grains(svm) == "fine grain" \in svm => {"svm", "atomics"} \subseteq svm

(* The platforms are listed by the last step of a question, and dropped by *)
(* the first one of the next.                                              *)
AndroidInv ==
  /\ egl \subseteq EglAt(android.at)
  /\ android \in Phones
  /\ drivers \in Seq(Paths)
  /\ loaded \subseteq Paths
  /\ answer \in Answers
  /\ android.at # "idle" => answer.platforms = <<>>
  /\ IsPrefix(answer.platforms, drivers)
  /\ answer.platforms # <<>> => Len(answer.platforms) <= MaxPlatforms /\ answer.ok
  /\ Grains(answer.svm)

LEMMA PhoneMade ==
  ASSUME NEW at \in AndroidPlaces, NEW purpose \in Questions,
         NEW library \in 1 .. Len(Libraries) + 1
  PROVE  Phone(at, purpose, library) \in Phones
  BY DEF Phones, Phone

LEMMA PhoneFields ==
  ASSUME android \in Phones
  PROVE  /\ android.at \in AndroidPlaces /\ android.purpose \in Questions
         /\ android.library \in 1 .. Len(Libraries) + 1
         /\ android = Phone(android.at, android.purpose, android.library)
  BY DEF Phones, Phone

LEMMA AnswerMade ==
  ASSUME NEW type \in GpuFamilies, NEW list \in Seq(Paths),
         NEW svm \in SUBSET {"svm", "fine grain", "atomics"}, NEW ok \in BOOLEAN
  PROVE  AnswerOf(type, list, svm, ok) \in Answers
  BY Zenon DEF Answers, AnswerOf

LEMMA AnswerParts ==
  ASSUME NEW type, NEW list, NEW svm, NEW ok
  PROVE  /\ AnswerOf(type, list, svm, ok).gpu_type = type
         /\ AnswerOf(type, list, svm, ok).platforms = list
         /\ AnswerOf(type, list, svm, ok).svm = svm
         /\ AnswerOf(type, list, svm, ok).ok = ok
  BY Zenon DEF AnswerOf

LEMMA AnswerTaken ==
  ASSUME NEW a, NEW type, NEW list, NEW svm, NEW ok, a = AnswerOf(type, list, svm, ok)
  PROVE  a.platforms = list /\ a.svm = svm
  BY DEF AnswerOf

LEMMA AnswerFields ==
  ASSUME answer \in Answers
  PROVE  /\ answer.gpu_type \in GpuFamilies /\ answer.platforms \in Seq(Paths)
         /\ answer.svm \in SUBSET {"svm", "fine grain", "atomics"} /\ answer.ok \in BOOLEAN
         /\ answer = AnswerOf(answer.gpu_type, answer.platforms, answer.svm, answer.ok)
  BY DEF Answers, AnswerOf

LEMMA PrefixOfAny ==
  ASSUME NEW list \in Seq(Paths)
  PROVE  /\ \A e : e = <<>> => IsPrefix(e, list) /\ e \in Seq(Paths)
         /\ \A n \in 0 .. Len(list) :
              /\ IsPrefix(SubSeq(list, 1, n), list) /\ Len(SubSeq(list, 1, n)) = n
              /\ SubSeq(list, 1, n) \in Seq(Paths)
<1>1. ASSUME NEW n \in 0 .. Len(list)
      PROVE  /\ IsPrefix(SubSeq(list, 1, n), list) /\ Len(SubSeq(list, 1, n)) = n
             /\ SubSeq(list, 1, n) \in Seq(Paths)
  <2>1. PICK s : s = SubSeq(list, 1, n)
    OBVIOUS
  <2>2. s \in Seq(Paths) /\ Len(s) = n
    BY <2>1
  <2>3. SubSeq(s, 1, Len(s)) = s
    BY <2>2, SubSeqFull
  <2>4. IsPrefix(s, list)
    BY <2>1, <2>2, <2>3 DEF IsPrefix
  <2> QED
    BY <2>1, <2>2, <2>4
<1>2. ASSUME NEW e, e = <<>> PROVE IsPrefix(e, list) /\ e \in Seq(Paths)
  <2>1. e = SubSeq(list, 1, 0)
    BY <1>2, SubSeqEmpty
  <2>2. 0 \in 0 .. Len(list)
    OBVIOUS
  <2> QED
    BY <1>1, <2>1, <2>2
<1> QED
  BY <1>1, <1>2

LEMMA AsleepTyped ==
  /\ Asleep \in Phones /\ Asleep = Phone("idle", "none", 1) /\ Asleep.at = "idle"
  /\ \A place \in AndroidPlaces, purpose \in Questions :
       [Asleep EXCEPT !.at = place, !.purpose = purpose] = Phone(place, purpose, 1)
<1>1. Asleep = Phone("idle", "none", 1) /\ Asleep.at = "idle" /\ Asleep.library = 1
  BY DEF Asleep, Phone
<1>2. "idle" \in AndroidPlaces /\ "none" \in Questions
  BY DEF AndroidPlaces, Questions
<1>3. 1 \in 1 .. Len(Libraries) + 1
  <2>1. Len(Libraries) \in Nat
    BY AndroidAssumption
  <2> QED
    BY <2>1
<1>4. Asleep \in Phones
  BY <1>1, <1>2, <1>3, PhoneMade
<1>5. ASSUME NEW place \in AndroidPlaces, NEW purpose \in Questions
      PROVE  [Asleep EXCEPT !.at = place, !.purpose = purpose] = Phone(place, purpose, 1)
  <2>1. PICK phone : phone = [Asleep EXCEPT !.at = place, !.purpose = purpose]
    OBVIOUS
  <2>2. phone = [at |-> place, purpose |-> purpose, library |-> Asleep.library]
    BY <1>4, <2>1 DEF Phones
  <2>3. phone = Phone(place, purpose, 1)
    BY <1>1, <2>2 DEF Phone
  <2> QED
    BY <2>1, <2>3
<1> QED
  BY <1>1, <1>4, <1>5, Zenon

LEMMA PhoneAwake ==
  ASSUME NEW place \in AndroidPlaces, NEW purpose \in Questions
  PROVE  [Asleep EXCEPT !.at = place, !.purpose = purpose] \in Phones
<1>1. 1 \in 1 .. Len(Libraries) + 1
  <2>1. Len(Libraries) \in Nat
    BY AndroidAssumption
  <2> QED
    BY <2>1
<1>2. Phone(place, purpose, 1) \in Phones
  BY <1>1, PhoneMade
<1> QED
  BY <1>2, AsleepTyped, Zenon

LEMMA NoAnswerTyped ==
  \E e : e = <<>> /\ NoAnswer = AnswerOf("unset", e, {}, TRUE) /\ NoAnswer \in Answers
<1>1. PICK e : e = <<>>
  OBVIOUS
<1>2. NoAnswer = AnswerOf("unset", e, {}, TRUE)
  BY <1>1, Zenon DEF NoAnswer, AnswerOf
<1>3. "unset" \in GpuFamilies /\ {} \in SUBSET {"svm", "fine grain", "atomics"} /\ TRUE \in BOOLEAN
  BY Zenon DEF GpuFamilies
<1>4. e \in Seq(Paths)
  BY <1>1
<1> QED
  BY <1>1, <1>2, <1>3, <1>4, AnswerMade

LEMMA AndroidBegins == AndroidInit => AndroidInv
<1> SUFFICES ASSUME AndroidInit PROVE AndroidInv
  OBVIOUS
<1>1. PICK e : e = <<>> /\ answer = AnswerOf("unset", e, {}, TRUE) /\ answer \in Answers
  BY NoAnswerTyped DEF AndroidInit
<1>2. answer.platforms = e /\ answer.svm = {}
  BY <1>1 DEF AnswerOf
<1>3. drivers = e
  BY <1>1 DEF AndroidInit
<1>4. e \in Seq(Paths)
  BY <1>1
<1>5. IsPrefix(e, e)
  BY <1>1, <1>4, PrefixOfAny
<1>6. android \in Phones /\ egl = {} /\ loaded = {}
  BY AsleepTyped DEF AndroidInit
<1>7. answer.platforms = <<>> /\ IsPrefix(answer.platforms, drivers) /\ drivers \in Seq(Paths)
  BY <1>1, <1>2, <1>3, <1>4, <1>5
<1> QED
  BY <1>1, <1>2, <1>6, <1>7 DEF AndroidInv, Grains

(* A step that keeps what was answered, or drops the platforms. *)
LEMMA AnswerStays ==
  ASSUME AndroidInv, NEW place \in AndroidPlaces, android' \in Phones, android'.at = place,
         egl' \subseteq EglAt(place), UNCHANGED <<drivers, loaded, answer>>,
         android.at # "idle"
  PROVE  AndroidInv'
  BY DEF AndroidInv, Grains

LEMMA QuestionAnswered ==
  ASSUME AndroidInv, NEW type \in GpuFamilies,
         NEW svm \in SUBSET {"svm", "fine grain", "atomics"}, NEW ok \in BOOLEAN, Grains(svm),
         android.at # "idle", answer' = AnswerOf(type, answer.platforms, svm, ok),
         egl' = {}, android' \in Phones, UNCHANGED <<drivers, loaded>>
  PROVE  AndroidInv'
<1>1. PICK e : e = answer.platforms /\ e \in Seq(Paths) /\ e = <<>>
  BY AnswerFields DEF AndroidInv
<1>2. answer' = AnswerOf(type, e, svm, ok)
  BY <1>1
<1>3. answer' \in Answers
  BY <1>1, <1>2, AnswerMade
<1>4. answer'.platforms = e /\ answer'.svm = svm
  BY <1>2, AnswerTaken
<1>5. IsPrefix(e, drivers) /\ drivers \in Seq(Paths) /\ loaded \subseteq Paths
  BY <1>1 DEF AndroidInv
<1>6. answer'.platforms = <<>> /\ IsPrefix(answer'.platforms, drivers')
  BY <1>1, <1>4, <1>5
<1>7. Grains(svm)'
  BY DEF Grains
<1> QED
  BY <1>3, <1>4, <1>5, <1>6, <1>7 DEF AndroidInv

LEMMA AndroidKeeps == AndroidInv /\ [AndroidNext]_androidVars => AndroidInv'
<1> SUFFICES ASSUME AndroidInv, [AndroidNext]_androidVars PROVE AndroidInv'
  OBVIOUS
<1>1. /\ android.at \in AndroidPlaces /\ android.purpose \in Questions
      /\ android.library \in 1 .. Len(Libraries) + 1
      /\ android = Phone(android.at, android.purpose, android.library)
  BY PhoneFields DEF AndroidInv
<1>2. /\ answer.gpu_type \in GpuFamilies /\ answer.platforms \in Seq(Paths)
      /\ answer.svm \in SUBSET {"svm", "fine grain", "atomics"} /\ answer.ok \in BOOLEAN
      /\ answer = AnswerOf(answer.gpu_type, answer.platforms, answer.svm, answer.ok)
  BY AnswerFields DEF AndroidInv
<1>3. /\ drivers \in Seq(Paths) /\ loaded \subseteq Paths /\ Grains(answer.svm)
      /\ egl \subseteq EglAt(android.at)
  BY DEF AndroidInv
<1>4. ASSUME NEW place \in AndroidPlaces, android' = [android EXCEPT !.at = place]
      PROVE  android' \in Phones /\ android'.at = place
  <2>1. android' = Phone(place, android.purpose, android.library)
    BY <1>1, <1>4 DEF Phone
  <2>2. android'.at = place
    BY <2>1 DEF Phone
  <2> QED
    BY <1>1, <2>1, <2>2, PhoneMade
<1>5. ASSUME android' \in Phones, answer' = NoAnswer, UNCHANGED <<egl, loaded>>,
             drivers' = <<>> \/ UNCHANGED drivers, egl = {}
      PROVE  AndroidInv'
  <2>1. PICK e : e = <<>> /\ answer' = AnswerOf("unset", e, {}, TRUE) /\ answer' \in Answers
    BY <1>5, NoAnswerTyped
  <2>2. answer'.platforms = e /\ answer'.svm = {}
    BY <2>1 DEF AnswerOf
  <2>3. drivers' \in Seq(Paths)
    <3>1. \A s : s = <<>> => s \in Seq(Paths)
      OBVIOUS
    <3> QED
      BY <1>3, <1>5, <3>1
  <2>4. IsPrefix(e, drivers')
    BY <2>1, <2>3, PrefixOfAny
  <2>5. answer'.platforms = <<>> /\ IsPrefix(answer'.platforms, drivers')
    BY <2>1, <2>2, <2>4
  <2> QED
    BY <1>3, <1>5, <2>1, <2>2, <2>3, <2>5 DEF AndroidInv, Grains
<1>6. CASE retryix_discover_android_platforms
  <2>1. android' \in Phones
    <3>1. "scan" \in AndroidPlaces /\ "platforms" \in Questions
      BY DEF AndroidPlaces, Questions
    <3> QED
      BY <1>6, <3>1, PhoneAwake DEF retryix_discover_android_platforms
  <2>2. egl = {}
    BY <1>3, <1>6 DEF retryix_discover_android_platforms, EglAt
  <2> QED
    BY <1>5, <1>6, <2>1, <2>2 DEF retryix_discover_android_platforms
<1>7. ASSUME NEW purpose \in Purposes, retryix_android_check_svm_support(purpose) PROVE AndroidInv'
  <2>1. android' \in Phones
    <3>1. "display" \in AndroidPlaces /\ purpose \in Questions
      BY DEF AndroidPlaces, Questions
    <3> QED
      BY <1>7, <3>1, PhoneAwake DEF retryix_android_check_svm_support
  <2>2. egl = {}
    BY <1>3, <1>7 DEF retryix_android_check_svm_support, EglAt
  <2> QED
    BY <1>5, <1>7, <2>1, <2>2 DEF retryix_android_check_svm_support
<1>8. CASE retryix_android_scan_opencl_drivers
  <2>1. /\ android.at = "scan" /\ android.library <= Len(Libraries)
        /\ android' = [android EXCEPT !.library = @ + 1] /\ UNCHANGED <<egl, loaded, answer>>
        /\ drivers' = Append(drivers, Libraries[android.library]) \/ drivers' = drivers
    BY <1>8 DEF retryix_android_scan_opencl_drivers
  <2>2. PICK n \in Nat, l \in Nat : n = Len(Libraries) /\ l = android.library /\ l \in 1 .. n
    <3>1. Len(Libraries) \in Nat
      BY AndroidAssumption
    <3> QED
      BY <1>1, <2>1, <3>1
  <2>3. android' \in Phones /\ android'.at = "scan"
    <3>1. android' = Phone("scan", android.purpose, l + 1)
      BY <1>1, <2>1, <2>2 DEF Phone
    <3>2. l + 1 \in 1 .. Len(Libraries) + 1 /\ "scan" \in AndroidPlaces
      BY <2>2 DEF AndroidPlaces
    <3>3. android'.at = "scan"
      BY <3>1 DEF Phone
    <3> QED
      BY <1>1, <3>1, <3>2, <3>3, PhoneMade
  <2>4. Libraries[l] \in Paths
    BY <2>2, AndroidAssumption DEF Paths
  <2>5. drivers' \in Seq(Paths)
    BY <1>3, <2>1, <2>2, <2>4
  <2>6. answer.platforms = <<>>
    BY <2>1 DEF AndroidInv
  <2>7. IsPrefix(answer.platforms, drivers')
    BY <2>5, <2>6, PrefixOfAny
  <2>8. egl' = {}
    BY <1>3, <2>1 DEF EglAt
  <2> QED
    BY <1>2, <1>3, <2>1, <2>3, <2>5, <2>6, <2>7, <2>8 DEF AndroidInv, Grains
<1>9. CASE Scanned
  <2>1. android.at = "scan" /\ UNCHANGED <<egl, drivers, loaded>> /\ egl = {}
    BY <1>3, <1>9 DEF Scanned, EglAt
  <2>2. CASE drivers = <<>>
    <3>1. answer' = [answer EXCEPT !.ok = FALSE] /\ android' = Asleep
      BY <1>9, <2>2 DEF Scanned
    <3>2. answer' = AnswerOf(answer.gpu_type, answer.platforms, answer.svm, FALSE)
      BY <1>2, <3>1, Zenon DEF AnswerOf
    <3>3. FALSE \in BOOLEAN
      BY Zenon
    <3> QED
      BY <1>2, <1>3, <2>1, <3>1, <3>2, <3>3, AsleepTyped, QuestionAnswered
  <2>3. CASE drivers # <<>>
    <3>1. android' = [android EXCEPT !.at = "display"] /\ UNCHANGED answer
      BY <1>9, <2>3 DEF Scanned
    <3>2. "display" \in AndroidPlaces
      BY DEF AndroidPlaces
    <3> QED
      BY <1>4, <2>1, <3>1, <3>2, AnswerStays
  <2> QED
    BY <2>2, <2>3
<1>10. CASE EglInitialized
  <2>1. "context" \in AndroidPlaces /\ EglAt("context") = {"display"}
    BY DEF AndroidPlaces, EglAt
  <2> QED
    BY <1>4, <1>10, <2>1, AnswerStays DEF EglInitialized
<1>11. CASE EglContext
  <2>1. /\ "surface" \in AndroidPlaces /\ EglAt("surface") = {"display", "context"}
        /\ EglAt("context") = {"display"}
    BY DEF AndroidPlaces, EglAt
  <2>2. egl' \subseteq EglAt("surface")
    BY <1>3, <1>11, <2>1 DEF EglContext
  <2> QED
    BY <1>4, <1>11, <2>1, <2>2, AnswerStays DEF EglContext
<1>12. CASE EglSurface
  <2>1. /\ "current" \in AndroidPlaces /\ EglAt("surface") = {"display", "context"}
        /\ EglAt("current") = {"display", "context", "surface"}
    BY DEF AndroidPlaces, EglAt
  <2>2. egl' \subseteq EglAt("current")
    BY <1>3, <1>12, <2>1 DEF EglSurface
  <2> QED
    BY <1>4, <1>12, <2>1, <2>2, AnswerStays DEF EglSurface
<1>13. AfterGpu \in AndroidPlaces
  BY DEF AfterGpu, AndroidPlaces
<1>14. CASE detect_fails
  <2>1. PICK type, ok :
          /\ type = IF android.at = "display" THEN "unknown" ELSE answer.gpu_type
          /\ ok = (android.purpose = "platforms")
    BY Zenon
  <2>2. type \in GpuFamilies /\ ok \in BOOLEAN
    <3>1. ok \in BOOLEAN
      BY <2>1, Zenon
    <3>2. type \in GpuFamilies
      BY <1>2, <2>1 DEF GpuFamilies
    <3> QED
      BY <3>1, <3>2, Zenon
  <2>3. answer' = [answer EXCEPT !.ok = ok, !.gpu_type = type]
    BY <1>14, <2>1, Zenon DEF detect_fails
  <2>4. answer' = AnswerOf(type, answer.platforms, answer.svm, ok)
    BY <1>2, <2>3, Zenon DEF AnswerOf
  <2>5. egl' = {} /\ android.at # "idle" /\ UNCHANGED <<drivers, loaded>>
        /\ android' = [android EXCEPT !.at = AfterGpu]
    BY <1>3, <1>14 DEF detect_fails, EglAt, eglTerminate
  <2> QED
    BY <1>2, <1>3, <1>4, <1>13, <2>2, <2>4, <2>5, QuestionAnswered
<1>15. ASSUME NEW r \in Renderers, retryix_android_detect_gpu_type(r) PROVE AndroidInv'
  <2>1. PICK type, svm :
          /\ type = detect_gpu_from_renderer(r)
          /\ svm = IF android.purpose = "svm" THEN SvmSupport(type) ELSE answer.svm
    OBVIOUS
  <2>2. type \in GpuFamilies
    BY <2>1 DEF detect_gpu_from_renderer, GpuFamilies
  <2>3. svm \in SUBSET {"svm", "fine grain", "atomics"} /\ Grains(svm)
    <3>1. /\ SvmSupport(type) \in SUBSET {"svm", "fine grain", "atomics"}
          /\ Grains(SvmSupport(type))
      BY DEF SvmSupport, Grains
    <3> QED
      BY <1>2, <1>3, <2>1, <3>1
  <2>4. answer' = [answer EXCEPT !.gpu_type = type, !.svm = svm]
    BY <1>15, <2>1 DEF retryix_android_detect_gpu_type
  <2>5. answer' = AnswerOf(type, answer.platforms, svm, answer.ok)
    BY <1>2, <2>4, Zenon DEF AnswerOf
  <2>6. egl' = {} /\ android.at # "idle" /\ UNCHANGED <<drivers, loaded>>
        /\ android' = [android EXCEPT !.at = AfterGpu]
    BY <1>15 DEF retryix_android_detect_gpu_type, eglTerminate
  <2> QED
    BY <1>2, <1>4, <1>13, <2>2, <2>3, <2>5, <2>6, QuestionAnswered
<1>16. CASE ListPlatforms
  <2>1. PICK n \in Nat : n = IF Len(drivers) < MaxPlatforms THEN Len(drivers) ELSE MaxPlatforms
    BY <1>3, AndroidAssumption
  <2>2. n \in 0 .. Len(drivers) /\ n <= MaxPlatforms
    BY <1>3, <2>1, AndroidAssumption
  <2>3. PICK list : /\ list = SubSeq(drivers, 1, n)
                    /\ IsPrefix(list, drivers) /\ Len(list) = n /\ list \in Seq(Paths)
    BY <1>3, <2>2, PrefixOfAny
  <2>4. PICK ok : ok = (drivers # <<>>) /\ ok \in BOOLEAN
    BY Zenon
  <2>5. answer' = [answer EXCEPT !.ok = ok, !.platforms = list]
    BY <1>16, <2>1, <2>3, <2>4 DEF ListPlatforms
  <2>6. answer' = AnswerOf(answer.gpu_type, list, answer.svm, ok)
    BY <1>2, <2>5, Zenon DEF AnswerOf
  <2>7. answer' \in Answers
    BY <1>2, <2>3, <2>4, <2>6, AnswerMade
  <2>8. answer'.platforms = list /\ answer'.svm = answer.svm /\ answer'.ok = ok
    BY <2>6, AnswerParts
  <2>9. android.at = "list" /\ android' = Asleep /\ UNCHANGED <<egl, drivers, loaded>> /\ egl = {}
    BY <1>3, <1>16 DEF ListPlatforms, EglAt
  <2>10. list # <<>> => ok
    <3>1. drivers = <<>> => Len(drivers) = 0
      OBVIOUS
    <3>2. drivers = <<>> => n = 0
      BY <2>2, <3>1
    <3>3. n = 0 => list = <<>>
      BY <2>3
    <3>4. list # <<>> => drivers # <<>>
      BY <3>2, <3>3
    <3> QED
      BY <2>4, <3>4, Zenon
  <2>11. Grains(answer.svm)'
    BY <1>3, <2>8 DEF Grains
  <2>12. /\ IsPrefix(answer'.platforms, drivers') /\ drivers' \in Seq(Paths)
         /\ answer'.platforms # <<>> => Len(answer'.platforms) <= MaxPlatforms
    BY <1>3, <2>2, <2>3, <2>8, <2>9
  <2>13. answer'.platforms # <<>> => answer'.ok
    BY <2>8, <2>10, Zenon
  <2>14. android' \in Phones /\ android'.at = "idle" /\ egl' \subseteq EglAt("idle")
         /\ loaded' \subseteq Paths
    BY <1>3, <2>9, AsleepTyped
  <2> QED
    BY <2>7, <2>11, <2>12, <2>13, <2>14, Zenon DEF AndroidInv
<1>17. ASSUME NEW l \in ToSet(Libraries), retryix_android_load_opencl_driver(l) PROVE AndroidInv'
  <2>1. UNCHANGED <<egl, android, drivers, answer>> /\ loaded' \subseteq Paths
    BY <1>3, <1>17 DEF retryix_android_load_opencl_driver, Paths
  <2> QED
    BY <2>1 DEF AndroidInv, Grains
<1>18. CASE UNCHANGED androidVars
  BY <1>18 DEF AndroidInv, Grains, androidVars
<1> QED
  BY <1>6, <1>7, <1>8, <1>9, <1>10, <1>11, <1>12, <1>14, <1>15, <1>16, <1>17, <1>18
  DEF AndroidNext

LEMMA AndroidHolds == AndroidSpec => []AndroidInv
  BY AndroidBegins, AndroidKeeps, PTL DEF AndroidSpec

LEMMA AndroidTyped == AndroidInv => AndroidTypeOK
<1> SUFFICES ASSUME AndroidInv PROVE AndroidTypeOK
  OBVIOUS
<1>1. egl \subseteq {"display", "context", "surface"}
  BY DEF AndroidInv, EglAt
<1> QED
  BY <1>1, PhoneFields, AnswerFields DEF AndroidInv, AndroidTypeOK, Paths

LEMMA AndroidGivesBack == AndroidInv => AndroidUnwinds
<1> SUFFICES ASSUME AndroidInv PROVE AndroidUnwinds
  OBVIOUS
<1>1. android.at \in {"idle", "scan", "display", "list"} => egl = {}
  BY DEF AndroidInv, EglAt
<1> QED
  BY <1>1 DEF AndroidInv, AndroidUnwinds, Grains

-----------------------------------------------------------------------------
(***************************************************************************)
(* The blocks that the services hand out (HostBlocks).                     *)
(***************************************************************************)

Heaps == {"none", "malloc", "cl", "aligned"}

(* Services that take from malloc and keep no account. *)
PlainOwners == Bridged \cup {"transfer", "net buffer", "distributed", "topology",
                             "topology context", "domain", "android"}

Owners == PlainOwners \cup Contexts \cup {"nobody", "counted", "aligned"}

HeapTypes ==
  /\ block \in [Blocks -> [heap : Heaps, owner : Owners]]
  /\ context \in [Contexts -> [level : ClLevels \cup {"no context"},
                               allocation_count : Nat]]
  /\ \A c \in Contexts : context[c].level = "no context" => context[c] = NoContext
  /\ mem_stats \in [alloc_count : Nat, free_count : Nat]
  /\ regular \in BOOLEAN

(* The heap an owner's blocks come from, as long as everything is regular. *)
HomeHeap(o) ==
  CASE o \in Contexts -> Deallocator(o)
    [] o = "aligned" -> "aligned"
    [] o = "nobody" -> "none"
    [] o \in PlainOwners \cup {"counted"} -> "malloc"

BlockHomes ==
  \A b \in Blocks, o \in Owners :
    block[b].owner = o /\ (regular \/ o \notin Contexts) => block[b].heap = HomeHeap(o)

ContextCounts ==
  regular => /\ ~damaged
             /\ \A c \in Contexts :
                  context[c] # NoContext =>
                    context[c].allocation_count = Cardinality(Live(c))

ManagerCounts == mem_stats.alloc_count - mem_stats.free_count = Cardinality(Live("counted"))

HeapInv == HeapTypes /\ BlockHomes /\ ContextCounts /\ ManagerCounts
-----------------------------------------------------------------------------
LEMMA NoContextIs ==
  /\ NoContext.level = "no context" /\ NoContext.allocation_count = 0
  /\ NoContext \in [level : ClLevels \cup {"no context"}, allocation_count : Nat]
  BY DEF NoContext

LEMMA LiveIsFinite ==
  ASSUME NEW o
  PROVE  IsFiniteSet(Live(o)) /\ Cardinality(Live(o)) \in Nat
<1>1. Live(o) \subseteq Blocks
  BY DEF Live
<1>2. IsFiniteSet(Live(o))
  BY <1>1, BlocksAssumption, FS_Subset
<1> QED
  BY <1>2, FS_CardinalityType

(* A block that is handed out joins the live blocks of its owner. *)
LEMMA LiveHanded ==
  ASSUME HeapTypes, NEW b \in Blocks, NEW h \in Heaps, NEW o \in Owners \ {"nobody"},
         Handed(b, h, o)
  PROVE  /\ block' \in [Blocks -> [heap : Heaps, owner : Owners]]
         /\ block'[b] = [heap |-> h, owner |-> o]
         /\ \A a \in Blocks \ {b} : block'[a] = block[a]
         /\ Cardinality(Live(o)') = Cardinality(Live(o)) + 1
         /\ \A p \in Owners \ {"nobody", o} : Live(p)' = Live(p)
<1>1. /\ block' \in [Blocks -> [heap : Heaps, owner : Owners]]
      /\ block'[b] = [heap |-> h, owner |-> o]
      /\ \A a \in Blocks \ {b} : block'[a] = block[a]
      /\ block[b].owner = "nobody"
  <2> DEFINE new == [heap |-> h, owner |-> o]
  <2>1. new \in [heap : Heaps, owner : Owners]
    OBVIOUS
  <2>2. block' = [block EXCEPT ![b] = new] /\ block[b] = Unused
    BY DEF Handed
  <2>3. block[b].owner = "nobody"
    BY <2>2 DEF Unused
  <2> HIDE DEF new
  <2>4. /\ block' \in [Blocks -> [heap : Heaps, owner : Owners]]
        /\ block'[b] = new
        /\ \A a \in Blocks \ {b} : block'[a] = block[a]
    BY <2>1, <2>2 DEF HeapTypes
  <2> QED
    BY <2>3, <2>4 DEF new
<1>2. Live(o)' = Live(o) \cup {b} /\ b \notin Live(o)
  BY <1>1 DEF Live
<1>3. Cardinality(Live(o)') = Cardinality(Live(o)) + 1
  BY <1>2, LiveIsFinite, FS_AddElement
<1>4. \A p \in Owners \ {"nobody", o} : Live(p)' = Live(p)
  BY <1>1 DEF Live
<1> QED
  BY <1>1, <1>3, <1>4

(* A block that is returned leaves them. *)
LEMMA LiveReturned ==
  ASSUME HeapTypes, NEW b \in Blocks, NEW h, NEW o \in Owners \ {"nobody"},
         block[b].owner = o, Returned(b, h)
  PROVE  /\ block' \in [Blocks -> [heap : Heaps, owner : Owners]]
         /\ block'[b] = [heap |-> "none", owner |-> "nobody"]
         /\ \A a \in Blocks \ {b} : block'[a] = block[a]
         /\ Cardinality(Live(o)') = Cardinality(Live(o)) - 1
         /\ Cardinality(Live(o)) > 0
         /\ \A p \in Owners \ {"nobody", o} : Live(p)' = Live(p)
<1>1. /\ block' \in [Blocks -> [heap : Heaps, owner : Owners]]
      /\ block'[b] = [heap |-> "none", owner |-> "nobody"]
      /\ \A a \in Blocks \ {b} : block'[a] = block[a]
  BY DEF Returned, HeapTypes, Unused, Heaps, Owners
<1>3. Live(o)' = Live(o) \ {b} /\ b \in Live(o)
  BY <1>1 DEF Live
<1>4. Cardinality(Live(o)') = Cardinality(Live(o)) - 1
  <2>1. IsFiniteSet(Live(o))
    BY LiveIsFinite
  <2>2. Cardinality(Live(o) \ {b}) = Cardinality(Live(o)) - 1
    BY <1>3, <2>1, FS_RemoveElement
  <2> QED
    BY <1>3, <2>2
<1>5. Cardinality(Live(o)) > 0
  <2>1. Cardinality(Live(o)) # 0
    BY <1>3, LiveIsFinite, FS_EmptySet
  <2> QED
    BY <2>1, LiveIsFinite
<1>6. \A p \in Owners \ {"nobody", o} : Live(p)' = Live(p)
  BY <1>1 DEF Live
<1> QED
  BY <1>1, <1>4, <1>5, <1>6
-----------------------------------------------------------------------------
LEMMA OwnersAre ==
  /\ "nobody" \in Owners /\ "counted" \in Owners \ {"nobody"}
  /\ "aligned" \in Owners \ {"nobody"}
  /\ PlainOwners \subseteq Owners \ {"nobody"} /\ Contexts \subseteq Owners \ {"nobody"}
  /\ PlainOwners \cap Contexts = {} /\ "counted" \notin PlainOwners \cup Contexts
  /\ "aligned" \notin PlainOwners \cup Contexts
  /\ {"none", "malloc", "cl", "aligned"} \subseteq Heaps
  BY DEF Owners, PlainOwners, Bridged, Contexts, Heaps

(* The heap an owner's blocks come from depends on its context only. *)
LEMMA HomeIs ==
  /\ \A o \in PlainOwners \cup {"counted"} : HomeHeap(o) = "malloc" /\ HomeHeap(o)' = "malloc"
  /\ HomeHeap("aligned") = "aligned" /\ HomeHeap("aligned")' = "aligned"
  /\ HomeHeap("nobody") = "none" /\ HomeHeap("nobody")' = "none"
  /\ \A c \in Contexts : HomeHeap(c) = Deallocator(c) /\ HomeHeap(c)' = Deallocator(c)'
  BY DEF HomeHeap, Owners, PlainOwners, Bridged, Contexts

(* Where contexts keep their level, blocks keep their homes. *)
LEMMA HomeKept ==
  ASSUME NEW o \in Owners, \A c \in Contexts : context'[c].level = context[c].level
  PROVE  HomeHeap(o)' = HomeHeap(o)
<1>1. ASSUME NEW c \in Contexts PROVE HomeHeap(c)' = HomeHeap(c)
  <2>1. Grain(c)' <=> Grain(c)
    BY DEF Grain
  <2> QED
    BY <2>1, HomeIs DEF Deallocator
<1> QED
  BY <1>1, HomeIs DEF Owners

(* A change of one block is looked at for that block alone. *)
LEMMA HomesKept ==
  ASSUME HeapInv, NEW b \in Blocks,
         \A a \in Blocks \ {b} : block'[a] = block[a],
         \A c \in Contexts : context'[c].level = context[c].level,
         regular' => regular,
         \A p \in Owners :
           block'[b].owner = p /\ (regular' \/ p \notin Contexts)
             => block'[b].heap = HomeHeap(p)
  PROVE  BlockHomes'
<1> SUFFICES ASSUME NEW a \in Blocks, NEW p \in Owners, block'[a].owner = p,
                    regular' \/ p \notin Contexts
             PROVE  block'[a].heap = HomeHeap(p)'
  BY DEF BlockHomes
<1>1. HomeHeap(p)' = HomeHeap(p)
  BY HomeKept
<1>2. CASE a = b
  BY <1>1, <1>2
<1>3. CASE a # b
  <2>1. block'[a] = block[a] /\ block[a].owner = p
    BY <1>3
  <2> QED
    BY <1>1, <2>1 DEF HeapInv, BlockHomes
<1> QED
  BY <1>2, <1>3
-----------------------------------------------------------------------------
(***************************************************************************)
(* Services that only pass on malloc and free, and those that count.       *)
(***************************************************************************)
LEMMA MallocKeeps ==
  ASSUME HeapInv, NEW b \in Blocks, NEW o \in PlainOwners, Malloc(b, o)
  PROVE  HeapInv'
<1>1. /\ o \in Owners \ {"nobody"} /\ o \notin Contexts \cup {"counted"}
      /\ "malloc" \in Heaps /\ Contexts \cup {"counted"} \subseteq Owners \ {"nobody"}
  BY OwnersAre
<1>2. /\ Handed(b, "malloc", o) /\ UNCHANGED <<context, mem_stats, regular, damaged>>
  BY DEF Malloc, Handed
<1>3. /\ block' \in [Blocks -> [heap : Heaps, owner : Owners]]
      /\ block'[b] = [heap |-> "malloc", owner |-> o]
      /\ \A a \in Blocks \ {b} : block'[a] = block[a]
      /\ \A p \in Contexts \cup {"counted"} : Live(p)' = Live(p)
  BY <1>1, <1>2, LiveHanded DEF HeapInv
<1>4. HeapTypes'
  BY <1>2, <1>3 DEF HeapInv, HeapTypes
<1>5. BlockHomes'
  BY <1>2, <1>3, HomesKept, HomeIs
<1>6. ContextCounts' /\ ManagerCounts'
  BY <1>2, <1>3 DEF HeapInv, ContextCounts, ManagerCounts
<1> QED
  BY <1>4, <1>5, <1>6 DEF HeapInv

(* "api" blocks go to the plain free only while there is no context. *)
LEMMA FreeKeeps ==
  ASSUME HeapInv, NEW b \in Blocks, NEW os \in SUBSET Owners, Free(b, os),
         os \subseteq PlainOwners \/ (os = {"api"} /\ context["api"] = NoContext)
  PROVE  HeapInv'
<1>1. PICK o \in Owners \ {"nobody"} :
        /\ block[b].owner = o /\ o \in os
        /\ o \in PlainOwners \/ (o = "api" /\ context["api"] = NoContext)
  BY OwnersAre DEF Free, Contexts
<1>2. /\ Returned(b, "malloc") /\ UNCHANGED <<context, mem_stats, regular>>
      /\ damaged' = (damaged \/ block[b].heap # "malloc")
  BY DEF Free, Returned
<1>3. /\ block' \in [Blocks -> [heap : Heaps, owner : Owners]]
      /\ block'[b] = [heap |-> "none", owner |-> "nobody"]
      /\ \A a \in Blocks \ {b} : block'[a] = block[a]
      /\ \A p \in Owners \ {"nobody", o} : Live(p)' = Live(p)
  BY <1>1, <1>2, LiveReturned DEF HeapInv
<1>4. HeapTypes'
  BY <1>2, <1>3 DEF HeapInv, HeapTypes
<1>5. BlockHomes'
  BY <1>2, <1>3, HomesKept, HomeIs
<1>6. regular => block[b].heap = "malloc"
  <2>1. regular => block[b].heap = HomeHeap(o)
    BY <1>1 DEF HeapInv, BlockHomes
  <2>2. CASE o \in PlainOwners
    BY <2>1, <2>2, HomeIs
  <2>3. CASE o = "api" /\ context["api"] = NoContext
    <3>1. "api" \in Contexts
      BY DEF Contexts
    <3>2. Deallocator("api") = "malloc"
      <4>1. context["api"].level = "no context"
        BY <2>3, NoContextIs
      <4> QED
        BY <4>1 DEF Deallocator, Grain
    <3> QED
      BY <2>1, <2>3, <3>1, <3>2, HomeIs
  <2> QED
    BY <1>1, <2>2, <2>3
<1>7. Live("counted")' = Live("counted")
  BY <1>1, <1>3, OwnersAre DEF Contexts
<1>8. ASSUME NEW c \in Contexts, context[c] # NoContext PROVE Live(c)' = Live(c)
  BY <1>1, <1>3, <1>8, OwnersAre
<1>9. ContextCounts' /\ ManagerCounts'
  BY <1>2, <1>6, <1>7, <1>8 DEF HeapInv, ContextCounts, ManagerCounts
<1> QED
  BY <1>4, <1>5, <1>9 DEF HeapInv

LEMMA CountedKeeps ==
  ASSUME HeapInv, NEW b \in Blocks, retryix_mem_alloc(b) \/ retryix_mem_free(b)
  PROVE  HeapInv'
<1>1. CASE retryix_mem_alloc(b)
  <2>1. /\ Handed(b, "malloc", "counted") /\ UNCHANGED <<context, regular, damaged>>
        /\ mem_stats' = [mem_stats EXCEPT !.alloc_count = mem_stats.alloc_count + 1]
    BY <1>1 DEF retryix_mem_alloc, Handed
  <2>2. /\ block' \in [Blocks -> [heap : Heaps, owner : Owners]]
        /\ block'[b] = [heap |-> "malloc", owner |-> "counted"]
        /\ \A a \in Blocks \ {b} : block'[a] = block[a]
        /\ Cardinality(Live("counted")') = Cardinality(Live("counted")) + 1
        /\ \A c \in Contexts : Live(c)' = Live(c)
    BY <2>1, LiveHanded, OwnersAre DEF HeapInv
  <2>7. /\ mem_stats' \in [alloc_count : Nat, free_count : Nat]
        /\ mem_stats'.alloc_count = mem_stats.alloc_count + 1
        /\ mem_stats'.free_count = mem_stats.free_count
        /\ mem_stats.alloc_count \in Nat /\ mem_stats.free_count \in Nat
    <3>1. mem_stats \in [alloc_count : Nat, free_count : Nat]
      BY DEF HeapInv, HeapTypes
    <3>2. mem_stats.alloc_count \in Nat /\ mem_stats.free_count \in Nat
      BY <3>1
    <3> QED
      BY <2>1, <3>1, <3>2
  <2>3. HeapTypes'
    BY <2>1, <2>2, <2>7 DEF HeapInv, HeapTypes
  <2>4. BlockHomes'
    BY <2>1, <2>2, HomesKept, HomeIs
  <2>5. ContextCounts'
    BY <2>1, <2>2 DEF HeapInv, ContextCounts
  <2>6. ManagerCounts'
    BY <2>2, <2>7, LiveIsFinite DEF HeapInv, ManagerCounts
  <2> QED
    BY <2>3, <2>4, <2>5, <2>6 DEF HeapInv
<1>2. CASE retryix_mem_free(b)
  <2>1. /\ Returned(b, "malloc") /\ UNCHANGED <<context, regular>>
        /\ block[b].owner = "counted"
        /\ damaged' = (damaged \/ block[b].heap # "malloc")
        /\ mem_stats' = [mem_stats EXCEPT !.free_count = mem_stats.free_count + 1]
    BY <1>2 DEF retryix_mem_free, Returned
  <2>2. /\ block' \in [Blocks -> [heap : Heaps, owner : Owners]]
        /\ block'[b] = [heap |-> "none", owner |-> "nobody"]
        /\ \A a \in Blocks \ {b} : block'[a] = block[a]
        /\ Cardinality(Live("counted")') = Cardinality(Live("counted")) - 1
        /\ \A c \in Contexts : Live(c)' = Live(c)
    BY <2>1, LiveReturned, OwnersAre DEF HeapInv
  <2>8. /\ mem_stats' \in [alloc_count : Nat, free_count : Nat]
        /\ mem_stats'.free_count = mem_stats.free_count + 1
        /\ mem_stats'.alloc_count = mem_stats.alloc_count
        /\ mem_stats.free_count \in Nat /\ mem_stats.alloc_count \in Nat
    <3>1. mem_stats \in [alloc_count : Nat, free_count : Nat]
      BY DEF HeapInv, HeapTypes
    <3>2. mem_stats.alloc_count \in Nat /\ mem_stats.free_count \in Nat
      BY <3>1
    <3> QED
      BY <2>1, <3>1, <3>2
  <2>3. HeapTypes'
    BY <2>1, <2>2, <2>8 DEF HeapInv, HeapTypes
  <2>4. BlockHomes'
    BY <2>1, <2>2, HomesKept, HomeIs
  <2>5. block[b].heap = "malloc"
    BY <2>1, HomeIs, OwnersAre DEF HeapInv, BlockHomes
  <2>6. ContextCounts'
    BY <2>1, <2>2, <2>5 DEF HeapInv, ContextCounts
  <2>7. ManagerCounts'
    BY <2>2, <2>8, LiveIsFinite DEF HeapInv, ManagerCounts
  <2> QED
    BY <2>3, <2>4, <2>6, <2>7 DEF HeapInv
<1> QED
  BY <1>1, <1>2

(* Aligned blocks, and the plain free that does not tell them from others. *)
LEMMA TopologyKeeps ==
  ASSUME HeapInv, NEW b \in Blocks, retryix_svm_alloc_aligned(b) \/ topology_svm_free(b)
  PROVE  HeapInv'
<1>1. CASE retryix_svm_alloc_aligned(b)
  <2>1. /\ Handed(b, "aligned", "aligned")
        /\ UNCHANGED <<context, mem_stats, regular, damaged>>
    BY <1>1 DEF retryix_svm_alloc_aligned, Handed
  <2>2. /\ block' \in [Blocks -> [heap : Heaps, owner : Owners]]
        /\ block'[b] = [heap |-> "aligned", owner |-> "aligned"]
        /\ \A a \in Blocks \ {b} : block'[a] = block[a]
        /\ \A p \in Contexts \cup {"counted"} : Live(p)' = Live(p)
    BY <2>1, LiveHanded, OwnersAre DEF HeapInv
  <2>3. HeapTypes'
    BY <2>1, <2>2 DEF HeapInv, HeapTypes
  <2>4. BlockHomes'
    BY <2>1, <2>2, HomesKept, HomeIs
  <2>5. ContextCounts' /\ ManagerCounts'
    BY <2>1, <2>2 DEF HeapInv, ContextCounts, ManagerCounts
  <2> QED
    BY <2>3, <2>4, <2>5 DEF HeapInv
<1>2. CASE topology_svm_free(b)
  <2>1. /\ Returned(b, "malloc") /\ UNCHANGED <<context, mem_stats>>
        /\ damaged' = (damaged \/ block[b].heap # "malloc")
        /\ regular' = (regular /\ block[b].owner = "topology")
    BY <1>2 DEF topology_svm_free, Returned
  <2>2. PICK o \in Owners \ {"nobody"} :
          /\ block[b].owner = o /\ o \in {"topology", "aligned"}
          /\ o \notin Contexts \cup {"counted"}
    BY <1>2, OwnersAre DEF topology_svm_free, Contexts, PlainOwners
  <2>3. /\ block' \in [Blocks -> [heap : Heaps, owner : Owners]]
        /\ block'[b] = [heap |-> "none", owner |-> "nobody"]
        /\ \A a \in Blocks \ {b} : block'[a] = block[a]
        /\ \A p \in Contexts \cup {"counted"} : Live(p)' = Live(p)
    <3>1. HeapTypes /\ block[b].owner = o /\ Returned(b, "malloc")
      BY <2>1, <2>2 DEF HeapInv
    <3>2. /\ block' \in [Blocks -> [heap : Heaps, owner : Owners]]
          /\ block'[b] = [heap |-> "none", owner |-> "nobody"]
          /\ \A a \in Blocks \ {b} : block'[a] = block[a]
          /\ \A p \in Owners \ {"nobody", o} : Live(p)' = Live(p)
      BY <3>1, LiveReturned, Zenon
    <3>3. \A p \in Contexts \cup {"counted"} : p \in Owners \ {"nobody", o}
      BY <2>2, OwnersAre
    <3> QED
      BY <3>2, <3>3
  <2>4. HeapTypes'
    BY <2>1, <2>3 DEF HeapInv, HeapTypes
  <2>8. regular' => regular
    BY <2>1
  <2>5. BlockHomes'
    BY <2>1, <2>3, <2>8, HomesKept, HomeIs
  <2>6. regular' => block[b].heap = "malloc"
    <3>1. "topology" \in PlainOwners
      BY DEF PlainOwners
    <3> QED
      BY <2>1, <2>2, <3>1, HomeIs DEF HeapInv, BlockHomes
  <2>7. ContextCounts' /\ ManagerCounts'
    BY <2>1, <2>3, <2>6 DEF HeapInv, ContextCounts, ManagerCounts
  <2> QED
    BY <2>4, <2>5, <2>7 DEF HeapInv
<1> QED
  BY <1>1, <1>2

-----------------------------------------------------------------------------
(***************************************************************************)
(* What the SVM contexts do.                                               *)
(***************************************************************************)
LEMMA ContextOf ==
  ASSUME HeapInv, NEW c \in Contexts
  PROVE  /\ context[c].level \in ClLevels \cup {"no context"}
         /\ context[c].allocation_count \in Nat
         /\ context[c].level = "no context" <=> context[c] = NoContext
<1>1. context \in [Contexts -> [level : ClLevels \cup {"no context"},
                                 allocation_count : Nat]]
  BY DEF HeapInv, HeapTypes
<1>2. context[c] \in [level : ClLevels \cup {"no context"}, allocation_count : Nat]
  BY <1>1
<1> QED
  BY <1>2, NoContextIs DEF HeapInv, HeapTypes

LEMMA CountOfPrimed ==
  ASSUME HeapInv', NEW c \in Contexts
  PROVE  context'[c].allocation_count \in Nat
<1>1. context' \in [Contexts -> [level : ClLevels \cup {"no context"},
                                 allocation_count : Nat]]
  BY DEF HeapInv, HeapTypes
<1>2. context'[c] \in [level : ClLevels \cup {"no context"}, allocation_count : Nat]
  BY <1>1
<1> QED
  BY <1>2

(* The count of one context changes, its level does not. *)
LEMMA CountChanged ==
  ASSUME HeapInv, NEW c \in Contexts, context[c] # NoContext, NEW n \in Nat,
         context' = [context EXCEPT ![c].allocation_count = n]
  PROVE  /\ context' \in [Contexts -> [level : ClLevels \cup {"no context"},
                                       allocation_count : Nat]]
         /\ context'[c].allocation_count = n
         /\ \A d \in Contexts : context'[d].level = context[d].level
         /\ \A d \in Contexts \ {c} : context'[d] = context[d]
         /\ \A d \in Contexts : context'[d].level = "no context" => context'[d] = NoContext
         /\ context'[c] # NoContext
<1>1. context \in [Contexts -> [level : ClLevels \cup {"no context"},
                                 allocation_count : Nat]]
  BY DEF HeapInv, HeapTypes
<1>2. context[c].level # "no context"
  BY ContextOf
<1>3. /\ context' \in [Contexts -> [level : ClLevels \cup {"no context"},
                                    allocation_count : Nat]]
      /\ context'[c].allocation_count = n
      /\ context'[c].level = context[c].level
      /\ \A d \in Contexts \ {c} : context'[d] = context[d]
  BY <1>1
<1>4. context'[c] # NoContext
  BY <1>2, <1>3, NoContextIs
<1>5. \A d \in Contexts : context'[d].level = "no context" => context'[d] = NoContext
  BY <1>2, <1>3, ContextOf
<1> QED
  BY <1>3, <1>4, <1>5

LEMMA SvmAllocKeeps ==
  ASSUME HeapInv, NEW c \in Contexts, NEW b \in Blocks, NEW cl \in BOOLEAN,
         retryix_svm_alloc(c, b, cl)
  PROVE  HeapInv'
<1> DEFINE h == IF Grain(c) /\ cl THEN "cl" ELSE "malloc"
           n == context[c].allocation_count + 1
<1>1. /\ context[c] # NoContext /\ Handed(b, h, c)
      /\ context' = [context EXCEPT ![c].allocation_count = n]
      /\ regular' = (regular /\ (Grain(c) => cl))
      /\ UNCHANGED <<mem_stats, damaged>>
  BY DEF retryix_svm_alloc, Handed
<1>2. n \in Nat /\ n = context[c].allocation_count + 1
  <2>1. context[c].allocation_count \in Nat
    BY ContextOf
  <2> QED
    BY <2>1
<1> HIDE DEF n
<1>3. /\ context' \in [Contexts -> [level : ClLevels \cup {"no context"},
                                    allocation_count : Nat]]
      /\ context'[c].allocation_count = n
      /\ \A d \in Contexts : context'[d].level = context[d].level
      /\ \A d \in Contexts \ {c} : context'[d] = context[d]
      /\ \A d \in Contexts : context'[d].level = "no context" => context'[d] = NoContext
  <2>1. context[c] # NoContext /\ context' = [context EXCEPT ![c].allocation_count = n]
    BY <1>1
  <2> QED
    BY <1>2, <2>1, CountChanged
<1>4. h \in Heaps /\ c \in Owners \ {"nobody"}
  BY OwnersAre
<1>5. regular' => h = Deallocator(c)
  BY <1>1 DEF Deallocator
<1> HIDE DEF h
<1>6. /\ block' \in [Blocks -> [heap : Heaps, owner : Owners]]
      /\ block'[b] = [heap |-> h, owner |-> c]
      /\ \A a \in Blocks \ {b} : block'[a] = block[a]
      /\ Cardinality(Live(c)') = Cardinality(Live(c)) + 1
      /\ \A p \in Owners \ {"nobody", c} : Live(p)' = Live(p)
  BY <1>1, <1>4, LiveHanded DEF HeapInv
<1>7. HeapTypes'
  <2>1. regular' \in BOOLEAN
    BY <1>1
  <2> QED
    BY <1>1, <1>3, <1>6, <2>1 DEF HeapInv, HeapTypes
<1>8. regular' => regular
  BY <1>1
<1>9. BlockHomes'
  <2>1. \A p \in Owners :
          block'[b].owner = p /\ (regular' \/ p \notin Contexts) => block'[b].heap = HomeHeap(p)
    BY <1>5, <1>6, HomeIs
  <2> QED
    BY <1>3, <1>6, <1>8, <2>1, HomesKept
<1>10. ContextCounts'
  <2> SUFFICES ASSUME regular', NEW d \in Contexts, context'[d] # NoContext
               PROVE  context'[d].allocation_count = Cardinality(Live(d)')
    BY <1>1, <1>8 DEF HeapInv, ContextCounts
  <2>1. CASE d = c
    BY <1>1, <1>2, <1>3, <1>6, <1>8, <2>1 DEF HeapInv, ContextCounts
  <2>2. CASE d # c
    <3>1. Live(d)' = Live(d) /\ context'[d] = context[d]
      BY <1>3, <1>6, <2>2, OwnersAre
    <3> QED
      BY <1>8, <3>1 DEF HeapInv, ContextCounts
  <2> QED
    BY <2>1, <2>2
<1>11. ManagerCounts'
  BY <1>1, <1>6, OwnersAre DEF HeapInv, ManagerCounts
<1> QED
  BY <1>7, <1>9, <1>10, <1>11 DEF HeapInv

LEMMA SvmFreeKeeps ==
  ASSUME HeapInv, NEW c \in Contexts, NEW b \in Blocks, retryix_svm_free(c, b)
  PROVE  HeapInv'
<1> DEFINE n == IF context[c].allocation_count > 0 THEN context[c].allocation_count - 1
                ELSE 0
<1>1. /\ context[c] # NoContext /\ block[b].owner = c /\ Returned(b, Deallocator(c))
      /\ context' = [context EXCEPT ![c].allocation_count = n]
      /\ damaged' = (damaged \/ block[b].heap # Deallocator(c))
      /\ UNCHANGED <<mem_stats, regular>>
  BY DEF retryix_svm_free, Returned
<1>2. n \in Nat
  <2>1. context[c].allocation_count \in Nat
    BY ContextOf
  <2> QED
    BY <2>1
<1> HIDE DEF n
<1>3. /\ context' \in [Contexts -> [level : ClLevels \cup {"no context"},
                                    allocation_count : Nat]]
      /\ context'[c].allocation_count = n
      /\ \A d \in Contexts : context'[d].level = context[d].level
      /\ \A d \in Contexts \ {c} : context'[d] = context[d]
      /\ \A d \in Contexts : context'[d].level = "no context" => context'[d] = NoContext
  <2>1. context[c] # NoContext /\ context' = [context EXCEPT ![c].allocation_count = n]
    BY <1>1
  <2> QED
    BY <1>2, <2>1, CountChanged
<1>4. /\ block' \in [Blocks -> [heap : Heaps, owner : Owners]]
      /\ block'[b] = [heap |-> "none", owner |-> "nobody"]
      /\ \A a \in Blocks \ {b} : block'[a] = block[a]
      /\ Cardinality(Live(c)') = Cardinality(Live(c)) - 1
      /\ Cardinality(Live(c)) > 0
      /\ \A p \in Owners \ {"nobody", c} : Live(p)' = Live(p)
  BY <1>1, LiveReturned, OwnersAre DEF HeapInv
<1>5. HeapTypes'
  BY <1>1, <1>3, <1>4 DEF HeapInv, HeapTypes
<1>6. BlockHomes'
  <2>1. \A p \in Owners : block'[b].owner = p => block'[b].heap = HomeHeap(p)
    BY <1>4, HomeIs
  <2>2. /\ regular' => regular
        /\ \A p \in Owners :
             block'[b].owner = p /\ (regular' \/ p \notin Contexts)
               => block'[b].heap = HomeHeap(p)
    BY <1>1, <2>1
  <2> QED
    BY <1>3, <1>4, <2>1, <2>2, HomesKept
<1>7. regular => block[b].heap = Deallocator(c)
  BY <1>1, HomeIs, OwnersAre DEF HeapInv, BlockHomes
<1>8. ContextCounts'
  <2> SUFFICES ASSUME regular', NEW d \in Contexts, context'[d] # NoContext
               PROVE  context'[d].allocation_count = Cardinality(Live(d)')
    BY <1>1, <1>7 DEF HeapInv, ContextCounts
  <2>1. CASE d = c
    <3>1. context[c].allocation_count = Cardinality(Live(c))
      BY <1>1 DEF HeapInv, ContextCounts
    <3> QED
      BY <1>3, <1>4, <2>1, <3>1 DEF n
  <2>2. CASE d # c
    <3>1. Live(d)' = Live(d) /\ context'[d] = context[d]
      BY <1>3, <1>4, <2>2, OwnersAre
    <3> QED
      BY <1>1, <3>1 DEF HeapInv, ContextCounts
  <2> QED
    BY <2>1, <2>2
<1>9. ManagerCounts'
  BY <1>1, <1>4, OwnersAre DEF HeapInv, ManagerCounts
<1> QED
  BY <1>5, <1>6, <1>8, <1>9 DEF HeapInv

(* Quick blocks come from the context of the API, or from malloc. *)
LEMMA QuickAllocKeeps ==
  ASSUME HeapInv, NEW b \in Blocks, retryix_quick_svm_alloc(b)
  PROVE  HeapInv'
<1>1. CASE \E cl \in BOOLEAN : retryix_svm_alloc("api", b, cl)
  BY <1>1, SvmAllocKeeps DEF Contexts
<1>2. CASE /\ Handed(b, "malloc", "api")
           /\ regular' = (regular /\ context["api"] = NoContext)
           /\ UNCHANGED <<context, mem_stats>>
  <2>1. /\ "api" \in Contexts /\ UNCHANGED damaged
        /\ regular' => regular /\ context["api"] = NoContext
        /\ regular' \in BOOLEAN
    BY <1>2 DEF Contexts, Handed
  <2>2. /\ block' \in [Blocks -> [heap : Heaps, owner : Owners]]
        /\ block'[b] = [heap |-> "malloc", owner |-> "api"]
        /\ \A a \in Blocks \ {b} : block'[a] = block[a]
        /\ \A p \in Owners \ {"nobody", "api"} : Live(p)' = Live(p)
    BY <1>2, <2>1, LiveHanded, OwnersAre DEF HeapInv
  <2>3. HeapTypes'
    BY <1>2, <2>1, <2>2 DEF HeapInv, HeapTypes
  <2>4. regular' => HomeHeap("api") = "malloc"
    <3>1. context["api"] = NoContext => context["api"].level = "no context"
      BY NoContextIs
    <3> QED
      BY <2>1, <3>1, HomeIs DEF Deallocator, Grain
  <2>5. BlockHomes'
    <3>1. \A p \in Owners :
            block'[b].owner = p /\ (regular' \/ p \notin Contexts) => block'[b].heap = HomeHeap(p)
      BY <2>1, <2>2, <2>4
    <3> QED
      BY <1>2, <2>1, <2>2, <3>1, HomesKept
  <2>6. ContextCounts' /\ ManagerCounts'
    BY <1>2, <2>1, <2>2, OwnersAre DEF HeapInv, ContextCounts, ManagerCounts
  <2> QED
    BY <2>3, <2>5, <2>6 DEF HeapInv
<1> QED
  BY <1>1, <1>2 DEF retryix_quick_svm_alloc

(* A context comes or goes: it is regular only where no block is live in it. *)
LEMMA LevelKeeps ==
  ASSUME HeapInv, NEW c \in Contexts, NEW new,
         \/ new = NoContext
         \/ /\ context[c] = NoContext
            /\ new \in [level : ClLevels, allocation_count : Nat]
            /\ new.allocation_count = 0,
         context' = [context EXCEPT ![c] = new],
         Settled(c), UNCHANGED <<block, mem_stats, damaged>>
  PROVE  HeapInv'
<1>1. new \in [level : ClLevels \cup {"no context"}, allocation_count : Nat]
      /\ (new.level = "no context" => new = NoContext) /\ new.allocation_count = 0
  <2>1. CASE new = NoContext
    BY <2>1, NoContextIs
  <2>2. CASE /\ new \in [level : ClLevels, allocation_count : Nat]
             /\ new.allocation_count = 0
    <3>1. new.level \in ClLevels /\ new.level # "no context"
      BY <2>2, BlocksAssumption
    <3> QED
      BY <2>2, <3>1
  <2> QED
    BY <2>1, <2>2
<1>2. new.level = "no context" => new = NoContext
  BY <1>1
<1>3. new.allocation_count = 0
  BY <1>1
<1>4. /\ context' \in [Contexts -> [level : ClLevels \cup {"no context"},
                                    allocation_count : Nat]]
      /\ context'[c] = new
      /\ \A d \in Contexts \ {c} : context'[d] = context[d]
  BY <1>1 DEF HeapInv, HeapTypes
<1>5. /\ regular' => regular /\ Live(c) = {}
      /\ regular' \in BOOLEAN
  BY DEF Settled
<1>6. HeapTypes'
  BY <1>2, <1>4, <1>5 DEF HeapInv, HeapTypes
<1>7. \A o \in Owners : Live(o)' = Live(o)
  BY DEF Live
<1>8. BlockHomes'
  <2> SUFFICES ASSUME NEW a \in Blocks, NEW p \in Owners, block[a].owner = p,
                      regular' \/ p \notin Contexts
               PROVE  block[a].heap = HomeHeap(p)'
    BY DEF BlockHomes
  <2>1. p # c
    BY <1>5 DEF Live
  <2>2. HomeHeap(p)' = HomeHeap(p)
    <3>1. CASE p \in Contexts
      <4>1. Grain(p)' <=> Grain(p)
        BY <1>4, <2>1, <3>1 DEF Grain
      <4> QED
        BY <3>1, <4>1, HomeIs DEF Deallocator
    <3>2. CASE p \notin Contexts
      BY <3>2, HomeIs DEF Owners
    <3> QED
      BY <3>1, <3>2
  <2> QED
    BY <1>5, <2>2 DEF HeapInv, BlockHomes
<1>9. ContextCounts'
  <2> SUFFICES ASSUME regular', NEW d \in Contexts, context'[d] # NoContext
               PROVE  context'[d].allocation_count = Cardinality(Live(d)')
    BY <1>5 DEF HeapInv, ContextCounts
  <2>1. CASE d = c
    BY <1>3, <1>4, <1>5, <1>7, <2>1, OwnersAre, FS_EmptySet
  <2>2. CASE d # c
    BY <1>4, <1>5, <1>7, <2>2, OwnersAre DEF HeapInv, ContextCounts
  <2> QED
    BY <2>1, <2>2
<1>10. ManagerCounts'
  BY <1>7, OwnersAre DEF HeapInv, ManagerCounts
<1> QED
  BY <1>6, <1>8, <1>9, <1>10 DEF HeapInv

-----------------------------------------------------------------------------
LEMMA HeapBegins == HeapInit => HeapInv
<1> SUFFICES ASSUME HeapInit PROVE HeapInv
  OBVIOUS
<1>1. /\ \A b \in Blocks : block[b] = Unused
      /\ \A c \in Contexts : context[c] = NoContext
      /\ mem_stats = [alloc_count |-> 0, free_count |-> 0]
      /\ ~damaged /\ regular = TRUE
  BY DEF HeapInit
<1>2. /\ Unused \in [heap : Heaps, owner : Owners]
      /\ Unused.owner = "nobody" /\ Unused.heap = "none"
  BY OwnersAre DEF Unused
<1>3. /\ block \in [Blocks -> [heap : Heaps, owner : Owners]]
      /\ context \in [Contexts -> [level : ClLevels \cup {"no context"},
                                   allocation_count : Nat]]
  BY <1>2, NoContextIs DEF HeapInit
<1>4. HeapTypes
  BY <1>1, <1>3 DEF HeapTypes
<1>5. BlockHomes
  BY <1>1, <1>2, HomeIs DEF BlockHomes
<1>6. ContextCounts
  BY <1>1 DEF ContextCounts
<1>7. Live("counted") = {}
  BY <1>1, <1>2 DEF Live
<1>8. ManagerCounts
  BY <1>1, <1>7, FS_EmptySet DEF ManagerCounts
<1> QED
  BY <1>4, <1>5, <1>6, <1>8 DEF HeapInv

(* Every operation of every service keeps the invariant. *)
LEMMA HeapKeeps ==
  ASSUME HeapInv, [HeapNext]_heapVars
  PROVE  HeapInv'
<1>1. CASE UNCHANGED heapVars
  <2>1. \A o \in Owners : Live(o)' = Live(o) /\ HomeHeap(o)' = HomeHeap(o)
    BY <1>1, HomeKept DEF heapVars, Live
  <2> QED
    BY <1>1, <2>1, OwnersAre DEF heapVars, HeapInv, HeapTypes, BlockHomes, ContextCounts, ManagerCounts
<1>2. ASSUME NEW c \in Contexts, NEW level \in ClLevels,
             retryix_svm_create_context(c, level)
      PROVE  HeapInv'
  <2> DEFINE new == [NoContext EXCEPT !.level = level]
  <2>1. /\ context[c] = NoContext /\ Settled(c) /\ UNCHANGED <<block, mem_stats, damaged>>
        /\ context' = [context EXCEPT ![c] = new]
    <3>1. context' = [context EXCEPT ![c] = [context[c] EXCEPT !.level = level]]
      BY <1>2 DEF retryix_svm_create_context
    <3>2. context[c] = NoContext /\ Settled(c) /\ UNCHANGED <<block, mem_stats, damaged>>
      BY <1>2 DEF retryix_svm_create_context
    <3> QED
      BY <3>1, <3>2
  <2>2. new \in [level : ClLevels, allocation_count : Nat] /\ new.allocation_count = 0
    BY NoContextIs
  <2> HIDE DEF new
  <2> QED
    BY <2>1, <2>2, LevelKeeps
<1>3. CASE retryix_svm_destroy_context
  BY <1>3, LevelKeeps DEF retryix_svm_destroy_context, Contexts
<1>4. CASE retryix_api_cleanup
  BY <1>4, LevelKeeps DEF retryix_api_cleanup, Contexts
<1>5. CASE retryix_svm_discover_topology
  <2>1. UNCHANGED <<block, context, mem_stats, damaged, regular>>
    BY <1>5 DEF retryix_svm_discover_topology
  <2>2. \A o \in Owners : Live(o)' = Live(o) /\ HomeHeap(o)' = HomeHeap(o)
    BY <2>1, HomeKept DEF Live
  <2> QED
    BY <2>1, <2>2, OwnersAre DEF HeapInv, HeapTypes, BlockHomes, ContextCounts, ManagerCounts
<1>6. ASSUME NEW b \in Blocks, NEW cl \in BOOLEAN, retryix_svm_alloc("own", b, cl)
      PROVE  HeapInv'
  BY <1>6, SvmAllocKeeps DEF Contexts
<1>7. ASSUME NEW b \in Blocks, retryix_svm_free("own", b) PROVE HeapInv'
  BY <1>7, SvmFreeKeeps DEF Contexts
<1>8. ASSUME NEW b \in Blocks, retryix_quick_svm_alloc(b) PROVE HeapInv'
  BY <1>8, QuickAllocKeeps
<1>9. ASSUME NEW b \in Blocks, retryix_quick_svm_free(b) PROVE HeapInv'
  <2>1. CASE retryix_svm_free("api", b)
    BY <2>1, SvmFreeKeeps DEF Contexts
  <2>2. CASE context["api"] = NoContext /\ Free(b, {"api"})
    BY <2>2, FreeKeeps, OwnersAre DEF Contexts
  <2> QED
    BY <1>9, <2>1, <2>2 DEF retryix_quick_svm_free
<1>10. ASSUME NEW b \in Blocks, retryix_mem_alloc(b) \/ retryix_mem_free(b) PROVE HeapInv'
  BY <1>10, CountedKeeps
<1>11. ASSUME NEW b \in Blocks, ZeroCopy(b) PROVE HeapInv'
  <2>1. {"transfer", "net buffer", "distributed"} \subseteq PlainOwners
    BY DEF PlainOwners
  <2>2. CASE \E o \in {"transfer", "net buffer", "distributed"} : Malloc(b, o)
    BY <2>1, <2>2, MallocKeeps
  <2>3. CASE \E o \in {"transfer", "net buffer"} : Free(b, {o})
    BY <2>1, <2>3, FreeKeeps, OwnersAre
  <2> QED
    BY <1>11, <2>2, <2>3
       DEF ZeroCopy, retryix_zerocopy_dma_transfer_async, retryix_zerocopy_dma_wait,
           retryix_zerocopy_create_net_buffer, retryix_zerocopy_destroy_net_buffer,
           retryix_zerocopy_create_distributed_svm
<1>12. ASSUME NEW b \in Blocks, Topology(b) PROVE HeapInv'
  <2>1. {"topology", "topology context", "domain"} \subseteq PlainOwners
    BY DEF PlainOwners
  <2>2. CASE \E o \in {"topology", "topology context", "domain"} : Malloc(b, o)
    BY <2>1, <2>2, MallocKeeps
  <2>3. CASE \E o \in {"topology context", "domain"} : Free(b, {o})
    BY <2>1, <2>3, FreeKeeps, OwnersAre
  <2>4. CASE retryix_svm_alloc_aligned(b) \/ topology_svm_free(b)
    BY <2>4, TopologyKeeps
  <2> QED
    BY <1>12, <2>2, <2>3, <2>4
       DEF Topology, topology_svm_alloc, topology_create_context,
           topology_destroy_context, retryix_svm_create_memory_domain,
           retryix_svm_destroy_memory_domain
<1>13. ASSUME NEW b \in Blocks, retryix_unified_coordinate_allocation(b) PROVE HeapInv'
  BY <1>13, MallocKeeps
     DEF retryix_unified_coordinate_allocation, bridge_alloc_unified, PlainOwners
<1>14. ASSUME NEW b \in Blocks, bridge_free_unified(b) PROVE HeapInv'
  <2>1. Bridged \subseteq PlainOwners
    BY DEF PlainOwners
  <2> QED
    BY <1>14, <2>1, FreeKeeps, OwnersAre DEF bridge_free_unified
<1>15. ASSUME NEW b \in Blocks, retryix_android_svm_alloc(b) PROVE HeapInv'
  BY <1>15, MallocKeeps DEF retryix_android_svm_alloc, PlainOwners
<1>16. ASSUME NEW b \in Blocks, retryix_android_svm_free(b) PROVE HeapInv'
  <2>1. "android" \in PlainOwners
    BY DEF PlainOwners
  <2> QED
    BY <1>16, <2>1, FreeKeeps, OwnersAre DEF retryix_android_svm_free
<1> QED
  BY <1>1, <1>2, <1>3, <1>4, <1>5, <1>6, <1>7, <1>8, <1>9, <1>10, <1>11, <1>12, <1>13,
     <1>14, <1>15, <1>16 DEF HeapNext

(***************************************************************************)
(* The inductive invariant holds in every reachable state: a block is of   *)
(* the heap that its owner would give it back to, unless the history is    *)
(* irregular and the owner an SVM context.                                 *)
(***************************************************************************)
THEOREM HeapHolds == HeapSpec => []HeapInv
  BY HeapBegins, HeapKeeps, PTL DEF HeapSpec

-----------------------------------------------------------------------------
(***************************************************************************)
(* The counters are bounded in irregular histories too: no context counts  *)
(* more blocks than are live in it.                                        *)
(***************************************************************************)
ContextBounds ==
  \A c \in Contexts : context[c].allocation_count <= Cardinality(Live(c))

HeapBounds ==
  ContextBounds /\ mem_stats.alloc_count <= MaxAllocs /\ topology \in BOOLEAN

(* A block joins its owner, whose context may count it. *)
LEMMA BoundHanded ==
  ASSUME HeapInv, HeapInv', ContextBounds, NEW b \in Blocks, NEW h \in Heaps,
         NEW o \in Owners \ {"nobody"}, Handed(b, h, o),
         \A c \in Contexts :
           \/ context'[c].allocation_count = context[c].allocation_count
           \/ /\ c = o
              /\ context'[c].allocation_count = context[c].allocation_count + 1
  PROVE  ContextBounds'
<1> SUFFICES ASSUME NEW c \in Contexts
             PROVE  context'[c].allocation_count <= Cardinality(Live(c)')
  BY DEF ContextBounds
<1>1. /\ Cardinality(Live(o)') = Cardinality(Live(o)) + 1
      /\ c # o => Live(c)' = Live(c)
  BY LiveHanded, OwnersAre DEF HeapInv
<1>2. /\ context[c].allocation_count \in Nat
      /\ context[c].allocation_count <= Cardinality(Live(c))
      /\ Cardinality(Live(c)) \in Nat
  BY ContextOf, LiveIsFinite DEF ContextBounds
<1>3. context'[c].allocation_count \in Nat
  BY CountOfPrimed
<1>4. CASE c = o
  BY <1>1, <1>2, <1>3, <1>4
<1>5. CASE c # o
  BY <1>1, <1>2, <1>3, <1>5
<1> QED
  BY <1>4, <1>5

(* A block leaves its owner, whose context, if it counts any, counts one less. *)
LEMMA BoundReturned ==
  ASSUME HeapInv, HeapInv', ContextBounds, NEW b \in Blocks, NEW h,
         NEW o \in Owners \ {"nobody"}, block[b].owner = o, Returned(b, h),
         \A c \in Contexts :
           \/ context'[c].allocation_count = 0
           \/ /\ c # o
              /\ context'[c].allocation_count = context[c].allocation_count
           \/ context'[c].allocation_count = context[c].allocation_count - 1
  PROVE  ContextBounds'
<1> SUFFICES ASSUME NEW c \in Contexts
             PROVE  context'[c].allocation_count <= Cardinality(Live(c)')
  BY DEF ContextBounds
<1>1. /\ Cardinality(Live(o)') = Cardinality(Live(o)) - 1
      /\ Cardinality(Live(o)) > 0
      /\ c # o => Live(c)' = Live(c)
  BY LiveReturned, OwnersAre DEF HeapInv
<1>2. /\ context[c].allocation_count \in Nat
      /\ context[c].allocation_count <= Cardinality(Live(c))
      /\ Cardinality(Live(c)) \in Nat
  BY ContextOf, LiveIsFinite DEF ContextBounds
<1>3. context'[c].allocation_count \in Nat
  BY CountOfPrimed
<1>4. CASE c = o
  BY <1>1, <1>2, <1>3, <1>4
<1>5. CASE c # o
  BY <1>1, <1>2, <1>3, <1>5
<1> QED
  BY <1>4, <1>5

(* Blocks stay; a context keeps its count or starts anew. *)
LEMMA BoundReset ==
  ASSUME HeapInv, ContextBounds, UNCHANGED block,
         \A c \in Contexts : \/ context'[c].allocation_count = 0
                              \/ context'[c] = context[c]
  PROVE  ContextBounds'
<1> SUFFICES ASSUME NEW c \in Contexts
             PROVE  context'[c].allocation_count <= Cardinality(Live(c)')
  BY DEF ContextBounds
<1>1. Live(c)' = Live(c)
  BY DEF Live
<1>2. Cardinality(Live(c)) \in Nat /\ Cardinality(Live(c)) >= 0
  BY LiveIsFinite
<1> QED
  BY <1>1, <1>2 DEF ContextBounds

LEMMA SvmBounds ==
  ASSUME HeapInv, HeapInv', ContextBounds, NEW c \in Contexts, NEW b \in Blocks,
         \/ \E cl \in BOOLEAN : retryix_svm_alloc(c, b, cl)
         \/ retryix_svm_free(c, b)
  PROVE  ContextBounds'
<1>1. /\ context \in [Contexts -> [level : ClLevels \cup {"no context"},
                                    allocation_count : Nat]]
      /\ \A d \in Contexts : context[d].allocation_count \in Nat
      /\ c \in Owners \ {"nobody"}
  BY OwnersAre, ContextOf DEF HeapInv, HeapTypes
<1>2. ASSUME NEW cl \in BOOLEAN, retryix_svm_alloc(c, b, cl) PROVE ContextBounds'
  <2> DEFINE h == IF Grain(c) /\ cl THEN "cl" ELSE "malloc"
  <2>1. /\ Handed(b, h, c) /\ h \in Heaps
        /\ context' = [context EXCEPT ![c].allocation_count
                          = context[c].allocation_count + 1]
    BY <1>2, OwnersAre DEF retryix_svm_alloc
  <2> HIDE DEF h
  <2>2. \A d \in Contexts :
          \/ context'[d].allocation_count = context[d].allocation_count
          \/ /\ d = c
             /\ context'[d].allocation_count = context[d].allocation_count + 1
    BY <1>1, <2>1
  <2> QED
    BY <1>1, <2>1, <2>2, BoundHanded
<1>3. CASE retryix_svm_free(c, b)
  <2> DEFINE n == IF context[c].allocation_count > 0
                  THEN context[c].allocation_count - 1 ELSE 0
  <2>1. /\ Returned(b, Deallocator(c)) /\ block[b].owner = c
        /\ context' = [context EXCEPT ![c].allocation_count = n]
    BY <1>3 DEF retryix_svm_free
  <2>2. n = 0 \/ n = context[c].allocation_count - 1
    OBVIOUS
  <2> HIDE DEF n
  <2>3. \A d \in Contexts :
          \/ context'[d].allocation_count = 0
          \/ d # c /\ context'[d].allocation_count = context[d].allocation_count
          \/ context'[d].allocation_count = context[d].allocation_count - 1
    BY <1>1, <2>1, <2>2
  <2> QED
    BY <1>1, <2>1, <2>3, BoundReturned
<1> QED
  BY <1>2, <1>3

LEMMA OthersBounds ==
  ASSUME HeapInv, HeapInv', ContextBounds, UNCHANGED context, NEW b \in Blocks,
         \/ \E h \in Heaps, o \in Owners \ {"nobody"} : Handed(b, h, o)
         \/ \E h : \E o \in Owners \ {"nobody"} :
              /\ block[b].owner = o /\ Returned(b, h)
              /\ o \in Contexts => context[o] = NoContext
  PROVE  ContextBounds'
<1>1. CASE \E h \in Heaps, o \in Owners \ {"nobody"} : Handed(b, h, o)
  BY <1>1, BoundHanded
<1>2. ASSUME NEW h, NEW o \in Owners \ {"nobody"}, block[b].owner = o, Returned(b, h),
             o \in Contexts => context[o] = NoContext
      PROVE  ContextBounds'
  <2>1. \A c \in Contexts : c # o \/ context'[c].allocation_count = 0
    BY <1>2, NoContextIs
  <2> QED
    BY <1>2, <2>1, BoundReturned
<1> QED
  BY <1>1, <1>2

(* Every step keeps the bounds. *)
LEMMA BoundsKeep ==
  ASSUME HeapInv, HeapInv', HeapBounds, [HeapNext]_heapVars
  PROVE  HeapBounds'
<1> USE DEF HeapBounds
<1>1. CASE UNCHANGED heapVars
  BY <1>1, BoundReset DEF heapVars
<1>2. ASSUME NEW c \in Contexts, NEW level \in ClLevels,
             retryix_svm_create_context(c, level)
      PROVE  HeapBounds'
  <2>1. /\ context[c] = NoContext /\ UNCHANGED <<block, mem_stats, topology>>
        /\ context' = [context EXCEPT ![c].level = level]
    BY <1>2 DEF retryix_svm_create_context
  <2>2. context \in [Contexts -> [level : ClLevels \cup {"no context"},
                                  allocation_count : Nat]]
    BY DEF HeapInv, HeapTypes
  <2>3. \A d \in Contexts : context'[d].allocation_count = 0 \/ context'[d] = context[d]
    BY <2>1, <2>2, NoContextIs
  <2> QED
    BY <2>1, <2>3, BoundReset
<1>3. CASE retryix_svm_destroy_context \/ retryix_api_cleanup
  <2>1. PICK c \in Contexts : context' = [context EXCEPT ![c] = NoContext]
    BY <1>3 DEF retryix_svm_destroy_context, retryix_api_cleanup, Contexts
  <2>2. UNCHANGED <<block, mem_stats, topology>>
    BY <1>3 DEF retryix_svm_destroy_context, retryix_api_cleanup
  <2>3. context \in [Contexts -> [level : ClLevels \cup {"no context"},
                                  allocation_count : Nat]]
    BY DEF HeapInv, HeapTypes
  <2>4. \A d \in Contexts : context'[d].allocation_count = 0 \/ context'[d] = context[d]
    BY <2>1, <2>3, NoContextIs
  <2> QED
    BY <2>2, <2>4, BoundReset
<1>4. CASE retryix_svm_discover_topology
  BY <1>4, BoundReset DEF retryix_svm_discover_topology
<1>5. ASSUME NEW b \in Blocks, NEW c \in Contexts,
             \/ \E cl \in BOOLEAN : retryix_svm_alloc(c, b, cl)
             \/ retryix_svm_free(c, b)
      PROVE  HeapBounds'
  <2>1. UNCHANGED <<mem_stats, topology>>
    BY <1>5 DEF retryix_svm_alloc, retryix_svm_free, Handed, Returned
  <2>2. ContextBounds'
    BY <1>5, SvmBounds
  <2> QED
    BY <2>1, <2>2
<1>6. ASSUME NEW b \in Blocks, NEW o \in Owners \ {"nobody"}, Handed(b, "malloc", o),
             UNCHANGED <<context, mem_stats>>
      PROVE  HeapBounds'
  <2>1. ContextBounds'
    BY <1>6, OthersBounds, OwnersAre
  <2> QED
    BY <1>6, <2>1 DEF Handed
<1>7. ASSUME NEW b \in Blocks, NEW os \in SUBSET (Owners \ {"nobody"}), Free(b, os),
             "api" \in os => context["api"] = NoContext, "own" \notin os
      PROVE  HeapBounds'
  <2>1. /\ block[b].owner \in os /\ Returned(b, "malloc")
        /\ UNCHANGED <<context, mem_stats, topology>>
    BY <1>7 DEF Free, Returned
  <2>2. ContextBounds'
    BY <1>7, <2>1, OthersBounds DEF Contexts
  <2> QED
    BY <2>1, <2>2
<1>8. ASSUME NEW b \in Blocks, retryix_mem_alloc(b) PROVE HeapBounds'
  <2>1. /\ Handed(b, "malloc", "counted") /\ mem_stats.alloc_count < MaxAllocs
        /\ UNCHANGED <<context, topology>>
        /\ mem_stats' = [mem_stats EXCEPT !.alloc_count = mem_stats.alloc_count + 1]
    BY <1>8 DEF retryix_mem_alloc, Handed
  <2>2. ContextBounds'
    BY <2>1, OthersBounds, OwnersAre
  <2>3. mem_stats \in [alloc_count : Nat, free_count : Nat] /\ MaxAllocs \in Nat
    BY BlocksAssumption DEF HeapInv, HeapTypes
  <2>4. mem_stats.alloc_count \in Nat
    BY <2>3
  <2>5. mem_stats'.alloc_count = mem_stats.alloc_count + 1
    BY <2>1, <2>3
  <2>6. mem_stats'.alloc_count <= MaxAllocs
    BY <2>1, <2>3, <2>4, <2>5
  <2> QED
    BY <2>1, <2>2, <2>6
<1>9. ASSUME NEW b \in Blocks, retryix_mem_free(b) PROVE HeapBounds'
  <2>1. /\ Returned(b, "malloc") /\ block[b].owner = "counted"
        /\ UNCHANGED <<context, topology>>
        /\ mem_stats' = [mem_stats EXCEPT !.free_count = mem_stats.free_count + 1]
    BY <1>9 DEF retryix_mem_free, Returned
  <2>2. ContextBounds'
    BY <2>1, OthersBounds, OwnersAre
  <2>3. mem_stats \in [alloc_count : Nat, free_count : Nat]
    BY DEF HeapInv, HeapTypes
  <2>4. mem_stats'.alloc_count = mem_stats.alloc_count
    BY <2>1, <2>3
  <2> QED
    BY <2>1, <2>2, <2>4
<1>10. ASSUME NEW b \in Blocks, retryix_svm_alloc_aligned(b) PROVE HeapBounds'
  <2>1. Handed(b, "aligned", "aligned") /\ UNCHANGED <<context, mem_stats, topology>>
    BY <1>10 DEF retryix_svm_alloc_aligned, Handed
  <2>2. ContextBounds'
    BY <2>1, OthersBounds, OwnersAre
  <2> QED
    BY <2>1, <2>2
<1>11. ASSUME NEW b \in Blocks, topology_svm_free(b) PROVE HeapBounds'
  <2>1. /\ Returned(b, "malloc") /\ block[b].owner \in {"topology", "aligned"}
        /\ UNCHANGED <<context, mem_stats, topology>>
    BY <1>11 DEF topology_svm_free, Returned
  <2>2. {"topology", "aligned"} \subseteq Owners \ {"nobody"}
        /\ {"topology", "aligned"} \cap Contexts = {}
    BY OwnersAre DEF PlainOwners, Contexts
  <2>3. ContextBounds'
    BY <2>1, <2>2, OthersBounds
  <2> QED
    BY <2>1, <2>3
<1>12. ASSUME NEW b \in Blocks, retryix_quick_svm_alloc(b) PROVE HeapBounds'
  <2>1. "api" \in Contexts /\ "api" \in Owners \ {"nobody"}
    BY OwnersAre DEF Contexts
  <2> QED
    BY <1>5, <1>6, <1>12, <2>1 DEF retryix_quick_svm_alloc
<1>13. ASSUME NEW b \in Blocks, retryix_quick_svm_free(b) PROVE HeapBounds'
  <2>1. "api" \in Contexts /\ {"api"} \in SUBSET (Owners \ {"nobody"})
        /\ "own" \notin {"api"}
    BY OwnersAre DEF Contexts
  <2> QED
    BY <1>5, <1>7, <1>13, <2>1 DEF retryix_quick_svm_free
<1>14. ASSUME NEW b \in Blocks, NEW o \in PlainOwners, Malloc(b, o) PROVE HeapBounds'
  BY <1>6, <1>14, OwnersAre DEF Malloc
<1>15. ASSUME NEW b \in Blocks, NEW os \in SUBSET PlainOwners, Free(b, os) PROVE HeapBounds'
  BY <1>7, <1>15, OwnersAre DEF Contexts
<1>16. /\ \A o \in {"transfer", "net buffer", "distributed", "topology",
                     "topology context", "domain", "android"} :
             o \in PlainOwners /\ {o} \in SUBSET PlainOwners
       /\ Bridged \in SUBSET PlainOwners
  BY DEF PlainOwners
<1>17. ASSUME NEW b \in Blocks, ZeroCopy(b) PROVE HeapBounds'
  BY <1>14, <1>15, <1>16, <1>17
     DEF ZeroCopy, retryix_zerocopy_dma_transfer_async, retryix_zerocopy_dma_wait,
         retryix_zerocopy_create_net_buffer, retryix_zerocopy_destroy_net_buffer,
         retryix_zerocopy_create_distributed_svm
<1>18. ASSUME NEW b \in Blocks, Topology(b) PROVE HeapBounds'
  BY <1>10, <1>11, <1>14, <1>15, <1>16, <1>18
     DEF Topology, topology_svm_alloc, topology_create_context,
         topology_destroy_context, retryix_svm_create_memory_domain,
         retryix_svm_destroy_memory_domain
<1>19. ASSUME NEW b \in Blocks,
              \/ retryix_unified_coordinate_allocation(b) \/ bridge_free_unified(b)
              \/ retryix_android_svm_alloc(b) \/ retryix_android_svm_free(b)
       PROVE  HeapBounds'
  BY <1>14, <1>15, <1>16, <1>19
     DEF retryix_unified_coordinate_allocation, bridge_alloc_unified,
         bridge_free_unified, retryix_android_svm_alloc, retryix_android_svm_free
<1>20. "own" \in Contexts
  BY DEF Contexts
<1> HIDE DEF HeapBounds
<1> QED
  BY <1>1, <1>2, <1>3, <1>4, <1>5, <1>8, <1>9, <1>12, <1>13, <1>17, <1>18, <1>19, <1>20
  DEF HeapNext

LEMMA BoundsHold == HeapSpec => []HeapBounds
<1>1. HeapInit => HeapBounds
  <2> SUFFICES ASSUME HeapInit PROVE HeapBounds
    OBVIOUS
  <2>1. \A c \in Contexts : context[c].allocation_count = 0
    BY NoContextIs DEF HeapInit
  <2>2. \A c \in Contexts : Cardinality(Live(c)) \in Nat
    BY LiveIsFinite
  <2>3. mem_stats.alloc_count = 0 /\ topology \in BOOLEAN /\ MaxAllocs \in Nat
    BY BlocksAssumption DEF HeapInit
  <2> QED
    BY <2>1, <2>2, <2>3 DEF HeapBounds, ContextBounds
<1>2. HeapInv /\ HeapInv' /\ HeapBounds /\ [HeapNext]_heapVars => HeapBounds'
  BY BoundsKeep
<1> QED
  BY <1>1, <1>2, HeapHolds, PTL DEF HeapSpec

LEMMA HeapTyped ==
  ASSUME HeapInv, HeapBounds
  PROVE  HeapTypeOK
<1>1. \A b \in Blocks : block[b].heap \in {"none", "malloc", "cl", "aligned"}
  <2>1. \A b \in Blocks : block[b] \in [heap : Heaps, owner : Owners]
    BY DEF HeapInv, HeapTypes
  <2> QED
    BY <2>1 DEF Heaps
<1>2. \A c \in Contexts : Cardinality(Live(c)) <= Cardinality(Blocks)
  <2>1. \A c : Live(c) \subseteq Blocks
    BY DEF Live
  <2> QED
    BY <2>1, BlocksAssumption, FS_Subset
<1>3. \A c \in Contexts : /\ context[c].level \in {"no context"} \cup ClLevels
                          /\ context[c].allocation_count \in 0 .. Cardinality(Blocks)
  <2> SUFFICES ASSUME NEW c \in Contexts
               PROVE  /\ context[c].level \in {"no context"} \cup ClLevels
                      /\ context[c].allocation_count \in 0 .. Cardinality(Blocks)
    OBVIOUS
  <2>1. /\ context[c].level \in ClLevels \cup {"no context"}
        /\ context[c].allocation_count \in Nat
        /\ Cardinality(Live(c)) \in Nat /\ Cardinality(Blocks) \in Nat
    BY ContextOf, LiveIsFinite, BlocksAssumption, FS_CardinalityType
  <2>2. context[c].allocation_count <= Cardinality(Live(c))
    BY DEF HeapBounds, ContextBounds
  <2>3. Cardinality(Live(c)) <= Cardinality(Blocks)
    BY <1>2
  <2>4. \A n, l, m \in Nat : n <= l /\ l <= m => n \in 0 .. m
    OBVIOUS
  <2>5. context[c].allocation_count \in 0 .. Cardinality(Blocks)
    BY <2>1, <2>2, <2>3, <2>4, Zenon
  <2> QED
    BY <2>1, <2>5
<1>4. mem_stats.alloc_count \in 0 .. MaxAllocs
  <2>1. mem_stats \in [alloc_count : Nat, free_count : Nat]
    BY DEF HeapInv, HeapTypes
  <2>2. mem_stats.alloc_count \in Nat
    BY <2>1
  <2>3. mem_stats.alloc_count <= MaxAllocs /\ MaxAllocs \in Nat
    BY BlocksAssumption DEF HeapBounds
  <2> QED
    BY <2>2, <2>3
<1> QED
  BY <1>1, <1>3, <1>4 DEF HeapTypeOK, HeapBounds

(***************************************************************************)
(* For any finite set of blocks: while no SVM allocation fell back to      *)
(* malloc, no context came or went under live blocks and no aligned block  *)
(* was given to the plain free, every block goes back to the heap it came  *)
(* from and contexts count their live blocks; and the simple manager       *)
(* reports a leak exactly when one of its blocks is live.                  *)
(***************************************************************************)
THEOREM BlocksGoHome == HeapSpec => []HeapConsistent
<1>1. HeapInv => HeapConsistent
  <2> SUFFICES ASSUME HeapInv PROVE HeapConsistent
    OBVIOUS
  <2>1. mem_stats.alloc_count \in Nat /\ mem_stats.free_count \in Nat
    <3>1. mem_stats \in [alloc_count : Nat, free_count : Nat]
      BY DEF HeapInv, HeapTypes
    <3> QED
      BY <3>1
  <2>2. Cardinality(Live("counted")) = 0 <=> Live("counted") = {}
    BY LiveIsFinite, FS_EmptySet
  <2>3. retryix_memory_validate <=> Live("counted") = {}
    BY <2>1, <2>2 DEF HeapInv, ManagerCounts, retryix_memory_validate
  <2> QED
    BY <2>3 DEF HeapInv, ContextCounts, ManagerCounts, HeapConsistent
<1> QED
  BY <1>1, HeapHolds, PTL

-----------------------------------------------------------------------------
(***************************************************************************)
(* Scalar atomics (ScalarAtomics).                                         *)
(***************************************************************************)

(* The powers of two exist and are positive. *)
LEMMA PowersAre ==
  /\ Power \in [0 .. WordBits -> Nat \ {0}]
  /\ Power[0] = 1
  /\ \A i \in 1 .. WordBits : Power[i] = 2 * Power[i - 1]
<1> DEFINE P == Nat \ {0}
           double == [k \in 1 .. WordBits |-> [x \in P |-> 2 * x]]
           Step(g) == [i \in 0 .. WordBits |-> IF i = 0 THEN 1 ELSE 2 * g[i - 1]]
<1>1. WordBits \in Nat /\ 1 \in P /\ double \in [1 .. WordBits -> [P -> P]]
  BY WordAssumption
<1>2. \A k \in 1 .. WordBits, x \in P : double[k][x] = 2 * x
  OBVIOUS
<1>3. PICK f : Recurs(f, WordBits, P, 1, double)
  <2> HIDE DEF P, double
  <2> QED
    BY <1>1, Recursion
<1>4. /\ f \in [0 .. WordBits -> P]
      /\ f[0] = 1
      /\ \A k \in 1 .. WordBits : f[k] = 2 * f[k - 1]
  <2>1. \A k \in 1 .. WordBits : f[k - 1] \in P
    BY <1>1, <1>3 DEF Recurs
  <2> HIDE DEF P, double
  <2> QED
    BY <1>2, <1>3, <2>1 DEF Recurs
<1>5. f = Step(f)
  <2>1. \A n \in 0 .. WordBits : f[n] = IF n = 0 THEN 1 ELSE 2 * f[n - 1]
    BY <1>1, <1>4
  <2> HIDE DEF P
  <2> QED
    BY <1>4, <2>1
<1>6. Power = Step(Power)
  <2>1. Power = CHOOSE g : g = Step(g)
    BY DEF Power
  <2> HIDE DEF Step
  <2> QED
    BY <1>5, <2>1
<1>7. /\ Power[0] = 1
      /\ \A n \in 1 .. WordBits : Power[n] = 2 * Power[n - 1]
      /\ Power = [n \in 0 .. WordBits |-> Power[n]]
  BY <1>1, <1>6
<1>8. \A n \in 0 .. WordBits : Power[n] \in P
  <2> DEFINE V == {n \in 0 .. WordBits : Power[n] \in P}
  <2>1. 0 \in V
    BY <1>1, <1>7
  <2>2. ASSUME NEW n \in 0 .. WordBits, n \in V, n < WordBits PROVE n + 1 \in V
    <3>1. PICK m \in 1 .. WordBits : m = n + 1 /\ m - 1 = n
      BY <2>2, <1>1
    <3>2. Power[m] = 2 * Power[m - 1]
      BY <1>7
    <3>3. Power[m] \in P
      BY <2>2, <3>1, <3>2
    <3> QED
      BY <1>1, <3>1, <3>3
  <2> HIDE DEF V
  <2>3. 0 .. WordBits \subseteq V
    BY <1>1, <2>1, <2>2, UpTo
  <2> QED
    BY <2>3 DEF V
<1> QED
  BY <1>7, <1>8

LEMMA BitsAre ==
  ASSUME NEW w \in Words, NEW i \in 1 .. WordBits
  PROVE  Bit(w, i) \in 0 .. 1
<1>1. PICK p \in Nat \ {0} : p = Power[i - 1]
  BY PowersAre, WordAssumption
<1>2. w \in Int
  BY PowersAre, WordAssumption DEF Words
<1>3. w \div p \in Int
  BY <1>1, <1>2, DivisionWithRest
<1>4. PICK q \in Int : q = w \div p
  BY <1>3
<1>5. q % 2 \in 0 .. 1
  OBVIOUS
<1> QED
  BY <1>1, <1>4, <1>5 DEF Bit

(* Bits that are combined make a word again. *)
LEMMA BitwiseIsWord ==
  ASSUME NEW op \in {"and", "or", "xor"}, NEW old \in Words, NEW value \in Words
  PROVE  Bitwise(op, old, value) \in Words
<1> DEFINE s == [i \in 1 .. WordBits |-> BitOf(op, Bit(old, i), Bit(value, i)) * Power[i - 1]]
<1>1. ASSUME NEW i \in 1 .. WordBits
      PROVE  s[i] \in 0 .. Power[i - 1] /\ Power[i - 1] \in Nat /\ Power[i] = 2 * Power[i - 1]
  <2>1. PICK x \in 0 .. 1, y \in 0 .. 1 : x = Bit(old, i) /\ y = Bit(value, i)
    BY BitsAre
  <2>2. BitOf(op, x, y) \in 0 .. 1
    <3>1. (x = 0 \/ x = 1) /\ (y = 0 \/ y = 1)
      OBVIOUS
    <3>2. CASE op = "and"
      BY <3>1, <3>2 DEF BitOf
    <3>3. CASE op = "or"
      BY <3>1, <3>3 DEF BitOf
    <3>4. CASE op = "xor"
      BY <3>1, <3>4 DEF BitOf
    <3> QED
      BY <3>2, <3>3, <3>4
  <2>3. PICK b \in 0 .. 1 : b = BitOf(op, Bit(old, i), Bit(value, i))
    BY <2>1, <2>2
  <2>4. PICK p \in Nat : p = Power[i - 1]
    BY PowersAre, WordAssumption
  <2>5. s[i] = b * p
    BY <2>3, <2>4
  <2>6. b * p \in 0 .. p
    <3>1. b = 0 \/ b = 1
      OBVIOUS
    <3> QED
      BY <3>1
  <2> QED
    BY <2>4, <2>5, <2>6, PowersAre
<1>2. s \in Seq(Int) /\ Len(s) = WordBits
  <2>1. s \in [1 .. WordBits -> Int]
    <3>1. \A i \in 1 .. WordBits : s[i] \in Int
      BY <1>1
    <3> QED
      BY <3>1
  <2> HIDE DEF s
  <2> QED
    BY <2>1, WordAssumption
<1> HIDE DEF s
<1> DEFINE h == Sums(s)
           V == {n \in 0 .. WordBits : h[n] \in Nat /\ h[n] < Power[n]}
<1>3. /\ h[0] = 0
      /\ \A n \in 1 .. WordBits : h[n] = h[n - 1] + s[n]
  BY <1>2, SumsAre
<1> HIDE DEF h
<1>4. 0 \in V
  BY <1>3, PowersAre, WordAssumption
<1>5. ASSUME NEW n \in 0 .. WordBits, n \in V, n < WordBits PROVE n + 1 \in V
  <2>1. PICK m \in 1 .. WordBits : m = n + 1 /\ m - 1 = n
    BY <1>5, WordAssumption
  <2>2. h[m] = h[m - 1] + s[m] /\ h[m - 1] \in Nat /\ h[m - 1] < Power[m - 1]
    BY <1>3, <1>5, <2>1
  <2>3. s[m] \in 0 .. Power[m - 1] /\ Power[m - 1] \in Nat /\ Power[m] = 2 * Power[m - 1]
    BY <1>1
  <2>4. h[m] \in Nat /\ h[m] < Power[m]
    BY <2>2, <2>3
  <2> QED
    BY <2>1, <2>4, WordAssumption
<1> HIDE DEF V
<1>6. 0 .. WordBits \subseteq V
  BY <1>4, <1>5, WordAssumption, UpTo
<1>7. WordBits \in V
  BY <1>6, WordAssumption
<1>8. h[WordBits] \in Nat /\ h[WordBits] < Power[WordBits] /\ Power[WordBits] \in Nat
  BY <1>7, PowersAre, WordAssumption DEF V
<1>9. Bitwise(op, old, value) = h[WordBits]
  BY <1>2 DEF Bitwise, SeqSum, h, s
<1> QED
  BY <1>8, <1>9 DEF Words

LEMMA ModuloIsWord ==
  ASSUME NEW n \in Int
  PROVE  Modulo(n) \in Words
<1>1. PICK p \in Nat \ {0} : p = Power[WordBits]
  BY PowersAre, WordAssumption
<1>2. n % p \in 0 .. p - 1
  BY DivisionWithRest
<1>3. Modulo(n) = n % p /\ Words = 0 .. p - 1
  BY <1>1, Zenon DEF Modulo, Words
<1> QED
  BY <1>2, <1>3

LEMMA WordsAreNumbers == 0 \in Words /\ Words \subseteq Int
  BY PowersAre, WordAssumption DEF Words

Operations == {"exchange", "add", "sub", "and", "or", "xor", "min"}

LEMMA ResultIsWord ==
  ASSUME NEW op \in Operations, NEW old \in Words, NEW value \in Words
  PROVE  Result(op, old, value) \in Words
<1>1. old + value \in Int /\ old - value \in Int
  BY WordsAreNumbers
<1>2. Modulo(old + value) \in Words /\ Modulo(old - value) \in Words
  BY <1>1, ModuloIsWord
<1>3. op \in {"and", "or", "xor"} => Bitwise(op, old, value) \in Words
  BY BitwiseIsWord
<1> QED
  BY <1>2, <1>3 DEF Result, Operations

(* A thread in a loop has an operation. *)
AtomicInv ==
  /\ AtomicTypeOK
  /\ \A t \in AtomicThreads : attempt[t].at # "idle" => attempt[t].op # "none"

LEMMA AtomicBegins == AtomicInit => AtomicInv
  BY WordsAreNumbers DEF AtomicInit, AtomicInv, AtomicTypeOK, NoAttempt

LEMMA FetchKeeps ==
  ASSUME AtomicInv, NEW t \in AtomicThreads, NEW op \in Operations, NEW value \in Words,
         Fetch(t, op, value)
  PROVE  AtomicInv'
<1>1. word \in Words
  BY DEF AtomicInv, AtomicTypeOK
<1>2. word' \in Words /\ previous' \in Words
  BY <1>1, ResultIsWord DEF Fetch
<1>3. UNCHANGED <<attempt, windows>>
  BY DEF Fetch
<1> QED
  BY <1>2, <1>3 DEF AtomicInv, AtomicTypeOK

LEMMA AtomicKeeps == AtomicInv /\ [AtomicNext]_atomicVars => AtomicInv'
<1> SUFFICES ASSUME AtomicInv, [AtomicNext]_atomicVars PROVE AtomicInv'
  OBVIOUS
<1>1. /\ word \in Words /\ previous \in Words
      /\ \A t \in AtomicThreads :
           attempt[t] \in [at : {"idle", "read", "swap"}, op : {"none", "add", "min"},
                           value : Words, old : Words]
  BY DEF AtomicInv, AtomicTypeOK
<1>2. ASSUME NEW t \in AtomicThreads, Read(t) PROVE AtomicInv'
  BY <1>1, <1>2 DEF AtomicInv, AtomicTypeOK, Read
<1>3. ASSUME NEW t \in AtomicThreads, Swap(t) PROVE AtomicInv'
  <2>1. /\ attempt[t].op \in Operations
        /\ attempt[t].value \in Words /\ attempt[t].old \in Words
    BY <1>1, <1>3 DEF AtomicInv, Swap, Operations
  <2>2. Result(attempt[t].op, word, attempt[t].value) \in Words
    BY <1>1, <2>1, ResultIsWord
  <2>3. word' \in Words /\ previous' \in Words /\ windows' = windows
    BY <1>1, <1>3, <2>1, <2>2 DEF Swap
  <2>4. \/ attempt' = [attempt EXCEPT ![t] = NoAttempt]
        \/ attempt' = [attempt EXCEPT ![t].at = "read"]
    BY <1>3 DEF Swap
  <2>5. attempt' \in [AtomicThreads -> [at : {"idle", "read", "swap"}, op : {"none", "add", "min"},
                                        value : Words, old : Words]]
    BY <1>1, <2>4, WordsAreNumbers DEF AtomicInv, AtomicTypeOK, NoAttempt
  <2>6. ASSUME NEW u \in AtomicThreads, attempt'[u].at # "idle" PROVE attempt'[u].op # "none"
    BY <1>1, <1>3, <2>4, <2>6 DEF AtomicInv, AtomicTypeOK, NoAttempt, Swap
  <2> QED
    BY <2>3, <2>5, <2>6 DEF AtomicInv, AtomicTypeOK
<1>4. ASSUME NEW t \in AtomicThreads, NEW value \in Words, NEW op \in {"add", "min"},
             Enter(t, op, value)
      PROVE  AtomicInv'
  BY <1>1, <1>4, WordsAreNumbers DEF AtomicInv, AtomicTypeOK, Enter
<1>5. ASSUME NEW t \in AtomicThreads, NEW expected \in Words, NEW value \in Words,
             retryix_atomic_compare_exchange(t, expected, value)
      PROVE  AtomicInv'
  BY <1>1, <1>5 DEF AtomicInv, AtomicTypeOK, retryix_atomic_compare_exchange
<1>6. ASSUME NEW t \in AtomicThreads, NEW value \in Words, retryix_svm_atomic_sub_int32(t, value)
      PROVE  AtomicInv'
  <2>1. word + (-value) \in Int
    BY <1>1, WordsAreNumbers
  <2>2. HOST_ATOMIC_ADD(-value) \in Words
    BY <1>1, <2>1, ModuloIsWord DEF HOST_ATOMIC_ADD
  <2>3. word' \in Words
    BY <1>1, <1>6, ResultIsWord DEF retryix_svm_atomic_sub_int32, Operations
  <2> QED
    BY <1>6, <2>2, <2>3 DEF AtomicInv, AtomicTypeOK, retryix_svm_atomic_sub_int32
<1>7. ASSUME NEW t \in AtomicThreads, NEW value \in Words, NEW op \in Operations,
             Fetch(t, op, value)
      PROVE  AtomicInv'
  BY <1>7, FetchKeeps
<1>8. CASE UNCHANGED atomicVars
  BY <1>8 DEF AtomicInv, AtomicTypeOK, atomicVars
<1>9. CASE AtomicNext
  BY <1>2, <1>3, <1>4, <1>5, <1>6, <1>7, <1>9
     DEF AtomicNext, Operations, retryix_atomic_exchange, retryix_atomic_fetch_add,
         retryix_atomic_fetch_bits, retryix_atomic_fetch_add_float,
         retryix_svm_atomic_bits_int32, retryix_svm_atomic_min_int32
<1> QED
  BY <1>8, <1>9

LEMMA AtomicHolds == AtomicSpec => []AtomicInv
  BY AtomicBegins, AtomicKeeps, PTL DEF AtomicSpec

(* A loop that ends has exchanged, and only the word it read for its result. *)
LEMMA LoopEnds ==
  ASSUME AtomicInv, AtomicNext, NEW t \in AtomicThreads,
         attempt[t].at = "swap", attempt'[t] = NoAttempt
  PROVE  word' = Result(attempt[t].op, word, attempt[t].value) /\ previous' = word
<1>1. attempt' # attempt /\ DOMAIN attempt = AtomicThreads
  BY DEF AtomicInv, AtomicTypeOK, NoAttempt
<1>2. PICK u \in AtomicThreads :
        Read(u) \/ Swap(u) \/ \E value \in Words, op \in {"add", "min"} : Enter(u, op, value)
  BY <1>1 DEF AtomicNext, Fetch, retryix_atomic_exchange, retryix_atomic_fetch_add,
         retryix_atomic_fetch_bits, retryix_atomic_fetch_add_float,
         retryix_svm_atomic_bits_int32, retryix_svm_atomic_min_int32,
         retryix_svm_atomic_sub_int32, retryix_atomic_compare_exchange
<1>3. u = t
  BY <1>1, <1>2 DEF Read, Swap, Enter, NoAttempt
<1>4. Swap(t)
  BY <1>2, <1>3 DEF Read, Enter, NoAttempt
<1>5. word = attempt[t].old
  BY <1>1, <1>4 DEF Swap, NoAttempt
<1> QED
  BY <1>4, <1>5 DEF Swap

(***************************************************************************)
(* The loops of compare and exchange act as one step, for every number of  *)
(* threads and every width of the word: what another thread wrote after    *)
(* the loop read is never lost.                                            *)
(***************************************************************************)
THEOREM LoopsActAtOnce == AtomicSpec => LoopsAreAtomic
<1>1. ASSUME AtomicInv, AtomicNext
      PROVE  \A t \in AtomicThreads :
               (attempt[t].at = "swap" /\ attempt'[t] = NoAttempt) =>
                 /\ word' = Result(attempt[t].op, word, attempt[t].value)
                 /\ previous' = word
  BY <1>1, LoopEnds
<1>2. AtomicInv /\ [AtomicNext]_atomicVars =>
        [\A t \in AtomicThreads :
           (attempt[t].at = "swap" /\ attempt'[t] = NoAttempt) =>
             /\ word' = Result(attempt[t].op, word, attempt[t].value)
             /\ previous' = word]_atomicVars
  BY <1>1
<1> QED
  BY <1>2, AtomicHolds, PTL DEF AtomicSpec, LoopsAreAtomic

-----------------------------------------------------------------------------
(***************************************************************************)
(* The modules that simulate their hardware (ModuleStates).                *)
(***************************************************************************)

Flags(b, s, h) == [bus |-> b, southbridge |-> s, host_comm |-> h,
                   controllers |-> IF b THEN 3 ELSE 0]

BridgeOn == [initialized |-> TRUE, hardware |-> 3]
BridgeSearched == [initialized |-> TRUE, hardware |-> 1]
WithoutDpdk == [initialized |-> TRUE, dpdk |-> FALSE, score |-> 20]
WithDpdk == [initialized |-> TRUE, dpdk |-> TRUE, score |-> 40]

ReplyCounts == {0, 1, 3, 20, 40, 42, 48}
ReplyOK ==
  \/ reply = <<"none", 0>> \/ reply = <<"not initialized", 0>>
  \/ \E n \in ReplyCounts : reply = <<"ok", n>>

ModuleInv ==
  /\ \E b, s, h \in BOOLEAN : system = Flags(b, s, h)
  /\ bridge \in {NoBridge, BridgeSearched, BridgeOn}
  /\ zerocopy \in {NoNetwork, WithoutDpdk, WithDpdk}
  /\ ReplyOK

LEMMA ModuleTyped == ModuleInv => ModuleTypeOK
<1> SUFFICES ASSUME ModuleInv PROVE ModuleTypeOK
  OBVIOUS
<1>1. PICK b \in BOOLEAN, s \in BOOLEAN, h \in BOOLEAN : system = Flags(b, s, h)
  BY DEF ModuleInv
<1>2. system.bus = b /\ system.controllers = IF b THEN 3 ELSE 0
  BY <1>1, Zenon DEF Flags
<1>3. system.bus <=> system.controllers = 3
  <2>1. CASE b = TRUE
    BY <1>2, <2>1
  <2>2. CASE b = FALSE
    <3>1. system.controllers = 0 /\ ~system.bus
      BY <1>2, <2>2
    <3> QED
      BY <3>1
  <2> QED
    BY <2>1, <2>2
<1>4. bridge.initialized <=> bridge.hardware \in {1, 3}
  BY DEF ModuleInv, NoBridge, BridgeSearched, BridgeOn
<1>5. /\ zerocopy.initialized <=> zerocopy.score > 0
      /\ zerocopy.dpdk => zerocopy.score = 40
  BY DEF ModuleInv, NoNetwork, WithoutDpdk, WithDpdk
<1>6. /\ reply[1] \in {"none", "ok", "not initialized"}
      /\ reply[2] \in {0, 1, 3, 20, 40, 42, 48}
      /\ reply[1] = "not initialized" => reply[2] = 0
  <2>1. CASE reply = <<"none", 0>> \/ reply = <<"not initialized", 0>>
    <3>1. PICK status \in {"none", "not initialized"}, n \in {0} : reply = <<status, n>>
      BY <2>1, Zenon
    <3>2. reply[1] = status /\ reply[2] = n
      BY <3>1
    <3> QED
      BY <3>2
  <2>2. CASE \E n \in ReplyCounts : reply = <<"ok", n>>
    <3>1. PICK n \in ReplyCounts : reply = <<"ok", n>>
      BY <2>2
    <3>2. reply[1] = "ok" /\ reply[2] = n
      BY <3>1
    <3> QED
      BY <3>2 DEF ReplyCounts
  <2> QED
    BY <2>1, <2>2 DEF ModuleInv, ReplyOK
<1> QED
  BY <1>3, <1>4, <1>5, <1>6 DEF ModuleTypeOK

LEMMA ModuleBegins == ModuleInit => ModuleInv
<1> SUFFICES ASSUME ModuleInit PROVE ModuleInv
  OBVIOUS
<1>1. system = Flags(FALSE, FALSE, FALSE)
  BY DEF ModuleInit, Off, Flags
<1> QED
  BY <1>1 DEF ModuleInit, ModuleInv, ReplyOK

LEMMA RepliesKeep ==
  ASSUME ModuleInv, NEW ready, NEW count, ready => count \in ReplyCounts, Replies(ready, count)
  PROVE  ModuleInv'
<1>1. ReplyOK'
  <2>1. CASE ready
    <3>1. reply' = <<"ok", count>> /\ count \in ReplyCounts
      BY <2>1 DEF Replies
    <3> QED
      BY <3>1, Zenon DEF ReplyOK
  <2>2. CASE ~ready
    <3>1. reply' = <<"not initialized", 0>>
      BY <2>2 DEF Replies
    <3> QED
      BY <3>1, Zenon DEF ReplyOK
  <2> QED
    BY <2>1, <2>2
<1>2. UNCHANGED <<system, bridge, mapped, zerocopy>>
  BY DEF Replies
<1> QED
  BY <1>1, <1>2, Zenon DEF ModuleInv

LEMMA ModuleKeeps == ModuleInv /\ [ModuleNext]_moduleVars => ModuleInv'
<1> SUFFICES ASSUME ModuleInv, [ModuleNext]_moduleVars PROVE ModuleInv'
  OBVIOUS
<1>1. PICK b \in BOOLEAN, s \in BOOLEAN, h \in BOOLEAN : system = Flags(b, s, h)
  BY DEF ModuleInv
<1>2. Done => ReplyOK'
  <2>1. 0 \in ReplyCounts
    BY DEF ReplyCounts
  <2> QED
    BY <2>1, Zenon DEF Done, ReplyOK
<1>3. ASSUME system' = Flags(TRUE, s, h) \/ system' = Flags(FALSE, s, h)
               \/ system' = Flags(b, TRUE, h) \/ system' = Flags(b, FALSE, h)
               \/ system' = Flags(b, s, TRUE) \/ system' = Flags(b, s, FALSE)
               \/ system' = Flags(FALSE, FALSE, FALSE),
             Done, UNCHANGED <<bridge, mapped, zerocopy>>
      PROVE  ModuleInv'
  <2>1. \E b2, s2, h2 \in BOOLEAN : system' = Flags(b2, s2, h2)
    BY <1>3, Zenon
  <2> QED
    BY <1>2, <1>3, <2>1, Zenon DEF ModuleInv
<1>4. CASE \/ system_bus_scheduler_init \/ system_bus_scheduler_cleanup
           \/ system_southbridge_init \/ system_southbridge_cleanup
           \/ system_host_comm_init \/ system_host_comm_cleanup
           \/ retryix_host_shutdown
  <2>1. CASE system_bus_scheduler_init
    <3>1. system' = Flags(TRUE, s, h)
      BY <1>1, <2>1 DEF system_bus_scheduler_init, Flags
    <3> QED
      BY <1>3, <2>1, <3>1 DEF system_bus_scheduler_init
  <2>2. CASE system_bus_scheduler_cleanup
    <3>1. system' = Flags(FALSE, s, h)
      BY <1>1, <2>2 DEF system_bus_scheduler_cleanup, BusOff, Flags
    <3> QED
      BY <1>3, <2>2, <3>1 DEF system_bus_scheduler_cleanup
  <2>3. CASE system_southbridge_init
    <3>1. system' = Flags(b, TRUE, h)
      BY <1>1, <2>3 DEF system_southbridge_init, Flags
    <3> QED
      BY <1>3, <2>3, <3>1 DEF system_southbridge_init
  <2>4. CASE system_southbridge_cleanup
    <3>1. system' = Flags(b, FALSE, h)
      BY <1>1, <2>4 DEF system_southbridge_cleanup, SouthbridgeOff, Flags
    <3> QED
      BY <1>3, <2>4, <3>1 DEF system_southbridge_cleanup
  <2>5. CASE system_host_comm_init
    <3>1. system' = Flags(b, s, TRUE)
      BY <1>1, <2>5 DEF system_host_comm_init, Flags
    <3> QED
      BY <1>3, <2>5, <3>1 DEF system_host_comm_init
  <2>6. CASE system_host_comm_cleanup
    <3>1. system' = Flags(b, s, FALSE)
      BY <1>1, <2>6 DEF system_host_comm_cleanup, HostCommOff, Flags
    <3> QED
      BY <1>3, <2>6, <3>1 DEF system_host_comm_cleanup
  <2>7. CASE retryix_host_shutdown
    <3>1. PICK x : x = HostCommOff(system)
      OBVIOUS
    <3>2. x = Flags(b, s, FALSE)
      BY <1>1, <3>1 DEF HostCommOff, Flags
    <3>3. PICK y : y = SouthbridgeOff(x)
      OBVIOUS
    <3>4. y = Flags(b, FALSE, FALSE)
      BY <3>2, <3>3 DEF SouthbridgeOff, Flags
    <3>5. system' = BusOff(y)
      BY <2>7, <3>1, <3>3, Zenon DEF retryix_host_shutdown
    <3>6. system' = Flags(FALSE, FALSE, FALSE)
      BY <3>4, <3>5 DEF BusOff, Flags
    <3> QED
      BY <1>3, <2>7, <3>6 DEF retryix_host_shutdown
  <2> QED
    BY <1>4, <2>1, <2>2, <2>3, <2>4, <2>5, <2>6, <2>7
<1>5. ASSUME bridge' \in {NoBridge, BridgeSearched, BridgeOn}, ReplyOK', UNCHANGED <<system, mapped, zerocopy>>
      PROVE  ModuleInv'
  BY <1>5, Zenon DEF ModuleInv
<1>6. CASE \/ retryix_initialize_device_bridge \/ retryix_bridge_discover_hardware
           \/ retryix_unified_cleanup
  <2>1. CASE retryix_initialize_device_bridge
    <3>1. bridge' \in {NoBridge, BridgeSearched, BridgeOn}
      BY <2>1 DEF retryix_initialize_device_bridge, retryix_bridge_initialize_universal, ModuleInv,
                  BridgeOn
    <3> QED
      BY <1>2, <1>5, <2>1, <3>1
         DEF retryix_initialize_device_bridge, retryix_bridge_initialize_universal
  <2>2. CASE retryix_bridge_discover_hardware
    <3>1. bridge' \in {NoBridge, BridgeSearched, BridgeOn}
      BY <2>2 DEF retryix_bridge_discover_hardware, ModuleInv, BridgeSearched, BridgeOn, NoBridge
    <3>2. ReplyOK'
      <4>1. 1 \in ReplyCounts
        BY DEF ReplyCounts
      <4> QED
        BY <2>2, <4>1, Zenon DEF retryix_bridge_discover_hardware, ReplyOK
    <3> QED
      BY <1>5, <2>2, <3>1, <3>2 DEF retryix_bridge_discover_hardware
  <2>3. CASE retryix_unified_cleanup
    BY <1>2, <1>5, <2>3 DEF retryix_unified_cleanup, retryix_bridge_cleanup_all
  <2> QED
    BY <1>6, <2>1, <2>2, <2>3
<1>7. CASE TopologyDiscovered
  BY <1>2, <1>7, Zenon DEF ModuleInv, TopologyDiscovered
<1>8. CASE retryix_zerocopy_net_init \/ retryix_zerocopy_net_cleanup
  <2>1. zerocopy' \in {NoNetwork, WithoutDpdk, WithDpdk}
    <3>1. CASE retryix_zerocopy_net_init
      <4>1. PICK found \in detect_network_capabilities :
               zerocopy' = IF zerocopy.initialized THEN zerocopy
                           ELSE [found EXCEPT !.initialized = found.score >= 20]
        BY <3>1 DEF retryix_zerocopy_net_init
      <4>2. [found EXCEPT !.initialized = found.score >= 20] \in {WithoutDpdk, WithDpdk}
        <5>1. found.score >= 20
          BY DEF detect_network_capabilities
        <5>2. [found EXCEPT !.initialized = found.score >= 20] = [found EXCEPT !.initialized = TRUE]
          BY <5>1, Zenon
        <5>3. [found EXCEPT !.initialized = TRUE] \in {WithoutDpdk, WithDpdk}
          <6>1. PICK x : x = [found EXCEPT !.initialized = TRUE]
            OBVIOUS
          <6>2. \/ found = [initialized |-> FALSE, dpdk |-> FALSE, score |-> 20]
                \/ found = [initialized |-> FALSE, dpdk |-> TRUE, score |-> 40]
            BY DEF detect_network_capabilities
          <6>3. x = WithoutDpdk \/ x = WithDpdk
            <7>1. CASE found = [initialized |-> FALSE, dpdk |-> FALSE, score |-> 20]
              BY <6>1, <7>1 DEF WithoutDpdk
            <7>2. CASE found = [initialized |-> FALSE, dpdk |-> TRUE, score |-> 40]
              BY <6>1, <7>2 DEF WithDpdk
            <7> QED
              BY <6>2, <7>1, <7>2
          <6> QED
            BY <6>1, <6>3, Zenon
        <5> QED
          BY <5>2, <5>3
      <4> QED
        BY <4>1, <4>2, Zenon DEF ModuleInv
    <3>2. CASE retryix_zerocopy_net_cleanup
      BY <3>2 DEF retryix_zerocopy_net_cleanup
    <3> QED
      BY <1>8, <3>1, <3>2
  <2> QED
    BY <1>2, <1>8, <2>1, Zenon DEF ModuleInv, retryix_zerocopy_net_init, retryix_zerocopy_net_cleanup
<1>9. /\ system.bus => system.controllers \in ReplyCounts
      /\ system.controllers * 16 \in ReplyCounts
      /\ bridge.hardware \in ReplyCounts
      /\ zerocopy.score \in ReplyCounts
      /\ 0 \in ReplyCounts /\ 1 \in ReplyCounts /\ 3 \in ReplyCounts /\ 42 \in ReplyCounts
  <2>1. system.controllers = 0 \/ system.controllers = 3
    BY <1>1 DEF Flags
  <2>2. bridge.hardware \in {0, 1, 3} /\ zerocopy.score \in {0, 20, 40}
    BY DEF ModuleInv, NoBridge, BridgeSearched, BridgeOn, NoNetwork, WithoutDpdk, WithDpdk
  <2> QED
    BY <2>1, <2>2 DEF ReplyCounts
<1>10. CASE \/ system_bus_enumerate_controllers \/ system_southbridge_get_info
            \/ system_bus_calculate_theoretical_bandwidth
            \/ retryix_host_comm_status \/ retryix_send_command
            \/ retryix_bridge_nvidia_initialize \/ retryix_bridge_enumerate_bridges
            \/ retryix_unified_resource_init
            \/ retryix_svm_analyze_numa_layout \/ retryix_svm_monitor_bandwidth
            \/ retryix_zerocopy_configure_dpdk \/ retryix_zerocopy_dma_transfer
            \/ retryix_zerocopy_infiniband_init \/ retryix_zerocopy_get_system_health
  BY <1>9, <1>10, RepliesKeep
     DEF system_bus_enumerate_controllers, system_southbridge_get_info,
         system_bus_calculate_theoretical_bandwidth,
         retryix_host_comm_status, retryix_send_command,
         retryix_bridge_nvidia_initialize, retryix_bridge_enumerate_bridges,
         retryix_unified_resource_init, retryix_svm_analyze_numa_layout,
         retryix_svm_monitor_bandwidth, retryix_zerocopy_configure_dpdk,
         retryix_zerocopy_dma_transfer, retryix_zerocopy_infiniband_init,
         retryix_zerocopy_get_system_health
<1>11. CASE UNCHANGED moduleVars
  BY <1>11, Zenon DEF ModuleInv, ReplyOK, moduleVars
<1> QED
  BY <1>4, <1>6, <1>7, <1>8, <1>10, <1>11 DEF ModuleNext

LEMMA ModuleHolds == ModuleSpec => []ModuleInv
  BY ModuleBegins, ModuleKeeps, PTL DEF ModuleSpec

-----------------------------------------------------------------------------
(***************************************************************************)
(* The services side by side (Services).                                   *)
(***************************************************************************)

LEMMA PartsRun ==
  Spec => /\ CommSpec /\ PchSpec /\ TableSpec /\ KernelSpec /\ DiscoverySpec /\ NativeSpec
          /\ ReportSpec /\ AndroidSpec /\ HeapSpec /\ AtomicSpec /\ ModuleSpec
<1>1. Init => /\ CommInit /\ PchInit /\ TableInit /\ KernelInit /\ DiscoveryInit /\ NativeInit
              /\ ReportInit /\ AndroidInit /\ HeapInit /\ AtomicInit /\ ModuleInit
  BY Zenon DEF Init
<1>2. [Next]_vars =>
        /\ [CommNext]_commVars /\ [PchNext]_pchVars /\ [TableNext]_tableVars
        /\ [KernelNext]_kernelVars /\ [DiscoveryNext]_discoveryVars /\ [NativeNext]_nativeVars
        /\ [ReportNext]_reportVars /\ [AndroidNext]_androidVars /\ [HeapNext]_heapVars
        /\ [AtomicNext]_atomicVars /\ [ModuleNext]_moduleVars
  BY DEF Next, Rest, vars
<1> QED
  BY <1>1, <1>2, PTL
  DEF Spec, CommSpec, PchSpec, TableSpec, KernelSpec, DiscoverySpec, NativeSpec, ReportSpec,
      AndroidSpec, HeapSpec, AtomicSpec, ModuleSpec

(* The part that runs stays the one that was chosen. *)
LEMMA PartStays == Spec => [](part \in Parts)
<1>1. Init => part \in Parts
  BY DEF Init
<1>2. part \in Parts /\ [Next]_vars => (part \in Parts)'
  BY DEF Next, Rest, vars
<1> QED
  BY <1>1, <1>2, PTL DEF Spec

(***************************************************************************)
(* Every variable of every service keeps its type, whatever its callers    *)
(* ask of it and however its calls fail, for all sizes of tables, lists,   *)
(* rings and words.                                                        *)
(***************************************************************************)
THEOREM ServicesTyped == Spec => []TypeOK
<1>1. CommInv => CommTypeOK
  BY CommTyped
<1>2. TableInv => TableTypeOK
  BY TableTyped
<1>3. HeapInv /\ HeapBounds => HeapTypeOK
  BY HeapTyped
<1>4. AtomicInv => AtomicTypeOK
  BY DEF AtomicInv
<1> QED
  BY <1>1, <1>2, <1>3, <1>4, PartsRun, PartStays, CommHolds, PchHolds, PchTyped, TableHolds,
     KernelHolds, KernelTyped, DiscoveryHolds, DiscoveryTyped, NativeHolds, NativeTyped,
     ReportHolds, ReportTyped, AndroidHolds, AndroidTyped, HeapHolds, BoundsHold, AtomicHolds,
     ModuleHolds, ModuleTyped, PTL
  DEF TypeOK

(***************************************************************************)
(* Discovery through OpenCL and the vendor bridges, discovery without      *)
(* OpenCL and the Android bridge end with all they took given back, for    *)
(* every number of platforms, devices, attempts and adapters, whichever    *)
(* calls fail and while devices appear, but for one DXGI adapter, which    *)
(* stays held only when the machine has more than the caller has room for. *)
(* A document on the network frees the buffer of its first request before  *)
(* the second, and keeps the last only when it could have no list.  The    *)
(* documents agree with the lists they were made from and, but for the     *)
(* accelerator, with each other.                                           *)
(***************************************************************************)
THEOREM SearchesUnwind == Spec => []FindingsHold
  BY PartsRun, DiscoveryHolds, DiscoveryGivesBack, NativeHolds, NativeGivesBack, AndroidHolds,
     AndroidGivesBack, ReportHolds, ReportGivesBack, ReportAgrees, PTL
  DEF FindingsHold

(***************************************************************************)
(* What is proved of each service alone holds of the services together.    *)
(***************************************************************************)
THEOREM ServicesKeepPromises ==
  Spec => /\ []ReceivedInOrder /\ []LanesWithinTotal /\ []AnswersWereGiven
          /\ []ResultsAreComplete /\ []HeapConsistent /\ LoopsAreAtomic
  BY PartsRun, RingIsFifo, LanesStayWithinTotal, AnswersAreSound, ThreadsShareTheWork,
     BlocksGoHome, LoopsActAtOnce, PTL
=============================================================================
