------------------------------ MODULE HostComm ------------------------------
(***************************************************************************)
(* The ring of messages between host and library, comm/retryix_host_comm.c. *)
(* Nothing is locked.  The model has one thread that sends and one that    *)
(* receives, each taking its step between the other's, and brings the ring *)
(* up and down only while neither is in a call; stores are seen in program *)
(* order, as on x86.                                                       *)
(***************************************************************************)
EXTENDS Integers, Sequences

CONSTANTS
  Packets,
  MAX_MSG_QUEUE,
  MaxSent        \* bound: packets sent in one life of the ring

ASSUME CommAssumption == MAX_MSG_QUEUE \in Nat \ {0}

VARIABLES
  msg_queue, queue_head, queue_tail,
  comm_initialized,
  sending,       \* where comm_send stands, and its packet
  receiving,     \* where comm_recv stands, and the packet it copied
  sent, received \* history: packets accepted and handed out in this life

commVars == <<msg_queue, queue_head, queue_tail, comm_initialized,
              sending, receiving, sent, received>>

Slots == 0 .. MAX_MSG_QUEUE - 1
Zero == "zero"                     \* a packet of zeros
Idle == [at |-> "idle", packet |-> Zero]

CommInit ==
  /\ msg_queue = [s \in Slots |-> Zero]
  /\ queue_head = 0 /\ queue_tail = 0
  /\ comm_initialized = FALSE
  /\ sending = Idle /\ receiving = Idle
  /\ sent = <<>> /\ received = <<>>

Following(slot) == (slot + 1) % MAX_MSG_QUEUE
Quiet == sending = Idle /\ receiving = Idle

comm_init ==
  /\ Quiet
  /\ ~comm_initialized
  /\ msg_queue' = [s \in Slots |-> Zero]
  /\ queue_head' = 0 /\ queue_tail' = 0
  /\ comm_initialized' = TRUE
  /\ UNCHANGED <<sending, receiving, sent, received>>

(* The packets still in the ring are dropped with it. *)
comm_cleanup ==
  /\ Quiet
  /\ comm_initialized
  /\ comm_initialized' = FALSE
  /\ queue_head' = 0 /\ queue_tail' = 0
  /\ sent' = <<>> /\ received' = <<>>
  /\ UNCHANGED <<msg_queue, sending, receiving>>

(* Fault: the wrap of the tail is forgotten. *)
Full_All == queue_tail = queue_head - 1
Full == Following(queue_tail) = queue_head
Empty == queue_head = queue_tail

(* comm_send: test, store, advance.  A refused packet leaves everything as it was. *)
Accept(p) ==
  /\ sending = Idle
  /\ comm_initialized /\ ~Full
  /\ Len(sent) < MaxSent
  /\ sending' = [at |-> "store", packet |-> p]
  /\ UNCHANGED <<msg_queue, queue_head, queue_tail, comm_initialized, receiving, sent, received>>

Store ==
  /\ sending.at = "store"
  /\ msg_queue' = [msg_queue EXCEPT ![queue_tail] = sending.packet]
  /\ sending' = [sending EXCEPT !.at = "advance"]
  /\ UNCHANGED <<queue_head, queue_tail, comm_initialized, receiving, sent, received>>

Publish ==
  /\ sending.at = "advance"
  /\ queue_tail' = Following(queue_tail)
  /\ sent' = Append(sent, sending.packet)
  /\ sending' = Idle
  /\ UNCHANGED <<msg_queue, queue_head, comm_initialized, receiving, received>>

(* comm_recv: test, copy, advance. *)
Find ==
  /\ receiving = Idle
  /\ comm_initialized /\ ~Empty
  /\ receiving' = [Idle EXCEPT !.at = "copy"]
  /\ UNCHANGED <<msg_queue, queue_head, queue_tail, comm_initialized, sending, sent, received>>

Copy ==
  /\ receiving.at = "copy"
  /\ receiving' = [at |-> "advance", packet |-> msg_queue[queue_head]]
  /\ UNCHANGED <<msg_queue, queue_head, queue_tail, comm_initialized, sending, sent, received>>

Release ==
  /\ receiving.at = "advance"
  /\ queue_head' = Following(queue_head)
  /\ received' = Append(received, receiving.packet)
  /\ receiving' = Idle
  /\ UNCHANGED <<msg_queue, queue_tail, comm_initialized, sending, sent>>

comm_send == Store \/ Publish \/ \E p \in Packets : Accept(p)
comm_recv == Find \/ Copy \/ Release

CommNext == comm_init \/ comm_cleanup \/ comm_send \/ comm_recv

CommSpec == CommInit /\ [][CommNext]_commVars

CommTypeOK ==
  /\ msg_queue \in [Slots -> Packets \cup {Zero}]
  /\ queue_head \in Slots /\ queue_tail \in Slots
  /\ comm_initialized \in BOOLEAN
  /\ sending.at \in {"idle", "store", "advance"}
  /\ receiving.at \in {"idle", "copy", "advance"}

Queued == [i \in 1 .. (queue_tail - queue_head) % MAX_MSG_QUEUE |->
             msg_queue[(queue_head + i - 1) % MAX_MSG_QUEUE]]

(* What has been received, with what the ring holds, is what was sent: *)
(* no packet is lost, doubled, reordered or read before it was stored, *)
(* although neither side of comm_send and comm_recv takes a lock.      *)
ReceivedInOrder == received \o Queued = sent
=============================================================================
