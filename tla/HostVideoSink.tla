--------------------------- MODULE HostVideoSink ---------------------------
(***************************************************************************)
(* The bounded asynchronous packet queue of transport/HostVideoSink.cpp.   *)
(*                                                                         *)
(* Three threads meet here.  A client (the stream worker) calls            *)
(* SubmitBatch and DiscardPending; the sender thread runs SendLoop; any    *)
(* thread may call Stop.  Impl::mutex makes every critical section one     *)
(* atomic action; the blocking send() and the condition-variable wait are  *)
(* the places where the threads interleave.  The wait is modelled with its *)
(* notification (sender = "waiting" until somebody notifies), so a lost    *)
(* wakeup is a state of the model.                                         *)
(*                                                                         *)
(* A packet is an abstract value with a wire size.  HostVideoSinkStats     *)
(* only counts and is left out.                                            *)
(***************************************************************************)
EXTENDS Integers, Sequences, SequencesExt

CONSTANTS
  Packet,       \* the packets a client may submit
  Malformed,    \* those SerializeVideoPacketHeader or the payload limit rejects
  Batches,      \* the packet vectors a client may submit
  WireSize(_),  \* header plus payload size of a packet
  MaxPackets,   \* HostVideoSinkConfig::max_buffered_packets
  MaxBytes,     \* HostVideoSinkConfig::max_buffered_bytes
  None          \* "no packet in flight"

ASSUME SinkLimits == MaxPackets \in Nat \ {0} /\ MaxBytes \in Nat \ {0}
ASSUME SinkPackets == /\ None \notin Packet
                      /\ \A p \in Packet : WireSize(p) \in Nat \ {0}
                      /\ Batches \subseteq Seq(Packet)

VARIABLES
  queue,            \* Impl::queue
  inFlight,         \* the packet the sender has popped, None when !in_flight
  bufferedPackets,  \* Impl::buffered_packets
  bufferedBytes,    \* Impl::buffered_bytes
  isConnected,      \* Impl::is_connected
  stopped,          \* Impl::stopped
  stopper,          \* progress of the one effective Stop() call
  sender            \* where the sender thread is in SendLoop

sinkVars == << queue, inFlight, bufferedPackets, bufferedBytes, isConnected,
               stopped, stopper, sender >>

Status == { "Accepted", "QueueFull", "Disconnected", "Stopped", "InvalidPacket" }

\* The bytes a sequence of packets occupies on the wire.
WireBytes(packets) ==
  LET bytes[n \in 0 .. Len(packets)] ==
        IF n = 0 THEN 0 ELSE bytes[n - 1] + WireSize(packets[n])
  IN  bytes[Len(packets)]

\* ByteAccounting gives bufferedBytes its type.  The counters are size_t: a
\* subtraction that goes below zero is a broken type here.
SinkTypeOK ==
  /\ queue \in Seq(Packet)
  /\ inFlight \in Packet \cup {None}
  /\ bufferedPackets \in Nat
  /\ isConnected \in BOOLEAN
  /\ stopped \in BOOLEAN
  /\ stopper \in { "idle", "marked", "joining", "joined" }
  /\ sender \in { "checking", "waiting", "sending", "exited" }

\* The constructor starts the sender on an empty queue over a connected socket.
SinkInit ==
  /\ queue = << >>
  /\ inFlight = None
  /\ bufferedPackets = 0
  /\ bufferedBytes = 0
  /\ isConnected = TRUE
  /\ stopped = FALSE
  /\ stopper = "idle"
  /\ sender = "checking"

\* A notification moves a waiting sender back to its predicate check.
Notified(pc) == IF pc = "waiting" THEN "checking" ELSE pc

\* bufferedPackets counts the queue plus the packet in flight, so a batch is
\* weighed against everything the sink still holds.
Overflows_QueueOnly(batch) ==
  \/ Len(queue) + Len(batch) > MaxPackets
  \/ WireBytes(queue) + WireBytes(batch) > MaxBytes

Overflows(batch) ==
  \/ bufferedPackets + Len(batch) > MaxPackets
  \/ bufferedBytes + WireBytes(batch) > MaxBytes

Invalid(batch) == batch = << >> \/ Range(batch) \cap Malformed # {}

\* The checks in the code's order.
SubmitStatus(batch) ==
  IF Invalid(batch) THEN "InvalidPacket"
  ELSE IF stopped THEN "Stopped"
  ELSE IF ~isConnected THEN "Disconnected"
  ELSE IF Overflows(batch) THEN "QueueFull"
  ELSE "Accepted"

\* A batch enters the queue as a whole or not at all.
Enqueue_NoNotify(batch) ==
  /\ queue' = queue \o batch
  /\ bufferedPackets' = bufferedPackets + Len(batch)
  /\ bufferedBytes' = bufferedBytes + WireBytes(batch)
  /\ UNCHANGED << inFlight, isConnected, stopped, stopper, sender >>

Enqueue(batch) ==
  /\ queue' = queue \o batch
  /\ bufferedPackets' = bufferedPackets + Len(batch)
  /\ bufferedBytes' = bufferedBytes + WireBytes(batch)
  /\ sender' = Notified(sender)
  /\ UNCHANGED << inFlight, isConnected, stopped, stopper >>

\* SubmitBatch returns status; only an accepted batch changes the sink.
SubmitBatch(batch, status) ==
  /\ status = SubmitStatus(batch)
  /\ IF status = "Accepted" THEN Enqueue(batch) ELSE UNCHANGED sinkVars

DiscardPending_KeepsCount ==
  /\ queue' = << >>
  /\ bufferedBytes' = bufferedBytes - WireBytes(queue)
  /\ UNCHANGED << inFlight, bufferedPackets, isConnected, stopped, stopper, sender >>

\* The packet in flight is past recall: only the queue is dropped.
DiscardPending ==
  /\ queue' = << >>
  /\ bufferedPackets' = bufferedPackets - Len(queue)
  /\ bufferedBytes' = bufferedBytes - WireBytes(queue)
  /\ UNCHANGED << inFlight, isConnected, stopped, stopper, sender >>

-----------------------------------------------------------------------------
(* SendLoop *)

\* The wait's predicate is evaluated under the mutex: false blocks the sender.
SenderWait ==
  /\ sender = "checking"
  /\ ~stopped
  /\ queue = << >>
  /\ sender' = "waiting"
  /\ UNCHANGED << queue, inFlight, bufferedPackets, bufferedBytes, isConnected,
                  stopped, stopper >>

\* A condition variable may wake without a notification.
SpuriousWakeup ==
  /\ sender = "waiting"
  /\ sender' = "checking"
  /\ UNCHANGED << queue, inFlight, bufferedPackets, bufferedBytes, isConnected,
                  stopped, stopper >>

SenderExit ==
  /\ sender = "checking"
  /\ stopped
  /\ sender' = "exited"
  /\ UNCHANGED << queue, inFlight, bufferedPackets, bufferedBytes, isConnected,
                  stopped, stopper >>

SenderTake ==
  /\ sender = "checking"
  /\ ~stopped
  /\ queue # << >>
  /\ inFlight' = Head(queue)
  /\ queue' = Tail(queue)
  /\ sender' = "sending"
  /\ UNCHANGED << bufferedPackets, bufferedBytes, isConnected, stopped, stopper >>

\* Both SendAll calls wrote every byte.
SendSucceeds ==
  /\ sender = "sending"
  /\ inFlight' = None
  /\ bufferedPackets' = bufferedPackets - 1
  /\ bufferedBytes' = bufferedBytes - WireSize(inFlight)
  /\ sender' = "checking"
  /\ UNCHANGED << queue, isConnected, stopped, stopper >>

\* The peer is gone: everything buffered is dropped and the sender returns.
SendFails ==
  /\ sender = "sending"
  /\ inFlight' = None
  /\ queue' = << >>
  /\ bufferedPackets' = 0
  /\ bufferedBytes' = 0
  /\ isConnected' = FALSE
  /\ sender' = "exited"
  /\ UNCHANGED << stopped, stopper >>

-----------------------------------------------------------------------------
(* Stop.  lifecycle_mutex lets one call do the work; a later call returns. *)

\* The packet in flight stays accounted for: the sender still holds it.
StopMark ==
  /\ stopper = "idle"
  /\ stopper' = "marked"
  /\ stopped' = TRUE
  /\ queue' = << >>
  /\ bufferedPackets' = IF inFlight = None THEN 0 ELSE 1
  /\ bufferedBytes' = IF inFlight = None THEN 0 ELSE WireSize(inFlight)
  /\ UNCHANGED << inFlight, isConnected, sender >>

StopShutdown_NoNotify ==
  /\ stopper = "marked"
  /\ stopper' = "joining"
  /\ UNCHANGED << queue, inFlight, bufferedPackets, bufferedBytes, isConnected,
                  stopped, sender >>

\* shutdown(SHUT_RDWR) makes a blocked send() return; then the sender is notified.
StopShutdown ==
  /\ stopper = "marked"
  /\ stopper' = "joining"
  /\ sender' = Notified(sender)
  /\ UNCHANGED << queue, inFlight, bufferedPackets, bufferedBytes, isConnected,
                  stopped >>

StopJoin ==
  /\ stopper = "joining"
  /\ sender = "exited"
  /\ stopper' = "joined"
  /\ UNCHANGED << queue, inFlight, bufferedPackets, bufferedBytes, isConnected,
                  stopped, sender >>

-----------------------------------------------------------------------------

SenderStep ==
  \/ SenderWait
  \/ SpuriousWakeup
  \/ SenderExit
  \/ SenderTake
  \/ SendSucceeds
  \/ SendFails

StopStep ==
  \/ StopMark
  \/ StopShutdown
  \/ StopJoin

Client == \E batch \in Batches, status \in Status : SubmitBatch(batch, status)

SinkNext ==
  \/ Client
  \/ DiscardPending
  \/ SenderStep
  \/ StopStep

\* The sender thread and the thread inside Stop() keep running.  A send() to a
\* host that does not read blocks for as long as the host likes: it is bound to
\* return only once the socket is shut down.
SenderFairness ==
  /\ WF_sinkVars(SenderWait)
  /\ WF_sinkVars(SenderExit)
  /\ WF_sinkVars(SenderTake)

StopFairness ==
  /\ WF_sinkVars(StopShutdown)
  /\ WF_sinkVars(StopJoin)
  /\ WF_sinkVars(stopper = "joining" /\ (SendSucceeds \/ SendFails))

SinkSpec == SinkInit /\ [][SinkNext]_sinkVars /\ SenderFairness /\ StopFairness

-----------------------------------------------------------------------------
(* Properties *)

\* The packets the sink holds: the queue and the one being sent.
HeldPackets == Len(queue) + (IF inFlight = None THEN 0 ELSE 1)
HeldBytes == WireBytes(queue) + (IF inFlight = None THEN 0 ELSE WireSize(inFlight))

\* The counters SubmitBatch admits against always equal what is really held, over
\* every interleaving of the sender's two critical sections with a discard, a
\* failed send and Stop(); the sink never holds more packets than its limit.
PacketAccounting ==
  /\ bufferedPackets = HeldPackets
  /\ bufferedPackets \in 0 .. MaxPackets

\* The same for bytes.
ByteAccounting ==
  /\ bufferedBytes = HeldBytes
  /\ bufferedBytes \in 0 .. MaxBytes

\* The sender never sleeps through work: it waits only on an empty, running sink,
\* or between the stopping thread's critical section and its notification.
NoLostWakeup ==
  sender = "waiting" => queue = << >> /\ (stopped => stopper = "marked")

\* Nothing is accepted behind the back of a sender that has returned.
NothingStranded ==
  sender = "exited" => queue = << >> /\ inFlight = None /\ bufferedPackets = 0 /\ (stopped \/ ~isConnected)

\* Stop() returns even when the host never reads another byte.
StopReturns == stopper = "marked" ~> stopper = "joined"

\* A pending packet is taken up, or dropped by whoever stops or discards.
PendingIsTaken == queue # << >> ~> (queue = << >> \/ sender = "sending")
=============================================================================
