-------------------------- MODULE AudioStreamProofs --------------------------
(***************************************************************************)
(* Proofs about AudioStream, for any queue length, number of outputs and   *)
(* records, and generations of the HAL.                                    *)
(***************************************************************************)
EXTENDS AudioStream, SequenceTheorems, TLAPS

AnyRecord == [ stream : Int, n : Int, hal : Nat \ {0}, disc : BOOLEAN, owner : Int ]
AnyPacket == [ stream : Int, n : Int, hal : Nat, generation : Nat, disc : BOOLEAN, owner : Int,
               index : Nat ]

\* What a packet says of the generation it is in.
Says(p) == << p.generation, p.hal, p.owner >>

(* The types the two arguments need; a record read is of a HAL generation. *)
Types ==
  /\ input \in 0 .. MaxStreams /\ read \in [ 1 .. MaxStreams -> Nat ]
  /\ inputGeneration \in Nat /\ outputGeneration \in Nat /\ activeGeneration \in Nat
  /\ input # 0 => halGeneration \in HalGenerations
  /\ worker = "reading" => input # 0
  /\ worker \in { "holding", "stamped" } => record \in AnyRecord
  /\ queue \in Seq(AnyPacket)
  /\ sender = "holding" => sending \in AnyPacket
  /\ force \in BOOLEAN /\ enqueued \in Nat
  /\ delivered.index \in Nat /\ delivered.generation \in Nat

-----------------------------------------------------------------------------
(* The worker's and the sink's critical sections keep the types.           *)
LEMMA EnqueueTypes ==
  ASSUME Types, Enqueue
  PROVE  /\ EncodedPacket \in AnyPacket /\ EncodedPacket.index = enqueued + 1
         /\ Says(EncodedPacket) = << outputGeneration, record.hal, record.owner >>
         /\ EncodedPacket.generation = outputGeneration
         /\ Remaining \in Seq(AnyPacket)
         /\ queue' \in Seq(AnyPacket)
<1>1. record \in AnyRecord /\ outputGeneration \in Nat /\ enqueued + 1 \in Nat
  BY DEF Enqueue, Types
<1>2. /\ EncodedPacket \in AnyPacket /\ EncodedPacket.index = enqueued + 1
      /\ Says(EncodedPacket) = << outputGeneration, record.hal, record.owner >>
      /\ EncodedPacket.generation = outputGeneration
  BY <1>1 DEF EncodedPacket, AnyPacket, AnyRecord, Says
<1>3. Remaining \in Seq(AnyPacket)
  <2>1. queue \in Seq(AnyPacket)
    BY DEF Types
  <2>2. CASE queue = << >>
    BY <2>2 DEF Remaining, Types, AudioAssumption
  <2>3. CASE queue # << >>
    BY <2>1, <2>3, HeadTailProperties, EmptySeq DEF Remaining
  <2> QED
    BY <2>2, <2>3
<1> QED
  BY <1>2, <1>3, AppendProperties DEF Enqueue

(* What the sender takes is the head of the queue, marked if force is set. *)
LEMMA PopTypes ==
  ASSUME Types, PopPacket
  PROVE  /\ Head(queue) \in AnyPacket /\ queue' \in Seq(AnyPacket)
         /\ sending' \in AnyPacket
         /\ sending'.index = Head(queue).index /\ sending'.generation = Head(queue).generation
         /\ Says(sending)' = Says(Head(queue))
         /\ sending'.disc = (Head(queue).disc \/ force)
<1>1. Head(queue) \in AnyPacket /\ Tail(queue) \in Seq(AnyPacket)
  BY HeadTailProperties DEF PopPacket, Types
<1>2. sending' = [ Head(queue) EXCEPT !.disc = Head(queue).disc \/ force ]
  BY DEF PopPacket
<1> QED
  BY <1>1, <1>2 DEF PopPacket, AnyPacket, Says

(* The types hold of every reachable state.                                *)
THEOREM AudioTypes == Spec => []Types
<1>1. Init => Types
  <2>1. << >> \in Seq(AnyPacket) /\ MaxStreams \in Nat
    BY AudioAssumption, EmptySeq DEF AudioAssumption
  <2> QED
    BY <2>1 DEF Init, Types, Nothing
<1>2. Types /\ [Next]_vars => Types'
  <2> SUFFICES ASSUME Types, [Next]_vars PROVE Types'
    OBVIOUS
  <2> USE DEF Types, sessionVars, sinkVars
  <2>1. CASE OpenOutput
    BY <2>1, AudioAssumption DEF OpenOutput, AudioAssumption
  <2>2. CASE ForgetGeneration
    BY <2>2 DEF ForgetGeneration
  <2>3. CASE DiscardPending
    BY <2>3, EmptySeq DEF DiscardPending, Notified
  <2>4. CASE FindNoInput \/ WaitForInput \/ WorkerExits
    BY <2>4 DEF FindNoInput, WaitForInput, WorkerExits
  <2>5. CASE TakeQueue \/ ReadNothing
    BY <2>5 DEF TakeQueue, ReadNothing
  <2>6. CASE ReadRecord
    <3>1. input \in 1 .. MaxStreams /\ halGeneration \in Nat \ {0}
      <4>1. MaxStreams \in Nat /\ HalGenerations \subseteq Nat \ {0}
        BY AudioAssumption DEF AudioAssumption
      <4>2. input # 0 /\ input \in 0 .. MaxStreams
        BY <2>6 DEF ReadRecord
      <4>3. halGeneration \in HalGenerations
        BY <4>2
      <4> QED
        BY <4>1, <4>2, <4>3
    <3>2. read' = [ read EXCEPT ![input] = read[input] + 1 ]
      BY <2>6 DEF ReadRecord
    <3>3. read' \in [ 1 .. MaxStreams -> Nat ] /\ read'[input] \in Int
      BY <3>1, <3>2
    <3>4. record' \in AnyRecord
      BY <2>6, <3>1, <3>3 DEF ReadRecord, AnyRecord
    <3> QED
      BY <2>6, <3>1, <3>3, <3>4 DEF ReadRecord
  <2>7. CASE LoseRecord
    BY <2>7 DEF LoseRecord
  <2>8. CASE StampGeneration
    <3>1. record \in AnyRecord /\ record.hal \in Nat
      BY <2>8 DEF StampGeneration, AnyRecord
    <3>3. Owner \in Int
      BY AudioAssumption DEF Owner, Types, AudioAssumption
    <3>2. record' \in AnyRecord /\ inputGeneration' \in Nat
      BY <2>8, <3>1, <3>3 DEF StampGeneration, AnyRecord
    <3> QED
      BY <2>8, <3>2 DEF StampGeneration
  <2>9. CASE Enqueue
    <3>1. queue' \in Seq(AnyPacket)
      BY <2>9, EnqueueTypes
    <3> QED
      BY <2>9, <3>1 DEF Enqueue
  <2>10. CASE PopPacket
    BY <2>10, PopTypes DEF PopPacket
  <2>11. CASE NotConnected \/ SendFails \/ SenderExits
    BY <2>11 DEF NotConnected, SendFails, SenderExits
  <2>12. CASE AcceptHost
    BY <2>12 DEF AcceptHost, AnyPacket
  <2>13. CASE SendPacket
    BY <2>13 DEF SendPacket, AnyPacket
  <2>14. CASE StopRunning \/ Destructor
    BY <2>14, EmptySeq DEF StopRunning, Destructor, NotifyWorker, JoinWorker, JoinSender, Notified
  <2>15. CASE UNCHANGED vars
    BY <2>15 DEF vars
  <2> QED
    BY <2>1, <2>2, <2>3, <2>4, <2>5, <2>6, <2>7, <2>8, <2>9, <2>10, <2>11, <2>12, <2>13, <2>14,
       <2>15 DEF Next, SetInputQueue, WorkerLoop, SenderLoop
<1> QED
  BY <1>1, <1>2, PTL DEF Spec

-----------------------------------------------------------------------------
(* Losses                                                                  *)

(* Packets are numbered as they are enqueued, and leave the queue at the   *)
(* front only: it holds the last ones, and what lies between them and the  *)
(* packet delivered last is a loss for which the force flag, or the        *)
(* discontinuity of the packet in hand, stands.                            *)
Gone == enqueued - Len(queue)

QueueHoldsTheLast ==
  /\ Len(queue) <= enqueued
  /\ \A i \in 1 .. Len(queue) : queue[i].index = Gone + i

LossIsOnRecord ==
  /\ sender = "idle" =>
       /\ delivered.index <= Gone
       /\ life # "stopped" /\ ~force => delivered.index = Gone
  /\ sender = "holding" =>
       /\ delivered.index < sending.index /\ sending.index <= Gone
       /\ life # "stopped" /\ ~force => sending.index = Gone
       /\ sending.disc \/ sending.index = delivered.index + 1

LossInv ==
  /\ QueueHoldsTheLast
  /\ LossIsOnRecord
  /\ life = "gone" => sender = "done"

(* A packet enqueued is the newest; one dropped to make room sets the flag *)
(* (HostAudioSink::Impl::Enqueue).                                         *)
LEMMA EnqueueKeepsLoss ==
  ASSUME Types, LossInv, Enqueue
  PROVE  LossInv'
<1>1. /\ Remaining \in Seq(AnyPacket) /\ queue \in Seq(AnyPacket)
      /\ EncodedPacket \in AnyPacket /\ EncodedPacket.index = enqueued + 1
      /\ queue' = Append(Remaining, EncodedPacket)
      /\ enqueued' = enqueued + 1 /\ enqueued \in Nat
      /\ UNCHANGED << life, sender, sending, delivered >>
  BY EnqueueTypes DEF Enqueue, Types
<1>2. /\ Len(Remaining) \in Nat /\ Len(queue) \in Nat
      /\ queue' \in Seq(AnyPacket) /\ Len(queue') = Len(Remaining) + 1
      /\ \A i \in 1 .. Len(Remaining) : queue'[i] = Remaining[i]
      /\ queue'[Len(Remaining) + 1] = EncodedPacket
  BY <1>1, LenProperties, AppendProperties
<1>3. /\ Len(Remaining) <= Len(queue)
      /\ \A i \in 1 .. Len(Remaining) : Remaining[i].index = enqueued - Len(Remaining) + i
      /\ Len(Remaining) # Len(queue) => force'
  <2>1. CASE Remaining = << >>
    <3>1. Len(Remaining) = 0
      BY <2>1, EmptySeq
    <3>2. Len(queue) # 0 => Drops
      <4> SUFFICES ASSUME Len(queue) # 0, activeGeneration = outputGeneration PROVE Drops
        BY DEF Drops
      <4>1. queue # << >>
        BY EmptySeq
      <4> QED
        BY <2>1, <4>1 DEF Remaining, Drops
    <3>3. Drops => force'
      BY Zenon DEF Enqueue
    <3> QED
      BY <1>2, <3>1, <3>2, <3>3
  <2>2. CASE Remaining = queue
    BY <1>1, <1>2, <2>2 DEF LossInv, QueueHoldsTheLast, Gone
  <2>3. CASE Remaining = Tail(queue) /\ Drops /\ queue # << >>
    <3>1. Len(Remaining) = Len(queue) - 1
          /\ \A i \in 1 .. Len(Remaining) : Remaining[i] = queue[i + 1]
      BY <1>1, <2>3, HeadTailProperties
    <3>2. \A i \in 1 .. Len(queue) : queue[i].index = enqueued - Len(queue) + i
      BY DEF LossInv, QueueHoldsTheLast, Gone
    <3>3. force'
      BY <2>3, Zenon DEF Enqueue
    <3> QED
      BY <1>1, <1>2, <3>1, <3>2, <3>3
  <2>4. queue = << >> => Len(queue) # MaxBuffered
    BY EmptySeq, AudioAssumption DEF AudioAssumption
  <2> QED
    BY <2>1, <2>2, <2>3, <2>4 DEF Remaining, Drops
<1>4. Gone' = enqueued - Len(Remaining)
  BY <1>1, <1>2 DEF Gone
<1>5. QueueHoldsTheLast'
  <2>1. Len(queue') <= enqueued'
    BY <1>1, <1>2, <1>3 DEF LossInv, QueueHoldsTheLast
  <2>2. ASSUME NEW i \in 1 .. Len(queue') PROVE queue'[i].index = Gone' + i
    <3>1. i \in 1 .. Len(Remaining) \/ i = Len(Remaining) + 1
      BY <1>2
    <3>2. CASE i \in 1 .. Len(Remaining)
      BY <1>2, <1>3, <1>4, <3>2
    <3>3. CASE i = Len(Remaining) + 1
      BY <1>1, <1>2, <1>4, <3>3
    <3> QED
      BY <3>1, <3>2, <3>3
  <2> QED
    BY <2>1, <2>2 DEF QueueHoldsTheLast
<1>6. LossIsOnRecord'
  <2>1. Gone' >= Gone /\ (Gone' # Gone => force')
    BY <1>1, <1>2, <1>3, <1>4 DEF Gone
  <2>3. ~force' => ~force
    BY Zenon DEF Enqueue
  <2>2. Gone \in Int /\ Gone' \in Int /\ delivered.index \in Nat
        /\ (sender = "holding" => sending.index \in Nat)
    <3>1. Gone \in Int /\ Gone' \in Int
      BY <1>1, <1>2, <1>4 DEF Gone
    <3>2. delivered.index \in Nat /\ (sender = "holding" => sending.index \in Nat)
      BY DEF Types, AnyPacket
    <3> QED
      BY <3>1, <3>2
  <2> QED
    BY <1>1, <2>1, <2>2, <2>3 DEF LossInv, LossIsOnRecord
<1> QED
  BY <1>1, <1>5, <1>6 DEF LossInv

(* The sender takes the packet after those gone, and the flag with it      *)
(* (HostAudioSink::Impl::SenderLoop).                                      *)
LEMMA PopKeepsLoss ==
  ASSUME Types, LossInv, PopPacket
  PROVE  LossInv'
<1>1. /\ queue \in Seq(AnyPacket) /\ queue # << >> /\ queue' = Tail(queue)
      /\ sender = "idle" /\ life # "stopped" /\ sender' = "holding" /\ force' = FALSE
      /\ UNCHANGED << life, delivered, enqueued >>
      /\ enqueued \in Nat /\ delivered.index \in Nat
  BY DEF PopPacket, Types, sessionVars
<1>2. /\ Len(queue) \in Nat /\ Len(queue') = Len(queue) - 1 /\ Len(queue) # 0
      /\ \A i \in 1 .. Len(queue') : queue'[i] = queue[i + 1]
      /\ Head(queue) = queue[1]
  BY <1>1, HeadTailProperties, LenProperties, EmptySeq
<1>3. \A i \in 1 .. Len(queue) : queue[i].index = Gone + i
  BY DEF LossInv, QueueHoldsTheLast
<1>4. Gone \in Int /\ Gone' = Gone + 1
  BY <1>1, <1>2 DEF Gone
<1>5. sending'.index = Gone + 1 /\ sending'.disc = (Head(queue).disc \/ force)
  <2>1. 1 \in 1 .. Len(queue)
    BY <1>2
  <2> QED
    BY <2>1, <1>2, <1>3, PopTypes
<1>6. QueueHoldsTheLast'
  <2>1. Len(queue') <= enqueued'
    BY <1>1, <1>2 DEF LossInv, QueueHoldsTheLast
  <2>2. ASSUME NEW i \in 1 .. Len(queue') PROVE queue'[i].index = Gone' + i
    <3>1. i + 1 \in 1 .. Len(queue)
      BY <1>2
    <3>2. queue[i + 1].index = Gone + (i + 1)
      BY <1>3, <3>1
    <3>3. queue'[i] = queue[i + 1]
      BY <1>2
    <3> QED
      BY <1>4, <3>2, <3>3
  <2> QED
    BY <2>1, <2>2 DEF QueueHoldsTheLast
<1>7. delivered.index <= Gone /\ (~force => delivered.index = Gone)
  BY <1>1 DEF LossInv, LossIsOnRecord
<1>8. sending'.disc \/ sending'.index = delivered'.index + 1
  <2>1. CASE force
    BY <2>1, <1>5
  <2>2. CASE ~force
    BY <2>2, <1>1, <1>5, <1>7
  <2> QED
    BY <2>1, <2>2
<1>9. LossIsOnRecord'
  BY <1>1, <1>4, <1>5, <1>7, <1>8 DEF LossIsOnRecord
<1>10. ~(life = "gone")
  BY <1>1 DEF LossInv
<1> QED
  BY <1>1, <1>6, <1>9, <1>10 DEF LossInv

(* Emptying the queue - on a new input, or as the sink is destroyed - only *)
(* adds to what is gone.                                                   *)
LEMMA ClearKeepsLoss ==
  ASSUME Types, LossInv, DiscardPending \/ JoinWorker
  PROVE  LossInv'
<1>1. /\ queue' = << >> /\ Len(queue) \in Nat /\ Len(queue') = 0
      /\ enqueued \in Nat /\ Len(queue) <= enqueued
      /\ delivered.index \in Nat
      /\ UNCHANGED << sender, sending, delivered, enqueued >>
  BY EmptySeq, LenProperties DEF DiscardPending, JoinWorker, Types, LossInv, QueueHoldsTheLast
<1>2. Gone \in Int /\ Gone' = enqueued /\ Gone <= Gone'
  BY <1>1 DEF Gone
<1>3. QueueHoldsTheLast'
  BY <1>1 DEF QueueHoldsTheLast
<1>4. life' = "stopped" \/ force'
  BY DEF DiscardPending, JoinWorker
<1>5. life' = "gone" => life = "gone"
  BY DEF DiscardPending, JoinWorker
<1>6. sender = "holding" => sending.index \in Nat
  BY DEF Types, AnyPacket
<1>7. LossIsOnRecord'
  BY <1>1, <1>2, <1>4, <1>6 DEF LossInv, LossIsOnRecord
<1> QED
  BY <1>1, <1>3, <1>5, <1>7 DEF LossInv

(* What the sender does with the packet it holds.                          *)
LEMMA SenderKeepsLoss ==
  ASSUME Types, LossInv,
         NotConnected \/ AcceptHost \/ SendPacket \/ SendFails \/ SenderExits
  PROVE  LossInv'
<1>1. UNCHANGED << life, queue, enqueued >>
  BY DEF NotConnected, AcceptHost, SendPacket, SendFails, SenderExits, sessionVars
<1>2. Gone' = Gone /\ QueueHoldsTheLast'
  BY <1>1 DEF Gone, LossInv, QueueHoldsTheLast
<1>3. sender = "holding" => sending \in AnyPacket /\ sending.index \in Nat
  BY DEF Types, AnyPacket
<1>4. Gone \in Int
  BY LenProperties DEF Types, Gone
<1>5. CASE NotConnected \/ SendFails
  BY <1>1, <1>2, <1>3, <1>4, <1>5 DEF NotConnected, SendFails, LossInv, LossIsOnRecord, Types
<1>6. CASE AcceptHost
  <2>1. sending'.index = sending.index /\ sending'.disc
    BY <1>3, <1>6 DEF AcceptHost, AnyPacket
  <2> QED
    BY <1>1, <1>2, <1>6, <2>1 DEF AcceptHost, LossInv, LossIsOnRecord
<1>7. CASE SendPacket
  <2>1. delivered'.index = sending.index
    BY <1>7 DEF SendPacket
  <2> QED
    BY <1>1, <1>2, <1>7, <2>1 DEF SendPacket, LossInv, LossIsOnRecord
<1>8. CASE SenderExits
  BY <1>1, <1>2, <1>8 DEF SenderExits, LossInv, LossIsOnRecord
<1> QED
  BY <1>5, <1>6, <1>7, <1>8

(* So losses stay on record.                                               *)
THEOREM AudioLosses == Spec => []LossInv
<1>1. Init => LossInv
  <2> SUFFICES ASSUME Init PROVE LossInv
    OBVIOUS
  <2>1. queue = << >> /\ Len(queue) = 0 /\ enqueued = 0 /\ sender = "idle" /\ force
        /\ life = "running" /\ delivered.index = 0
    BY EmptySeq DEF Init, Nothing
  <2> QED
    BY <2>1 DEF LossInv, QueueHoldsTheLast, LossIsOnRecord, Gone
<1>2. Types /\ LossInv /\ [Next]_vars => LossInv'
  <2> SUFFICES ASSUME Types, LossInv, [Next]_vars PROVE LossInv'
    OBVIOUS
  <2>1. CASE Enqueue
    BY <2>1, EnqueueKeepsLoss
  <2>2. CASE PopPacket
    BY <2>2, PopKeepsLoss
  <2>3. CASE DiscardPending \/ JoinWorker
    BY <2>3, ClearKeepsLoss
  <2>4. CASE NotConnected \/ AcceptHost \/ SendPacket \/ SendFails \/ SenderExits
    BY <2>4, SenderKeepsLoss
  <2>5. CASE LoseRecord
    BY <2>5 DEF LoseRecord, LossInv, QueueHoldsTheLast, LossIsOnRecord, Gone
  <2>6. CASE \/ OpenOutput \/ ForgetGeneration \/ FindNoInput \/ WaitForInput \/ WorkerExits
             \/ TakeQueue \/ ReadNothing \/ ReadRecord \/ StampGeneration
             \/ UNCHANGED vars
    <3>1. UNCHANGED << life, sinkVars >>
      BY <2>6 DEF OpenOutput, ForgetGeneration, FindNoInput, WaitForInput, WorkerExits, TakeQueue,
                  ReadNothing, ReadRecord, StampGeneration, vars, sessionVars
    <3> QED
      BY <3>1 DEF sinkVars, LossInv, QueueHoldsTheLast, LossIsOnRecord, Gone
  <2>7. CASE StopRunning \/ NotifyWorker \/ JoinSender
    <3>1. /\ UNCHANGED sinkVars
          /\ life' # "stopped" => life # "stopped" \/ sender = "done"
          /\ life' = "gone" => sender = "done"
      BY <2>7 DEF StopRunning, NotifyWorker, JoinSender
    <3> QED
      BY <3>1 DEF sinkVars, LossInv, QueueHoldsTheLast, LossIsOnRecord, Gone
  <2> QED
    BY <2>1, <2>2, <2>3, <2>4, <2>5, <2>6, <2>7
       DEF Next, SetInputQueue, WorkerLoop, SenderLoop, Destructor
<1> QED
  BY <1>1, <1>2, AudioTypes, PTL DEF Spec

(* The host gets packets from SendPacket only.                             *)
LEMMA OnlySendPacketDelivers ==
  ASSUME Next, delivered' # delivered
  PROVE  SendPacket
  BY DEF Next, SetInputQueue, OpenOutput, ForgetGeneration, DiscardPending, WorkerLoop, FindNoInput,
         WaitForInput, WorkerExits, TakeQueue, ReadNothing, ReadRecord, LoseRecord,
         StampGeneration, Enqueue, SenderLoop, PopPacket, NotConnected, AcceptHost, SendFails,
         SenderExits, StopRunning, Destructor, NotifyWorker, JoinWorker, JoinSender, sinkVars

(* Whatever the sink drops, the next packet the host gets says so, and     *)
(* packets never overtake one another (HostAudioSink).                     *)
THEOREM AudioLossIsFlagged == Spec => SinkLossIsFlagged
<1> DEFINE Flagged == delivered' # delivered =>
                        /\ delivered'.index > delivered.index
                        /\ delivered'.index # delivered.index + 1 => delivered'.disc
<1>1. Types /\ LossInv /\ [Next]_vars => [Flagged]_vars
  <2> SUFFICES ASSUME Types, LossInv, Next, delivered' # delivered
               PROVE  /\ delivered'.index > delivered.index
                      /\ delivered'.index # delivered.index + 1 => delivered'.disc
    BY DEF vars, sinkVars
  <2>1. SendPacket
    BY OnlySendPacketDelivers
  <2>2. /\ delivered'.index = sending.index
        /\ sending.disc => delivered'.disc
    BY <2>1 DEF SendPacket
  <2>3. /\ delivered.index < sending.index
        /\ sending.disc \/ sending.index = delivered.index + 1
    BY <2>1 DEF SendPacket, LossInv, LossIsOnRecord
  <2>4. sending.index \in Nat /\ delivered.index \in Nat
    BY <2>1 DEF SendPacket, Types, AnyPacket
  <2> QED
    BY <2>2, <2>3, <2>4
<1> QED
  BY <1>1, AudioTypes, AudioLosses, PTL DEF Spec, SinkLossIsFlagged

-----------------------------------------------------------------------------
(* Generations                                                             *)

(* Each generation of the wire, and the HAL's under it, that a packet the  *)
(* sink still answers for carries: queued, in hand, or delivered last.     *)
Streams ==
  { Says(queue[i]) : i \in 1 .. Len(queue) }
    \cup { Says(p) : p \in IF sender = "holding" THEN { sending, delivered } ELSE { delivered } }

(* Two of them agree if they are of one HAL generation and of one output.  *)
Agree(s, t) == s[2] = t[2] /\ s[3] = t[3]

Stamped == << outputGeneration, record.hal, record.owner >>

(* One that the worker still feeds has the HAL generation and the output   *)
(* that are in force, or agrees with the record it has stamped.            *)
StreamsAreWhole ==
  /\ \A s, t \in Streams : s[1] = t[1] => Agree(s, t)
  /\ \A s \in Streams : s[1] \in Nat /\ s[1] <= outputGeneration
  /\ \A s \in Streams : s[1] = outputGeneration =>
       /\ inputGeneration # 0 => s[2] = inputGeneration /\ s[3] = Owner
       /\ worker = "stamped" => Agree(s, Stamped)
  /\ worker = "stamped" /\ inputGeneration # 0 =>
       record.hal = inputGeneration /\ record.owner = Owner

(* Generations enter the queue in order: it holds one at a time.           *)
GenerationsAscend ==
  /\ \A i \in 1 .. Len(queue) : queue[i].generation = activeGeneration
  /\ delivered.generation <= activeGeneration /\ activeGeneration <= outputGeneration
  /\ sender = "holding" => /\ delivered.generation <= sending.generation
                           /\ sending.generation <= activeGeneration

StreamInv == StreamsAreWhole /\ GenerationsAscend

(* A packet enqueued is of the stream the worker stamped (Enqueue).        *)
LEMMA EnqueueKeepsStreams ==
  ASSUME Types, StreamInv, Enqueue
  PROVE  StreamInv'
<1>1. /\ Remaining \in Seq(AnyPacket) /\ queue \in Seq(AnyPacket)
      /\ EncodedPacket \in AnyPacket
      /\ Says(EncodedPacket) = Stamped /\ EncodedPacket.generation = outputGeneration
      /\ queue' = Append(Remaining, EncodedPacket)
      /\ activeGeneration' = outputGeneration
      /\ worker = "stamped" /\ worker' = "idle"
      /\ UNCHANGED << sender, sending, delivered, inputGeneration, outputGeneration, input, opener >>
  BY EnqueueTypes DEF Enqueue, Types, Stamped
<1>2. /\ Len(Remaining) \in Nat /\ Len(queue) \in Nat
      /\ Len(queue') = Len(Remaining) + 1
      /\ \A i \in 1 .. Len(Remaining) : queue'[i] = Remaining[i]
      /\ queue'[Len(Remaining) + 1] = EncodedPacket
  BY <1>1, LenProperties, AppendProperties
<1>3. \A i \in 1 .. Len(Remaining) :
        /\ activeGeneration = outputGeneration
        /\ \E j \in 1 .. Len(queue) : Remaining[i] = queue[j]
  <2>1. CASE Remaining = << >>
    BY <2>1, EmptySeq
  <2>2. CASE Remaining = queue /\ activeGeneration = outputGeneration
    BY <2>2
  <2>3. CASE Remaining = Tail(queue) /\ activeGeneration = outputGeneration /\ queue # << >>
    <3>1. Len(Remaining) = Len(queue) - 1
          /\ \A i \in 1 .. Len(Remaining) : Remaining[i] = queue[i + 1]
      BY <1>1, <2>3, HeadTailProperties
    <3>2. ASSUME NEW i \in 1 .. Len(Remaining)
          PROVE  i + 1 \in 1 .. Len(queue) /\ Remaining[i] = queue[i + 1]
      BY <1>2, <3>1
    <3> QED
      BY <2>3, <3>2
  <2>4. queue = << >> => Len(queue) # MaxBuffered
    BY EmptySeq, AudioAssumption DEF AudioAssumption
  <2> QED
    BY <2>1, <2>2, <2>3, <2>4 DEF Remaining
<1>4. ASSUME NEW i \in 1 .. Len(queue')
      PROVE  \/ queue'[i] = EncodedPacket
             \/ /\ activeGeneration = outputGeneration
                /\ \E j \in 1 .. Len(queue) : queue'[i] = queue[j]
  <2>1. i \in 1 .. Len(Remaining) \/ i = Len(Remaining) + 1
    BY <1>2
  <2> QED
    BY <1>2, <1>3, <2>1
<1>5. Streams' \subseteq Streams \cup { Stamped }
  BY <1>1, <1>4 DEF Streams
<1>6. StreamsAreWhole'
  <2>1. Owner' = Owner
    BY <1>1 DEF Owner
  <2>2. Stamped[1] = outputGeneration /\ Stamped[2] = record.hal /\ Stamped[3] = record.owner
    BY DEF Stamped
  <2>3. \A s \in Streams : s[1] = Stamped[1] => Agree(s, Stamped) /\ Agree(Stamped, s)
    BY <1>1, <2>2 DEF StreamInv, StreamsAreWhole, Agree
  <2>4. \A s, t \in Streams \cup { Stamped } : s[1] = t[1] => Agree(s, t)
    BY <2>3 DEF StreamInv, StreamsAreWhole, Agree
  <2>5. \A s \in Streams \cup { Stamped } :
          /\ s[1] \in Nat /\ s[1] <= outputGeneration
          /\ s[1] = outputGeneration /\ inputGeneration # 0 =>
               s[2] = inputGeneration /\ s[3] = Owner
    <3>1. outputGeneration \in Nat
      BY DEF Types
    <3> QED
      BY <1>1, <2>2, <3>1 DEF StreamInv, StreamsAreWhole
  <2> QED
    BY <1>1, <1>5, <2>1, <2>4, <2>5 DEF StreamsAreWhole
<1>7. GenerationsAscend'
  <2>1. ASSUME NEW i \in 1 .. Len(queue') PROVE queue'[i].generation = activeGeneration'
    BY <1>1, <1>4 DEF StreamInv, GenerationsAscend
  <2>2. /\ activeGeneration \in Nat /\ outputGeneration \in Nat /\ delivered.generation \in Nat
        /\ sender = "holding" => sending.generation \in Nat
    BY DEF Types, AnyPacket
  <2> QED
    BY <1>1, <2>1, <2>2 DEF StreamInv, GenerationsAscend
<1> QED
  BY <1>6, <1>7 DEF StreamInv

(* The sender passes packets on as they are.                               *)
LEMMA SenderKeepsStreams ==
  ASSUME Types, StreamInv,
         \/ DiscardPending \/ JoinWorker \/ PopPacket \/ NotConnected \/ AcceptHost \/ SendPacket
         \/ SendFails \/ SenderExits
  PROVE  StreamInv'
<1>1. /\ UNCHANGED << inputGeneration, outputGeneration, record, activeGeneration >>
      /\ worker' = "stamped" => worker = "stamped"
      /\ Owner' = Owner /\ Stamped' = Stamped
  BY DEF Owner, Stamped, DiscardPending, JoinWorker, PopPacket, NotConnected, AcceptHost, SendPacket, SendFails,
         SenderExits, sessionVars, Notified
<1>2. Streams' \subseteq Streams /\ GenerationsAscend'
  <2>1. GenerationsAscend
    BY DEF StreamInv
  <2>2. CASE DiscardPending \/ JoinWorker
    <3>1. Len(queue') = 0 /\ UNCHANGED << sender, sending, delivered >>
      BY <2>2, EmptySeq DEF DiscardPending, JoinWorker
    <3> QED
      BY <1>1, <2>1, <3>1 DEF Streams, GenerationsAscend
  <2>3. CASE PopPacket
    <3>1. /\ queue \in Seq(AnyPacket) /\ queue # << >> /\ queue' = Tail(queue)
          /\ sender = "idle" /\ sender' = "holding" /\ delivered' = delivered
      BY <2>3 DEF PopPacket, Types
    <3>2. /\ Len(queue) \in Nat /\ Len(queue') = Len(queue) - 1 /\ Len(queue) # 0
          /\ \A i \in 1 .. Len(queue') : queue'[i] = queue[i + 1]
          /\ Head(queue) = queue[1]
      BY <3>1, HeadTailProperties, LenProperties, EmptySeq
    <3>3. ASSUME NEW i \in 1 .. Len(queue')
          PROVE  i + 1 \in 1 .. Len(queue) /\ queue'[i] = queue[i + 1]
      BY <3>2
    <3>4. /\ 1 \in 1 .. Len(queue)
          /\ sending'.generation = queue[1].generation /\ Says(sending)' = Says(queue[1])
      BY <2>3, <3>2, PopTypes
    <3>5. Streams' \subseteq Streams
      BY <3>1, <3>3, <3>4 DEF Streams
    <3>6. GenerationsAscend'
      <4>1. \A i \in 1 .. Len(queue') : queue'[i].generation = activeGeneration
        BY <2>1, <3>3 DEF GenerationsAscend
      <4>2. sending'.generation = activeGeneration /\ activeGeneration \in Nat
        BY <2>1, <3>4 DEF GenerationsAscend, Types
      <4> QED
        BY <1>1, <2>1, <3>1, <4>1, <4>2 DEF GenerationsAscend
    <3> QED
      BY <3>5, <3>6
  <2>4. CASE NotConnected \/ SendFails \/ SenderExits
    <3>1. sender' # "holding" /\ UNCHANGED << queue, delivered >>
      BY <2>4 DEF NotConnected, SendFails, SenderExits
    <3> QED
      BY <1>1, <2>1, <3>1 DEF Streams, GenerationsAscend
  <2>5. CASE AcceptHost
    <3>1. /\ sending'.generation = sending.generation /\ Says(sending)' = Says(sending)
          /\ sender = "holding" /\ UNCHANGED << sender, queue, delivered >>
      BY <2>5 DEF AcceptHost, Types, AnyPacket, Says
    <3> QED
      BY <1>1, <2>1, <3>1 DEF Streams, GenerationsAscend
  <2>6. CASE SendPacket
    <3>1. /\ delivered'.generation = sending.generation /\ Says(delivered)' = Says(sending)
          /\ sender = "holding" /\ sender' = "idle" /\ queue' = queue
      BY <2>6 DEF SendPacket, Says
    <3> QED
      BY <1>1, <2>1, <3>1 DEF Streams, GenerationsAscend
  <2> QED
    BY <2>2, <2>3, <2>4, <2>5, <2>6
<1>3. StreamsAreWhole'
  BY <1>1, <1>2 DEF StreamInv, StreamsAreWhole
<1> QED
  BY <1>2, <1>3 DEF StreamInv

(* A HAL generation the worker does not know of is given a generation no   *)
(* packet has (WorkerLoop).                                                *)
LEMMA StampKeepsStreams ==
  ASSUME Types, StreamInv, StampGeneration
  PROVE  StreamInv'
<1>1. UNCHANGED sinkVars /\ worker' = "stamped" /\ inputGeneration' = record.hal /\ Owner' = Owner
  BY DEF StampGeneration, Owner
<1>2. /\ record'.hal = record.hal /\ record.hal # 0 /\ record'.owner = Owner
  BY DEF StampGeneration, Types, AnyRecord
<1>3. Streams' = Streams
  BY <1>1 DEF Streams, Says, sinkVars
<1>4. outputGeneration \in Nat /\ activeGeneration \in Nat
  BY DEF Types
<1>5. CASE inputGeneration # record.hal
  <2>1. outputGeneration' = outputGeneration + 1
    BY <1>4, <1>5 DEF StampGeneration
  <2>2. \A s \in Streams : s[1] \in Nat /\ s[1] < outputGeneration'
    BY <1>4, <2>1 DEF StreamInv, StreamsAreWhole
  <2>3. \A s \in Streams : s[1] # outputGeneration'
    BY <1>4, <2>1, <2>2
  <2>4. StreamsAreWhole'
    <3>1. \A s, t \in Streams : s[1] = t[1] => Agree(s, t)
      BY DEF StreamInv, StreamsAreWhole
    <3>2. \A s \in Streams : s[1] \in Nat /\ s[1] <= outputGeneration'
      BY <1>4, <2>1, <2>2
    <3> QED
      BY <1>1, <1>2, <1>3, <2>3, <3>1, <3>2 DEF StreamsAreWhole
  <2>5. GenerationsAscend'
    BY <1>1, <1>4, <2>1 DEF sinkVars, StreamInv, GenerationsAscend
  <2> QED
    BY <2>4, <2>5 DEF StreamInv
<1>6. CASE inputGeneration = record.hal
  <2>1. outputGeneration' = outputGeneration
    BY <1>4, <1>6 DEF StampGeneration
  <2>2. \A s \in Streams : s[1] = outputGeneration =>
          s[2] = record.hal /\ s[3] = Owner
    BY <1>2, <1>6 DEF StreamInv, StreamsAreWhole
  <2>3. \A s \in Streams : s[1] = outputGeneration => Agree(s, Stamped')
    BY <1>2, <2>2 DEF Agree, Stamped
  <2>4. GenerationsAscend'
    BY <1>1, <2>1 DEF sinkVars, StreamInv, GenerationsAscend
  <2>5. StreamsAreWhole'
    <3>1. \A s, t \in Streams : s[1] = t[1] => Agree(s, t)
      BY DEF StreamInv, StreamsAreWhole
    <3>2. \A s \in Streams : s[1] \in Nat /\ s[1] <= outputGeneration
      BY DEF StreamInv, StreamsAreWhole
    <3> QED
      BY <1>1, <1>2, <1>3, <2>1, <2>2, <2>3, <3>1, <3>2 DEF StreamsAreWhole
  <2> QED
    BY <2>4, <2>5 DEF StreamInv
<1> QED
  BY <1>5, <1>6

(* So streams are whole in every reachable state.                          *)
THEOREM AudioStreams == Spec => []StreamInv
<1>1. Init => StreamInv
  <2> SUFFICES ASSUME Init PROVE StreamInv
    OBVIOUS
  <2>1. /\ Len(queue) = 0 /\ sender = "idle" /\ worker = "idle"
        /\ inputGeneration = 0 /\ outputGeneration = 0 /\ activeGeneration = 0
        /\ delivered.generation = 0 /\ Says(delivered) = << 0, 0, 0 >>
    BY EmptySeq DEF Init, Nothing, Says
  <2>2. Streams = { Says(delivered) }
    <3>1. 1 .. Len(queue) = {} /\ sender # "holding"
      BY <2>1
    <3> QED
      BY <3>1, Zenon DEF Streams
  <2> QED
    BY <2>1, <2>2 DEF StreamInv, StreamsAreWhole, Agree, GenerationsAscend
<1>2. Types /\ StreamInv /\ [Next]_vars => StreamInv'
  <2> SUFFICES ASSUME Types, StreamInv, [Next]_vars PROVE StreamInv'
    OBVIOUS
  <2>1. CASE Enqueue
    BY <2>1, EnqueueKeepsStreams
  <2>2. CASE \/ DiscardPending \/ JoinWorker \/ PopPacket \/ NotConnected \/ AcceptHost
             \/ SendPacket \/ SendFails \/ SenderExits
    BY <2>2, SenderKeepsStreams
  <2>3. CASE StampGeneration
    BY <2>3, StampKeepsStreams
  <2>4. CASE \/ OpenOutput \/ ForgetGeneration \/ FindNoInput \/ WaitForInput \/ WorkerExits
             \/ TakeQueue \/ ReadNothing \/ ReadRecord \/ LoseRecord \/ StopRunning
             \/ NotifyWorker \/ JoinSender \/ UNCHANGED vars
    <3>1. /\ UNCHANGED << queue, activeGeneration, sender, sending, delivered, outputGeneration >>
          /\ (inputGeneration' = inputGeneration /\ Owner' = Owner) \/ inputGeneration' = 0
          /\ worker' = "stamped" => worker = "stamped" /\ record' = record
      BY <2>4 DEF Owner, Types, OpenOutput, ForgetGeneration, FindNoInput, WaitForInput, WorkerExits, TakeQueue,
                  ReadNothing, ReadRecord, LoseRecord, StopRunning, NotifyWorker, JoinSender,
                  Notified, vars, sessionVars, sinkVars
    <3>2. Streams' = Streams /\ (worker' = "stamped" => Stamped' = Stamped)
      BY <3>1 DEF Streams, Stamped
    <3> QED
      BY <3>1, <3>2 DEF StreamInv, StreamsAreWhole, GenerationsAscend
  <2> QED
    BY <2>1, <2>2, <2>3, <2>4
       DEF Next, SetInputQueue, WorkerLoop, SenderLoop, Destructor
<1> QED
  BY <1>1, <1>2, AudioTypes, PTL DEF Spec

(* A generation at the host is of one output, one that repeats a number of *)
(* the HAL's included, and so are its records, but for those that were not *)
(* stamped for their own output; and generations never go back, however    *)
(* SetInputQueue cuts in (AudioStreamSession).                             *)
THEOREM AudioGenerations == Spec => GenerationIsOneOutput
<1> DEFINE OneOutput == delivered'.owner = delivered.owner
           Whole == delivered' # delivered =>
                      /\ delivered'.generation >= delivered.generation
                      /\ delivered'.generation = delivered.generation =>
                           delivered'.hal = delivered.hal /\ OneOutput
<1>1. Types /\ StreamInv /\ [Next]_vars => [Whole]_vars
  <2> SUFFICES ASSUME Types, StreamInv, Next, delivered' # delivered
               PROVE  /\ delivered'.generation >= delivered.generation
                      /\ delivered'.generation = delivered.generation =>
                           delivered'.hal = delivered.hal /\ OneOutput
    BY DEF vars, sinkVars
  <2>1. SendPacket
    BY OnlySendPacketDelivers
  <2>2. /\ delivered'.generation = sending.generation /\ delivered'.hal = sending.hal
        /\ delivered'.owner = sending.owner
        /\ sender = "holding"
    BY <2>1 DEF SendPacket
  <2>3. Says(sending) \in Streams /\ Says(delivered) \in Streams
    BY <2>2 DEF Streams
  <2>4. sending.generation = delivered.generation => Agree(Says(sending), Says(delivered))
    <3>1. \A s, t \in Streams : s[1] = t[1] => Agree(s, t)
      BY DEF StreamInv, StreamsAreWhole
    <3>2. Says(sending)[1] = sending.generation /\ Says(delivered)[1] = delivered.generation
      BY DEF Says
    <3> QED
      BY <2>3, <3>1, <3>2
  <2>5. /\ delivered.generation <= sending.generation
        /\ sending.generation \in Nat /\ delivered.generation \in Nat
    BY <2>2 DEF StreamInv, GenerationsAscend, Types, AnyPacket
  <2>6. delivered'.generation = delivered.generation => delivered'.hal = delivered.hal /\ OneOutput
    BY <2>2, <2>4 DEF Says, Agree
  <2> QED
    BY <2>2, <2>5, <2>6
<1> QED
  BY <1>1, AudioTypes, AudioStreams, PTL DEF Spec, GenerationIsOneOutput

-----------------------------------------------------------------------------
(* The destructors join the worker and the sender.  What can be said of    *)
(* DestructorReturns without fairness: neither thread sleeps when it is    *)
(* joined, but for the one race that property leaves out, and each has a   *)
(* bounded number of turns left.                                           *)

\* A session that was given an input has no worker that waits for one, except
\* between the sections of SetInputQueue, which no destructor cuts into.
InputIsHeardOf ==
  /\ input # 0 => worker # "blocking" /\ (opener = "idle" => worker # "waiting")
  /\ life # "running" => opener = "idle"

JoinsNoSleeper == input # 0 /\ life # "running" => worker \notin { "blocking", "waiting" }

\* The worker is where the notification reaches it, or was reached by it.
Hears ==
  IF life = "stopping" THEN worker # "blocking" ELSE worker \notin { "blocking", "waiting" }

OnceHeardAlwaysHeard == [][ life # "running" /\ Hears => Hears' ]_vars

\* The sink is gone only after its sender.
SenderReturned == life = "gone" => sender = "done"

\* The turns that are left to a worker whose session ends, and to the sender after it.
WorkerTurns ==
  [ w \in { "blocking", "waiting", "reading", "holding", "stamped", "idle", "done" } |->
      IF w = "done" THEN 0 ELSE IF w = "idle" THEN 1 ELSE IF w = "stamped" THEN 2
      ELSE IF w = "holding" THEN 3 ELSE IF w = "reading" THEN 4 ELSE IF w = "waiting" THEN 5 ELSE 6 ]

SenderTurns(s, isConnected) ==
  IF s = "done" THEN 0 ELSE IF s = "idle" THEN 1 ELSE IF isConnected THEN 2 ELSE 3

StopTakesTurns ==
  [][ /\ life # "running" /\ worker' # worker => WorkerTurns[worker'] < WorkerTurns[worker]
      /\ life \in { "stopped", "gone" } /\ << sender, connected >>' # << sender, connected >> =>
           SenderTurns(sender', connected') < SenderTurns(sender, connected) ]_vars

\* How many turns are left where.
LEMMA WorkerTurnsAre ==
  /\ WorkerTurns["done"] = 0 /\ WorkerTurns["idle"] = 1 /\ WorkerTurns["stamped"] = 2
  /\ WorkerTurns["holding"] = 3 /\ WorkerTurns["reading"] = 4 /\ WorkerTurns["waiting"] = 5
  /\ WorkerTurns["blocking"] = 6
  BY DEF WorkerTurns

\* The critical sections of SetInputQueue and of the wait, and the notification.
LEMMA InputStep == ASSUME InputIsHeardOf, [Next]_vars PROVE InputIsHeardOf'
<1> USE DEF InputIsHeardOf
<1>1. CASE SetInputQueue
  BY <1>1 DEF SetInputQueue, OpenOutput, ForgetGeneration, DiscardPending, Notified
<1>2. CASE WorkerLoop
  BY <1>2 DEF WorkerLoop, FindNoInput, WaitForInput, WorkerExits, TakeQueue, ReadNothing, ReadRecord,
              LoseRecord, StampGeneration, Enqueue
<1>3. CASE SenderLoop
  BY <1>3 DEF SenderLoop, PopPacket, NotConnected, AcceptHost, SendPacket, SendFails, SenderExits,
              sessionVars
<1>4. CASE StopRunning \/ Destructor
  BY <1>4 DEF StopRunning, Destructor, NotifyWorker, JoinWorker, JoinSender, Notified
<1>5. CASE UNCHANGED vars
  BY <1>5 DEF vars, sessionVars
<1> QED
  BY <1>1, <1>2, <1>3, <1>4, <1>5 DEF Next

\* Where the worker goes once running_ is cleared.
LEMMA WorkerMoves ==
  ASSUME InputIsHeardOf, [Next]_vars, life # "running", worker' # worker
  PROVE  /\ \/ worker = "blocking" /\ worker' = "waiting"
            \/ worker = "waiting" /\ worker' = "idle"
            \/ worker = "idle" /\ worker' = "done"
            \/ worker = "reading" /\ worker' \in { "idle", "holding" }
            \/ worker = "holding" /\ worker' \in { "idle", "stamped" }
            \/ worker = "stamped" /\ worker' = "idle"
         /\ life' = life \/ (life = "stopping" /\ life' = "joining")
<1>1. CASE WorkerLoop
  BY <1>1 DEF WorkerLoop, FindNoInput, WaitForInput, WorkerExits, TakeQueue, ReadNothing, ReadRecord,
              LoseRecord, StampGeneration, Enqueue
<1>2. CASE Destructor
  BY <1>2 DEF Destructor, NotifyWorker, JoinWorker, JoinSender, Notified
<1>3. CASE SetInputQueue \/ StopRunning
  BY <1>3 DEF SetInputQueue, OpenOutput, ForgetGeneration, DiscardPending, StopRunning, InputIsHeardOf
<1>4. CASE SenderLoop \/ UNCHANGED vars
  BY <1>4 DEF SenderLoop, PopPacket, NotConnected, AcceptHost, SendPacket, SendFails, SenderExits,
              sessionVars, vars
<1> QED
  BY <1>1, <1>2, <1>3, <1>4 DEF Next

\* A worker that the notification can reach is not lost again.
LEMMA HearsStep ==
  ASSUME InputIsHeardOf, [Next]_vars, life # "running", Hears
  PROVE  Hears'
<1>1. CASE worker' # worker
  BY <1>1, WorkerMoves DEF Hears
<1>2. CASE worker' = worker /\ life' # life
  BY <1>2 DEF Next, SetInputQueue, OpenOutput, ForgetGeneration, DiscardPending, WorkerLoop, FindNoInput,
              WaitForInput, WorkerExits, TakeQueue, ReadNothing, ReadRecord, LoseRecord, StampGeneration,
              Enqueue, SenderLoop, PopPacket, NotConnected, AcceptHost, SendPacket, SendFails,
              SenderExits, StopRunning, Destructor, NotifyWorker, JoinWorker, JoinSender, Notified,
              Hears, sessionVars, vars
<1>3. CASE worker' = worker /\ life' = life
  BY <1>3 DEF Hears
<1> QED
  BY <1>1, <1>2, <1>3

\* The sender after Stop: nothing is left for it but the packet it holds.
LEMMA SenderMoves ==
  ASSUME SenderReturned, [Next]_vars, life \in { "stopped", "gone" },
         << sender, connected >>' # << sender, connected >>
  PROVE  SenderTurns(sender', connected') < SenderTurns(sender, connected)
<1>1. CASE PopPacket
  BY <1>1 DEF PopPacket, SenderReturned
<1>2. CASE NotConnected
  BY <1>2 DEF NotConnected, SenderTurns
<1>3. CASE AcceptHost
  BY <1>3 DEF AcceptHost, SenderTurns
<1>4. CASE SendPacket
  BY <1>4 DEF SendPacket, SenderTurns
<1>5. CASE SendFails
  BY <1>5 DEF SendFails, SenderTurns
<1>6. CASE SenderExits
  BY <1>6 DEF SenderExits, SenderTurns
<1>7. CASE SetInputQueue \/ WorkerLoop \/ StopRunning \/ Destructor \/ UNCHANGED vars
  BY <1>7 DEF SetInputQueue, OpenOutput, ForgetGeneration, DiscardPending, WorkerLoop, FindNoInput,
              WaitForInput, WorkerExits, TakeQueue, ReadNothing, ReadRecord, LoseRecord, StampGeneration,
              Enqueue, StopRunning, Destructor, NotifyWorker, JoinWorker, JoinSender, sinkVars, vars
<1> QED
  BY <1>1, <1>2, <1>3, <1>4, <1>5, <1>6, <1>7 DEF Next, SenderLoop

\* A sender that returned stays so.
LEMMA ReturnedStep == ASSUME SenderReturned, [Next]_vars PROVE SenderReturned'
  BY DEF SenderReturned, Next, SetInputQueue, OpenOutput, ForgetGeneration, DiscardPending, WorkerLoop,
         FindNoInput, WaitForInput, WorkerExits, TakeQueue, ReadNothing, ReadRecord, LoseRecord,
         StampGeneration, Enqueue, SenderLoop, PopPacket, NotConnected, AcceptHost, SendPacket, SendFails,
         SenderExits, StopRunning, Destructor, NotifyWorker, JoinWorker, JoinSender,
         sessionVars, sinkVars, vars

\* A session that ever had an input is destroyed without waiting for a worker that
\* sleeps, wherever SetInputQueue left it (WorkerLoop, ~AudioStreamSession).
THEOREM AudioJoinsNoSleeper == Spec => []JoinsNoSleeper
<1>1. Init => InputIsHeardOf
  BY DEF Init, InputIsHeardOf
<1>2. InputIsHeardOf => JoinsNoSleeper
  BY DEF InputIsHeardOf, JoinsNoSleeper
<1> QED
  BY <1>1, <1>2, InputStep, PTL DEF Spec

\* A worker that is not between its predicate and its wait when running_ is cleared
\* hears of it, and from then on the worker and then the sender only take turns that
\* bring them nearer to their ends (~AudioStreamSession, ~Impl of HostAudioSink).
THEOREM AudioStopIsBounded == Spec => OnceHeardAlwaysHeard /\ StopTakesTurns
<1> DEFINE Inv == InputIsHeardOf /\ SenderReturned
           Turns ==
             /\ life # "running" /\ worker' # worker => WorkerTurns[worker'] < WorkerTurns[worker]
             /\ life \in { "stopped", "gone" } /\ << sender, connected >>' # << sender, connected >> =>
                  SenderTurns(sender', connected') < SenderTurns(sender, connected)
<1>1. Init => Inv
  BY DEF Init, InputIsHeardOf, SenderReturned
<1>2. Inv /\ [Next]_vars => Inv'
  BY InputStep, ReturnedStep
<1>3. Inv /\ [Next]_vars => [ life # "running" /\ Hears => Hears' ]_vars
  BY HearsStep
<1>4. Inv /\ [Next]_vars => [ Turns ]_vars
  <2> SUFFICES ASSUME Inv, [Next]_vars PROVE Turns
    OBVIOUS
  <2>1. ASSUME life # "running", worker' # worker PROVE WorkerTurns[worker'] < WorkerTurns[worker]
    BY <2>1, WorkerMoves, WorkerTurnsAre
  <2>2. ASSUME life \in { "stopped", "gone" }, << sender, connected >>' # << sender, connected >>
        PROVE  SenderTurns(sender', connected') < SenderTurns(sender, connected)
    BY <2>2, SenderMoves
  <2> QED
    BY <2>1, <2>2
<1> QED
  BY <1>1, <1>2, <1>3, <1>4, PTL DEF Spec, OnceHeardAlwaysHeard, StopTakesTurns
=============================================================================
