---------------------------- MODULE VideoProofs -----------------------------
(***************************************************************************)
(* The video path for every packet, limit, buffer, interval and number of  *)
(* sessions: the sink's queue, the pacing of the source, and the backend   *)
(* that owns them both.                                                    *)
(*                                                                         *)
(* The sink.  None of its invariants is inductive alone: a failed send may *)
(* set the counter to zero only because the sender's exit empties the      *)
(* queue too, and the sender's decrement is sound only because "sending"   *)
(* and "a packet in flight" are the same thing.  SinkInv adds those facts  *)
(* and that Stop() keeps the queue empty.                                  *)
(*                                                                         *)
(* The pacing.  That the next slot lies beyond every frame let through, by *)
(* the intervals of the frames since, is what makes RateIsKept inductive.  *)
(*                                                                         *)
(* The backend.  It lets frames through exactly as FramePacing says, and   *)
(* its three books are right: the configuration it runs, the encoder's     *)
(* buffers and the frames it waits for.  Each book has an inductive        *)
(* invariant that adds what holds while there is no session, for the next  *)
(* one to start from.                                                      *)
(***************************************************************************)
EXTENDS HostVideoSink, VideoBackend, SequenceTheorems, WellFoundedInduction, TLAPS

-----------------------------------------------------------------------------
(* The sink *)

SenderHoldsPacket == (sender = "sending") <=> (inFlight # None)

StopEmptiesQueue ==
  /\ stopped <=> stopper # "idle"
  /\ stopped => queue = << >>

DisconnectedExits == ~isConnected => sender = "exited"

SinkInv ==
  /\ SinkTypeOK
  /\ PacketAccounting
  /\ NoLostWakeup
  /\ NothingStranded
  /\ SenderHoldsPacket
  /\ StopEmptiesQueue
  /\ DisconnectedExits

\* The constructor establishes the invariant.
LEMMA SinkInitInv == SinkInit => SinkInv
<1> SUFFICES ASSUME SinkInit PROVE SinkInv
  OBVIOUS
<1>1. queue \in Seq(Packet) /\ Len(queue) = 0 /\ inFlight \in Packet \cup {None}
  BY EmptySeq DEF SinkInit
<1>2. isConnected \in BOOLEAN /\ stopped \in BOOLEAN
  BY DEF SinkInit
<1>3. /\ stopper \in { "idle", "marked", "joining", "joined" }
      /\ sender \in { "checking", "waiting", "sending", "exited" }
  BY DEF SinkInit
<1>4. bufferedPackets \in Nat
  BY DEF SinkInit
<1>5. SinkTypeOK
  BY <1>1, <1>2, <1>3, <1>4 DEF SinkTypeOK
<1>6. HeldPackets = 0
  BY <1>1 DEF SinkInit, HeldPackets
<1>7. PacketAccounting
  BY <1>6, SinkLimits DEF SinkInit, PacketAccounting
<1>8. NoLostWakeup /\ NothingStranded /\ StopEmptiesQueue
  BY DEF SinkInit, NoLostWakeup, NothingStranded, StopEmptiesQueue
<1>9. SenderHoldsPacket /\ DisconnectedExits
  BY DEF SinkInit, SenderHoldsPacket, DisconnectedExits
<1> QED
  BY <1>5, <1>7, <1>8, <1>9 DEF SinkInv

\* Accepting a batch keeps the invariant: the admission check is against the
\* counter, and the counter is what is held.
LEMMA EnqueueInv ==
  ASSUME SinkInv, NEW batch \in Batches, SubmitBatch(batch, "Accepted")
  PROVE  SinkInv'
<1> USE DEF SinkInv
<1>1. batch \in Seq(Packet) /\ Len(batch) \in Nat /\ Len(queue) \in Nat
  BY SinkPackets, LenProperties DEF SinkTypeOK
<1>2. ~stopped /\ isConnected
  BY DEF SubmitBatch, SubmitStatus
<1>3. bufferedPackets + Len(batch) <= MaxPackets
  BY <1>1, SinkLimits DEF SubmitBatch, SubmitStatus, Overflows, PacketAccounting
<1>4. Enqueue(batch)
  BY DEF SubmitBatch
<1>5. queue' \in Seq(Packet) /\ Len(queue') = Len(queue) + Len(batch)
  BY <1>1, <1>4, ConcatProperties DEF Enqueue, SinkTypeOK
<1>6. \/ sender \in { "checking", "sending" } /\ sender' = sender
      \/ sender = "waiting" /\ sender' = "checking"
  BY <1>2, <1>4 DEF Enqueue, Notified, SinkTypeOK, NothingStranded
<1>7. SinkTypeOK'
  <2>1. inFlight' \in Packet \cup {None} /\ isConnected' \in BOOLEAN /\ stopped' \in BOOLEAN
    BY <1>4 DEF Enqueue, SinkTypeOK
  <2>2. /\ stopper' \in { "idle", "marked", "joining", "joined" }
        /\ sender' \in { "checking", "waiting", "sending", "exited" }
    BY <1>4, <1>6 DEF Enqueue, SinkTypeOK
  <2>3. bufferedPackets' \in Nat
    BY <1>1, <1>4 DEF Enqueue, SinkTypeOK
  <2> QED
    BY <1>5, <2>1, <2>2, <2>3 DEF SinkTypeOK
<1>8. HeldPackets' = HeldPackets + Len(batch)
  <2>1. inFlight' = inFlight
    BY <1>4 DEF Enqueue
  <2> QED
    BY <1>1, <1>5, <2>1 DEF HeldPackets
<1>9. PacketAccounting'
  BY <1>1, <1>3, <1>4, <1>8, SinkLimits DEF PacketAccounting, Enqueue
<1>10. NoLostWakeup' /\ NothingStranded' /\ DisconnectedExits'
  BY <1>2, <1>4, <1>6 DEF NoLostWakeup, NothingStranded, DisconnectedExits, Enqueue
<1>11. SenderHoldsPacket' /\ StopEmptiesQueue'
  BY <1>2, <1>4, <1>6 DEF SenderHoldsPacket, StopEmptiesQueue, Enqueue
<1> QED
  BY <1>7, <1>9, <1>10, <1>11

\* Discarding subtracts exactly the queue and leaves the packet in flight.
LEMMA DiscardInv == ASSUME SinkInv, DiscardPending PROVE SinkInv'
<1> USE DEF SinkInv
<1>1. Len(queue) \in Nat /\ Len(queue') = 0 /\ queue' \in Seq(Packet)
  BY LenProperties, EmptySeq DEF SinkTypeOK, DiscardPending
<1>2. SinkTypeOK'
  <2>1. inFlight' \in Packet \cup {None} /\ isConnected' \in BOOLEAN /\ stopped' \in BOOLEAN
    BY DEF DiscardPending, SinkTypeOK
  <2>2. /\ stopper' \in { "idle", "marked", "joining", "joined" }
        /\ sender' \in { "checking", "waiting", "sending", "exited" }
    BY DEF DiscardPending, SinkTypeOK
  <2>3. bufferedPackets' \in Nat
    BY <1>1 DEF DiscardPending, PacketAccounting, HeldPackets
  <2> QED
    BY <1>1, <2>1, <2>2, <2>3 DEF SinkTypeOK
<1>3. HeldPackets' = HeldPackets - Len(queue) /\ HeldPackets' \in {0, 1}
  BY <1>1 DEF HeldPackets, DiscardPending
<1>4. PacketAccounting'
  BY <1>1, <1>3, SinkLimits DEF PacketAccounting, DiscardPending
<1>5. NoLostWakeup' /\ DisconnectedExits' /\ SenderHoldsPacket' /\ StopEmptiesQueue'
  BY DEF NoLostWakeup, DisconnectedExits, SenderHoldsPacket, StopEmptiesQueue, DiscardPending
<1>6. NothingStranded'
  <2>1. sender = "exited" => bufferedPackets' = 0
    <3> SUFFICES ASSUME sender = "exited" PROVE bufferedPackets' = 0
      OBVIOUS
    <3>1. Len(queue) = 0 /\ bufferedPackets = 0
      BY EmptySeq DEF NothingStranded
    <3> QED
      BY <3>1 DEF DiscardPending
  <2> QED
    BY <2>1 DEF NothingStranded, DiscardPending
<1> QED
  BY <1>2, <1>4, <1>5, <1>6

\* The sender's waits, wakeups and orderly return move only its control state.
LEMMA SenderControlInv ==
  ASSUME SinkInv, SenderWait \/ SpuriousWakeup \/ SenderExit
  PROVE  SinkInv'
<1> USE DEF SinkInv
<1>1. /\ UNCHANGED << queue, inFlight, bufferedPackets, isConnected, stopped, stopper >>
  BY DEF SenderWait, SpuriousWakeup, SenderExit
<1>2. inFlight = None /\ sender' \in { "checking", "waiting", "exited" }
  BY DEF SenderWait, SpuriousWakeup, SenderExit, SenderHoldsPacket
<1>3. SinkTypeOK'
  <2>1. sender' \in { "checking", "waiting", "sending", "exited" }
    BY <1>2
  <2> QED
    BY <1>1, <2>1, Zenon DEF SinkTypeOK
<1>4. PacketAccounting'
  BY <1>1 DEF PacketAccounting, HeldPackets
<1>5. SenderHoldsPacket' /\ StopEmptiesQueue'
  BY <1>1, <1>2 DEF SenderHoldsPacket, StopEmptiesQueue
<1>6. NoLostWakeup' /\ DisconnectedExits'
  BY <1>1 DEF SenderWait, SpuriousWakeup, SenderExit, NoLostWakeup, DisconnectedExits
<1>7. NothingStranded'
  <2>1. sender' = "exited" => stopped
    BY DEF SenderWait, SpuriousWakeup, SenderExit
  <2>2. stopped => queue = << >> /\ bufferedPackets = 0
    BY <1>2, EmptySeq DEF StopEmptiesQueue, PacketAccounting, HeldPackets
  <2> QED
    BY <1>1, <1>2, <2>1, <2>2 DEF NothingStranded
<1> QED
  BY <1>3, <1>4, <1>5, <1>6, <1>7

\* Taking a packet moves it from the queue into flight.
LEMMA SenderTakeInv == ASSUME SinkInv, SenderTake PROVE SinkInv'
<1> USE DEF SinkInv
<1>1. /\ Head(queue) \in Packet /\ queue' \in Seq(Packet)
      /\ Len(queue') = Len(queue) - 1 /\ Len(queue) \in Nat
  BY HeadTailProperties, LenProperties DEF SenderTake, SinkTypeOK
<1>2. inFlight = None /\ inFlight' \in Packet /\ inFlight' # None
  BY <1>1, SinkPackets DEF SenderTake, SenderHoldsPacket
<1>3. /\ UNCHANGED << bufferedPackets, isConnected, stopped, stopper >>
  BY DEF SenderTake
<1>4. SinkTypeOK'
  <2>1. inFlight' \in Packet \cup {None} /\ sender' \in { "checking", "waiting", "sending", "exited" }
    BY <1>2 DEF SenderTake
  <2> QED
    BY <1>1, <1>3, <2>1, Zenon DEF SinkTypeOK
<1>5. HeldPackets' = HeldPackets
  BY <1>1, <1>2 DEF HeldPackets
<1>6. PacketAccounting'
  BY <1>3, <1>5 DEF PacketAccounting
<1>7. NoLostWakeup' /\ NothingStranded' /\ SenderHoldsPacket'
  BY <1>2 DEF SenderTake, NoLostWakeup, NothingStranded, SenderHoldsPacket
<1>8. StopEmptiesQueue' /\ DisconnectedExits'
  BY <1>3 DEF SenderTake, StopEmptiesQueue, DisconnectedExits
<1> QED
  BY <1>4, <1>6, <1>7, <1>8

\* A completed send accounts for the packet that was in flight.
LEMMA SendSucceedsInv == ASSUME SinkInv, SendSucceeds PROVE SinkInv'
<1> USE DEF SinkInv
<1>1. inFlight # None /\ inFlight' = None /\ Len(queue) \in Nat
  BY LenProperties DEF SendSucceeds, SenderHoldsPacket, SinkTypeOK
<1>2. UNCHANGED << queue, isConnected, stopped, stopper >>
  BY DEF SendSucceeds
<1>3. SinkTypeOK'
  <2>1. inFlight' \in Packet \cup {None} /\ sender' \in { "checking", "waiting", "sending", "exited" }
    BY <1>1 DEF SendSucceeds
  <2>2. bufferedPackets' \in Nat
    BY <1>1 DEF SendSucceeds, PacketAccounting, HeldPackets
  <2> QED
    BY <1>2, <2>1, <2>2, Zenon DEF SinkTypeOK
<1>4. HeldPackets' = HeldPackets - 1 /\ HeldPackets' \in Nat
  BY <1>1, <1>2 DEF HeldPackets
<1>5. PacketAccounting'
  BY <1>4, SinkLimits DEF SendSucceeds, PacketAccounting
<1>6. NoLostWakeup' /\ NothingStranded' /\ SenderHoldsPacket'
  BY <1>1 DEF SendSucceeds, NoLostWakeup, NothingStranded, SenderHoldsPacket
<1>7. StopEmptiesQueue' /\ DisconnectedExits'
  BY <1>2 DEF SendSucceeds, StopEmptiesQueue, DisconnectedExits
<1> QED
  BY <1>3, <1>5, <1>6, <1>7

\* A failed send drops everything and returns.
LEMMA SendFailsInv == ASSUME SinkInv, SendFails PROVE SinkInv'
<1> USE DEF SinkInv
<1>1. queue' \in Seq(Packet) /\ Len(queue') = 0 /\ inFlight' = None
  BY EmptySeq DEF SendFails
<1>2. UNCHANGED << stopped, stopper >>
  BY DEF SendFails
<1>3. SinkTypeOK'
  <2>1. /\ inFlight' \in Packet \cup {None} /\ isConnected' \in BOOLEAN
        /\ sender' \in { "checking", "waiting", "sending", "exited" }
    BY <1>1 DEF SendFails
  <2>2. bufferedPackets' \in Nat
    BY DEF SendFails
  <2> QED
    BY <1>1, <1>2, <2>1, <2>2, Zenon DEF SinkTypeOK
<1>4. PacketAccounting'
  BY <1>1, SinkLimits DEF SendFails, PacketAccounting, HeldPackets
<1>5. NoLostWakeup' /\ NothingStranded' /\ SenderHoldsPacket'
  BY DEF SendFails, NoLostWakeup, NothingStranded, SenderHoldsPacket
<1>6. StopEmptiesQueue' /\ DisconnectedExits'
  BY <1>2 DEF SendFails, StopEmptiesQueue, DisconnectedExits
<1> QED
  BY <1>3, <1>4, <1>5, <1>6

\* Stop() empties the queue once; its later steps move only control state.
LEMMA StopInv == ASSUME SinkInv, StopStep PROVE SinkInv'
<1> USE DEF SinkInv
<1>1. CASE StopMark
  <2>1. queue' \in Seq(Packet) /\ Len(queue') = 0 /\ Len(queue) \in Nat
    BY <1>1, EmptySeq, LenProperties DEF StopMark, SinkTypeOK
  <2>2. UNCHANGED << inFlight, isConnected, sender >>
    BY <1>1 DEF StopMark
  <2>3. stopped' = TRUE /\ stopper' = "marked" /\ queue' = << >> /\ stopper = "idle"
    BY <1>1 DEF StopMark
  <2>4. bufferedPackets' = HeldPackets' /\ bufferedPackets' \in {0, 1}
    BY <1>1, <2>1, <2>2 DEF StopMark, HeldPackets
  <2>5. SinkTypeOK'
    <3>1. /\ stopped' \in BOOLEAN /\ bufferedPackets' \in Nat
          /\ stopper' \in { "idle", "marked", "joining", "joined" }
      BY <2>3, <2>4
    <3> QED
      BY <2>1, <2>2, <3>1, Zenon DEF SinkTypeOK
  <2>6. PacketAccounting'
    BY <2>3, <2>4, SinkLimits DEF PacketAccounting
  <2>7. NoLostWakeup' /\ StopEmptiesQueue' /\ SenderHoldsPacket' /\ DisconnectedExits'
    BY <2>2, <2>3 DEF NoLostWakeup, StopEmptiesQueue, SenderHoldsPacket, DisconnectedExits
  <2>8. NothingStranded'
    BY <1>1, <2>2, <2>3 DEF NothingStranded, StopMark
  <2> QED
    BY <2>5, <2>6, <2>7, <2>8
<1>2. CASE StopShutdown \/ StopJoin
  <2>1. /\ UNCHANGED << queue, inFlight, bufferedPackets, isConnected, stopped >>
    BY <1>2 DEF StopShutdown, StopJoin
  <2>2. /\ stopper # "idle" /\ stopper' \in { "joining", "joined" }
        /\ sender' = sender \/ (sender = "waiting" /\ sender' = "checking")
    <3>1. CASE StopShutdown
      BY <3>1 DEF StopShutdown, Notified
    <3>2. CASE StopJoin
      BY <3>2 DEF StopJoin
    <3> QED
      BY <1>2, <3>1, <3>2
  <2>3. SinkTypeOK'
    <3>1. /\ stopper' \in { "idle", "marked", "joining", "joined" }
          /\ sender' \in { "checking", "waiting", "sending", "exited" }
      BY <2>2 DEF SinkTypeOK
    <3> QED
      BY <2>1, <3>1, Zenon DEF SinkTypeOK
  <2>4. PacketAccounting'
    BY <2>1 DEF PacketAccounting, HeldPackets
  <2>5. NoLostWakeup'
    BY <1>2, <2>1 DEF StopShutdown, StopJoin, Notified, NoLostWakeup
  <2>6. NothingStranded' /\ SenderHoldsPacket'
    BY <2>1, <2>2 DEF NothingStranded, SenderHoldsPacket
  <2>7. StopEmptiesQueue'
    BY <2>1, <2>2 DEF StopEmptiesQueue
  <2>8. DisconnectedExits'
    BY <2>1, <2>2 DEF DisconnectedExits
  <2> QED
    BY <2>3, <2>4, <2>5, <2>6, <2>7, <2>8
<1> QED
  BY <1>1, <1>2 DEF StopStep

\* A step that changes nothing keeps the invariant.
LEMMA StutterInv == ASSUME SinkInv, UNCHANGED sinkVars PROVE SinkInv'
  BY DEF SinkInv, sinkVars, SinkTypeOK, PacketAccounting, NoLostWakeup,
         NothingStranded, SenderHoldsPacket, StopEmptiesQueue, DisconnectedExits, HeldPackets

\* Every behaviour of the sink satisfies the inductive invariant.
THEOREM SinkInvariant == SinkSpec => []SinkInv
<1>1. SinkInv /\ [SinkNext]_sinkVars => SinkInv'
  <2> SUFFICES ASSUME SinkInv, [SinkNext]_sinkVars PROVE SinkInv'
    OBVIOUS
  <2>1. CASE Client
    <3>1. PICK batch \in Batches, status \in Status : SubmitBatch(batch, status)
      BY <2>1 DEF Client
    <3>2. CASE status = "Accepted"
      BY <3>1, <3>2, EnqueueInv
    <3>3. CASE status # "Accepted"
      BY <3>1, <3>3, StutterInv DEF SubmitBatch
    <3> QED
      BY <3>2, <3>3
  <2>2. CASE SenderStep
    BY <2>2, SenderControlInv, SenderTakeInv, SendSucceedsInv, SendFailsInv DEF SenderStep
  <2> QED
    BY <2>1, <2>2, DiscardInv, StopInv, StutterInv DEF SinkNext
<1> QED
  BY SinkInitInv, <1>1, PTL DEF SinkSpec

\* The sink holds what its counter says and never more packets than its limit,
\* whatever the client, the host and Stop() do (SubmitBatch, SendLoop, Stop).
THEOREM SinkPacketAccounting == SinkSpec => [](SinkTypeOK /\ PacketAccounting)
  BY SinkInvariant, PTL DEF SinkInv

\* The condition variable protocol of SubmitBatch, Stop and SendLoop never leaves
\* the sender asleep on work, and nothing is enqueued for a sender that returned.
THEOREM SinkWakeup == SinkSpec => [](NoLostWakeup /\ NothingStranded)
  BY SinkInvariant, PTL DEF SinkInv

\* What StopReturns rests on besides fairness: when the sender is joined it does not
\* sleep, so all it can wait for is a send() on a socket that was shut down, and each
\* turn it takes after Stop() has marked the sink is one of the two it has left at most.
JoinsNoSleeper == stopper \in { "joining", "joined" } => sender # "waiting"

TurnsLeft(pc) == IF pc = "exited" THEN 0 ELSE IF pc = "checking" THEN 1 ELSE 2

StopTakesTurns == [][ stopped /\ sender' # sender => TurnsLeft(sender') < TurnsLeft(sender) ]_sinkVars

\* Stop() returns after at most two turns of the sender, whatever it was doing and
\* whatever clients and host go on doing (Stop, SendLoop).
THEOREM SinkStopIsBounded == SinkSpec => []JoinsNoSleeper /\ StopTakesTurns
<1>1. SinkInv => JoinsNoSleeper
  BY DEF SinkInv, SinkTypeOK, NoLostWakeup, StopEmptiesQueue, JoinsNoSleeper
<1>2. ASSUME SinkInv, SinkNext, stopped, sender' # sender
      PROVE  TurnsLeft(sender') < TurnsLeft(sender)
  <2>1. CASE Client
    <3>1. PICK batch \in Batches, status \in Status : SubmitBatch(batch, status)
      BY <2>1 DEF Client
    <3>2. status # "Accepted"
      BY <1>2, <3>1 DEF SubmitBatch, SubmitStatus
    <3> QED
      BY <1>2, <3>1, <3>2 DEF SubmitBatch, sinkVars
  <2>2. CASE SenderStep
    <3>1. \/ sender = "waiting" /\ sender' = "checking"
          \/ sender = "checking" /\ sender' = "exited"
          \/ sender = "sending" /\ sender' \in { "checking", "exited" }
      BY <1>2, <2>2 DEF SenderStep, SenderWait, SpuriousWakeup, SenderExit, SenderTake, SendSucceeds,
                        SendFails
    <3> QED
      BY <3>1 DEF TurnsLeft
  <2>3. CASE StopStep
    <3>1. sender = "waiting" /\ sender' = "checking"
      BY <1>2, <2>3 DEF StopStep, StopMark, StopShutdown, StopJoin, Notified
    <3> QED
      BY <3>1 DEF TurnsLeft
  <2>4. CASE DiscardPending
    BY <1>2, <2>4 DEF DiscardPending
  <2> QED
    BY <1>2, <2>1, <2>2, <2>3, <2>4 DEF SinkNext
<1>3. SinkInv /\ [SinkNext]_sinkVars =>
        [ stopped /\ sender' # sender => TurnsLeft(sender') < TurnsLeft(sender) ]_sinkVars
  BY <1>2
<1> QED
  BY <1>1, <1>3, SinkInvariant, PTL DEF SinkSpec, StopTakesTurns

-----------------------------------------------------------------------------
(* The sink's bytes *)

(* A set of numbers has a least one.                                       *)
LEMMA Least ==
  ASSUME NEW T, T \subseteq Nat, T # {}
  PROVE  \E n \in T : \A m \in T : n <= m
<1> DEFINE R == OpToRel(<, Nat)
<1>1. R = { ss \in Nat \X Nat : ss[1] < ss[2] }
  BY Zenon DEF OpToRel
<1>2. IsWellFoundedOn(R, Nat)
  BY NatLessThanWellFounded
<1> HIDE DEF R
<1>3. \E x \in T : \A y \in T : ~(<< y, x >> \in R)
  BY <1>2, WFMin
<1>4. ASSUME NEW x \in Nat, NEW y \in Nat, y < x
      PROVE  << y, x >> \in R
  <2>1. << y, x >> \in Nat \X Nat /\ << y, x >>[1] = y /\ << y, x >>[2] = x
    OBVIOUS
  <2> DEFINE p == << y, x >>
  <2>2. p \in Nat \X Nat /\ p[1] < p[2]
    BY <1>4, <2>1
  <2> HIDE DEF p
  <2>3. p \in R
    BY <1>1, <2>2
  <2> QED
    BY <2>3 DEF p
<1>5. PICK n \in T : \A y \in T : ~(<< y, n >> \in R)
  BY <1>3
<1>6. ASSUME NEW m \in T PROVE n <= m
  <2>1. m \in Nat /\ n \in Nat
    OBVIOUS
  <2>2. ~(<< m, n >> \in R)
    BY <1>5
  <2>3. ~(m < n)
    BY <1>4, <2>1, <2>2, Zenon
  <2> QED
    BY <2>1, <2>3
<1> QED
  BY <1>5, <1>6

(* The bytes of the first n packets, for every n.                          *)
Running(packets, bytes) ==
  /\ bytes \in [ 0 .. Len(packets) -> Nat ] /\ bytes[0] = 0
  /\ \A n \in 1 .. Len(packets) : bytes[n] = bytes[n - 1] + WireSize(packets[n])

(* There is always such a running sum, and it is unique: WireBytes ends    *)
(* where it ends.  (A first count that no partial sum reaches, or at which *)
(* two of them part, has a predecessor that rules it out.)                 *)
LEMMA RunningSumExists ==
  ASSUME NEW packets \in Seq(Packet)
  PROVE  \E bytes : Running(packets, bytes)
<1> DEFINE Reached(n) ==
             \E bytes \in [ 0 .. n -> Nat ] :
               /\ bytes[0] = 0
               /\ \A i \in 1 .. n : bytes[i] = bytes[i - 1] + WireSize(packets[i])
           T == { n \in 0 .. Len(packets) : ~Reached(n) }
<1>1. Len(packets) \in Nat
  OBVIOUS
<1>2. CASE T # {}
  <2>1. PICK n \in T : \A m \in T : n <= m
    <3>1. T \subseteq Nat
      BY <1>1
    <3> HIDE DEF T
    <3> QED
      BY <1>2, <3>1, Least
  <2>2. n \in 0 .. Len(packets) /\ ~Reached(n)
    BY <2>1
  <2>3. Reached(0)
    <3> DEFINE none == [ i \in 0 .. 0 |-> 0 ]
    <3>1. none \in [ 0 .. 0 -> Nat ] /\ none[0] = 0 /\ 1 .. 0 = {}
      OBVIOUS
    <3> HIDE DEF none
    <3> QED
      BY <3>1
  <2>4. n # 0 /\ n - 1 \in 0 .. Len(packets)
    BY <1>1, <2>2, <2>3
  <2> HIDE DEF Reached
  <2>5. Reached(n - 1)
    BY <1>1, <2>1, <2>2, <2>4
  <2>6. PICK bytes \in [ 0 .. n - 1 -> Nat ] :
          /\ bytes[0] = 0
          /\ \A i \in 1 .. n - 1 : bytes[i] = bytes[i - 1] + WireSize(packets[i])
    BY <2>5 DEF Reached
  <2> DEFINE more == [ i \in 0 .. n |->
                         IF i = n THEN bytes[n - 1] + WireSize(packets[n]) ELSE bytes[i] ]
  <2>7. n \in 1 .. Len(packets) /\ n \in Nat /\ WireSize(packets[n]) \in Nat
    BY <1>1, <2>2, <2>4, SinkPackets
  <2>8. more \in [ 0 .. n -> Nat ] /\ more[0] = 0
    BY <2>6, <2>7
  <2>9. ASSUME NEW i \in 1 .. n PROVE more[i] = more[i - 1] + WireSize(packets[i])
    BY <2>6, <2>7, <2>9
  <2>10. Reached(n)
    <3> HIDE DEF more
    <3> QED
      BY <2>8, <2>9 DEF Reached
  <2> QED
    BY <2>2, <2>10
<1>3. CASE T = {}
  <2>1. Reached(Len(packets))
    BY <1>1, <1>3
  <2> QED
    BY <2>1 DEF Running
<1> QED
  BY <1>2, <1>3

(* That it is unique.                                                      *)
LEMMA WireBytesIs ==
  ASSUME NEW packets \in Seq(Packet), NEW bytes, Running(packets, bytes)
  PROVE  WireBytes(packets) = bytes[Len(packets)] /\ WireBytes(packets) \in Nat
<1> DEFINE Sum(f) == f = [ n \in 0 .. Len(packets) |->
                             IF n = 0 THEN 0 ELSE f[n - 1] + WireSize(packets[n]) ]
<1>1. Len(packets) \in Nat
  OBVIOUS
<1>2. Sum(bytes)
  <2>1. bytes = [ n \in 0 .. Len(packets) |-> bytes[n] ]
    BY DEF Running
  <2>2. \A n \in 0 .. Len(packets) :
          bytes[n] = IF n = 0 THEN 0 ELSE bytes[n - 1] + WireSize(packets[n])
    BY <1>1 DEF Running
  <2> QED
    BY <2>1, <2>2
<1>3. ASSUME NEW f, Sum(f) PROVE f = bytes
  <2>1. f = [ n \in 0 .. Len(packets) |-> f[n] ]
    BY <1>3
  <2>2. /\ f[0] = 0
        /\ \A n \in 1 .. Len(packets) : f[n] = f[n - 1] + WireSize(packets[n])
    BY <1>1, <1>3
  <2> DEFINE T == { n \in 0 .. Len(packets) : f[n] # bytes[n] }
  <2>3. T = {}
    <3> SUFFICES ASSUME T # {} PROVE FALSE
      OBVIOUS
    <3>1. PICK n \in T : \A m \in T : n <= m
      <4>1. T \subseteq Nat
        BY <1>1
      <4> HIDE DEF T
      <4> QED
        BY <4>1, Least
    <3>2. n \in 1 .. Len(packets)
      BY <1>1, <2>2, <3>1 DEF Running
    <3>3. n - 1 \in 0 .. Len(packets) /\ n - 1 \notin T
      BY <1>1, <3>1, <3>2
    <3>4. f[n - 1] = bytes[n - 1]
      BY <3>3
    <3> QED
      BY <2>2, <3>1, <3>2, <3>4 DEF Running
  <2>4. bytes = [ n \in 0 .. Len(packets) |-> bytes[n] ]
    BY DEF Running
  <2>5. \A n \in 0 .. Len(packets) : f[n] = bytes[n]
    BY <2>3
  <2> QED
    BY <2>1, <2>4, <2>5
<1>4. WireBytes(packets) = (CHOOSE f : Sum(f))[Len(packets)]
  BY DEF WireBytes
<1> HIDE DEF Sum
<1>5. (CHOOSE f : Sum(f)) = bytes
  BY <1>2, <1>3
<1>6. Len(packets) \in 0 .. Len(packets)
  BY <1>1
<1> QED
  BY <1>4, <1>5, <1>6 DEF Running

(* No packets take no bytes, ...                                           *)
LEMMA NoBytes == WireBytes(<< >>) = 0
<1> DEFINE bytes == [ n \in 0 .. 0 |-> 0 ]
<1>1. << >> \in Seq(Packet) /\ Len(<< >>) = 0
  OBVIOUS
<1>2. bytes \in [ 0 .. 0 -> Nat ] /\ bytes[0] = 0 /\ 1 .. 0 = {}
  OBVIOUS
<1> HIDE DEF bytes
<1>3. Running(<< >>, bytes)
  BY <1>1, <1>2 DEF Running
<1> QED
  BY <1>1, <1>2, <1>3, WireBytesIs

(* ... a batch adds its own to those of the queue, ...                     *)
LEMMA BytesAdd ==
  ASSUME NEW left \in Seq(Packet), NEW right \in Seq(Packet)
  PROVE  /\ WireBytes(left) \in Nat /\ WireBytes(right) \in Nat
         /\ WireBytes(left \o right) = WireBytes(left) + WireBytes(right)
<1>1. PICK a : Running(left, a)
  BY RunningSumExists
<1>2. PICK b : Running(right, b)
  BY RunningSumExists
<1> DEFINE both == left \o right
           k == Len(left)
           m == Len(right)
           c == [ n \in 0 .. k + m |-> IF n <= k THEN a[n] ELSE a[k] + b[n - k] ]
<1>3. /\ both \in Seq(Packet) /\ Len(both) = k + m /\ k \in Nat /\ m \in Nat
      /\ \A n \in 1 .. k + m : both[n] = IF n <= k THEN left[n] ELSE right[n - k]
  OBVIOUS
<1>4. /\ a[0] = 0 /\ \A n \in 0 .. k : a[n] \in Nat
      /\ \A n \in 1 .. k : a[n] = a[n - 1] + WireSize(left[n])
      /\ b[0] = 0 /\ \A n \in 0 .. m : b[n] \in Nat
      /\ \A n \in 1 .. m : b[n] = b[n - 1] + WireSize(right[n])
  BY <1>1, <1>2, <1>3 DEF Running
<1>5. WireBytes(left) = a[k] /\ WireBytes(right) = b[m] /\ a[k] \in Nat /\ b[m] \in Nat
  BY <1>1, <1>2, WireBytesIs
<1> HIDE DEF both, k, m
<1>6. c \in [ 0 .. k + m -> Nat ] /\ c[0] = 0
  <2>1. ASSUME NEW n \in 0 .. k + m PROVE c[n] \in Nat
    <3>1. CASE n <= k
      BY <1>3, <1>4, <2>1, <3>1
    <3>2. CASE ~(n <= k)
      <4>1. n - k \in 0 .. m
        BY <1>3, <3>2
      <4> QED
        BY <1>4, <1>5, <3>2, <4>1
    <3> QED
      BY <3>1, <3>2
  <2>2. 0 \in 0 .. k + m /\ 0 <= k
    BY <1>3
  <2> QED
    BY <1>4, <2>1, <2>2
<1>7. ASSUME NEW n \in 1 .. k + m PROVE c[n] = c[n - 1] + WireSize(both[n])
  <2>1. CASE n <= k
    <3>1. n \in 1 .. k /\ n - 1 <= k /\ n - 1 \in 0 .. k + m /\ n \in 0 .. k + m
      BY <1>3, <2>1
    <3> QED
      BY <1>3, <1>4, <2>1, <3>1
  <2>2. CASE n = k + 1
    <3>1. /\ n - 1 = k /\ n - k = 1 /\ 1 \in 1 .. m /\ ~(n <= k)
          /\ n \in 0 .. k + m /\ n - 1 \in 0 .. k + m
      BY <1>3, <2>2
    <3>2. c[n] = a[k] + b[1] /\ c[n - 1] = a[k]
      BY <3>1
    <3>3. b[1] = WireSize(right[1])
      <4>1. b[1] = b[1 - 1] + WireSize(right[1])
        BY <1>4, <3>1
      <4>2. right[1] \in Packet
        BY <3>1 DEF m
      <4>3. 1 - 1 = 0 /\ WireSize(right[1]) \in Nat
        BY <4>2, SinkPackets
      <4> QED
        BY <1>4, <4>1, <4>3
    <3> HIDE DEF c
    <3> QED
      BY <1>3, <3>1, <3>2, <3>3
  <2>3. CASE n > k + 1
    <3> DEFINE j == n - k
    <3>1. /\ j \in 1 .. m /\ j - 1 \in 0 .. m /\ n - 1 - k = j - 1 /\ ~(n <= k) /\ ~(n - 1 <= k)
          /\ n \in 0 .. k + m /\ n - 1 \in 0 .. k + m
      BY <1>3, <2>3
    <3>2. c[n] = a[k] + b[j] /\ c[n - 1] = a[k] + b[j - 1] /\ both[n] = right[j]
      BY <1>3, <3>1
    <3>3. WireSize(right[j]) \in Nat
      BY <3>1, SinkPackets DEF m
    <3> HIDE DEF c, j
    <3> QED
      BY <1>4, <1>5, <3>1, <3>2, <3>3
  <2> QED
    BY <1>3, <2>1, <2>2, <2>3
<1>8. Running(both, c)
  <2> HIDE DEF c
  <2> QED
    BY <1>3, <1>6, <1>7 DEF Running
<1>9. WireBytes(both) = c[k + m]
  BY <1>3, <1>8, WireBytesIs
<1>10. c[k + m] = a[k] + b[m]
  <2>1. CASE m = 0
    BY <1>3, <1>4, <1>5, <2>1
  <2>2. CASE m # 0
    <3>1. \A n \in 0 .. k + m : ~(n <= k) => c[n] = a[k] + b[n - k]
      OBVIOUS
    <3>2. k + m \in 0 .. k + m /\ ~(k + m <= k) /\ (k + m) - k = m
      BY <1>3, <2>2
    <3> HIDE DEF c
    <3>3. c[k + m] = a[k] + b[(k + m) - k]
      BY <3>1, <3>2, Zenon
    <3> QED
      BY <3>2, <3>3, Zenon
  <2> QED
    BY <2>1, <2>2
<1> HIDE DEF c
<1> QED
  BY <1>5, <1>9, <1>10 DEF both

(* ... and a packet that is taken takes its own along.                     *)
LEMMA BytesOfTail ==
  ASSUME NEW packets \in Seq(Packet), packets # << >>
  PROVE  /\ WireBytes(packets) = WireSize(Head(packets)) + WireBytes(Tail(packets))
         /\ WireBytes(Tail(packets)) \in Nat
<1>1. Tail(packets) \in Seq(Packet) /\ Head(packets) \in Packet
  OBVIOUS
<1>2. PICK b : Running(Tail(packets), b)
  BY <1>1, RunningSumExists
<1> DEFINE k == Len(packets)
           w == WireSize(Head(packets))
           c == [ n \in 0 .. k |-> IF n = 0 THEN 0 ELSE w + b[n - 1] ]
<1>3. /\ k \in Nat \ {0} /\ Len(Tail(packets)) = k - 1 /\ packets[1] = Head(packets)
      /\ \A n \in 1 .. k - 1 : Tail(packets)[n] = packets[n + 1]
  OBVIOUS
<1>4. w \in Nat
  BY <1>1, SinkPackets
<1>5. /\ b[0] = 0 /\ \A n \in 0 .. k - 1 : b[n] \in Nat
      /\ \A n \in 1 .. k - 1 : b[n] = b[n - 1] + WireSize(packets[n + 1])
  BY <1>2, <1>3 DEF Running
<1>6. WireBytes(Tail(packets)) = b[k - 1] /\ b[k - 1] \in Nat
  BY <1>1, <1>2, <1>3, WireBytesIs
<1> HIDE DEF k, w
<1>7. c \in [ 0 .. k -> Nat ] /\ c[0] = 0
  <2>1. ASSUME NEW n \in 1 .. k PROVE w + b[n - 1] \in Nat
    BY <1>3, <1>4, <1>5, <2>1
  <2> QED
    BY <1>3, <2>1
<1>8. ASSUME NEW n \in 1 .. k PROVE c[n] = c[n - 1] + WireSize(packets[n])
  <2>1. CASE n = 1
    <3>1. c[1] = w + b[0] /\ c[0] = 0 /\ 1 - 1 = 0
      BY <1>3
    <3> QED
      BY <1>3, <1>4, <1>5, <2>1, <3>1 DEF w
  <2>2. CASE n # 1
    <3> DEFINE j == n - 1
    <3>1. j \in 1 .. k - 1 /\ j # 0 /\ j + 1 = n /\ j \in 0 .. k /\ j - 1 \in 0 .. k - 1 /\ n # 0
      BY <1>3, <2>2
    <3>2. c[n] = w + b[j] /\ c[j] = w + b[j - 1] /\ b[j] = b[j - 1] + WireSize(packets[n])
      BY <1>5, <3>1
    <3>3. WireSize(packets[n]) \in Nat
      BY SinkPackets DEF k
    <3> HIDE DEF c
    <3> QED
      BY <1>4, <1>5, <3>1, <3>2, <3>3
  <2> QED
    BY <2>1, <2>2
<1>9. Running(packets, c)
  <2> HIDE DEF c
  <2> QED
    BY <1>7, <1>8 DEF Running, k
<1>10. WireBytes(packets) = c[k]
  BY <1>9, WireBytesIs DEF k
<1>11. c[k] = w + b[k - 1]
  BY <1>3
<1> HIDE DEF c
<1> QED
  BY <1>6, <1>10, <1>11 DEF w

(* What the sink holds takes some number of bytes, the queue's and those   *)
(* of the packet in flight.                                                *)
LEMMA HeldBytesAre ==
  ASSUME SinkInv
  PROVE  /\ queue \in Seq(Packet) /\ WireBytes(queue) \in Nat
         /\ inFlight # None => WireSize(inFlight) \in Nat
<1>1. queue \in Seq(Packet) /\ inFlight \in Packet \union {None}
  BY DEF SinkInv, SinkTypeOK
<1> QED
  BY <1>1, BytesAdd, SinkPackets

(* Every step weighs what it adds or drops as it was weighed before: the   *)
(* admission in SubmitBatch, the discard, both critical sections of the    *)
(* sender, and Stop(), which leaves the packet in flight accounted for.    *)
LEMMA BytesStep ==
  ASSUME SinkInv, ByteAccounting, [SinkNext]_sinkVars
  PROVE  ByteAccounting'
<1>1. /\ queue \in Seq(Packet) /\ WireBytes(queue) \in Nat
      /\ inFlight # None => WireSize(inFlight) \in Nat
  BY HeldBytesAre
<1>2. bufferedBytes = HeldBytes /\ bufferedBytes \in 0 .. MaxBytes /\ MaxBytes \in Nat
  BY SinkLimits DEF ByteAccounting
<1>3. CASE UNCHANGED << queue, inFlight, bufferedBytes >>
  BY <1>3 DEF ByteAccounting, HeldBytes
<1>4. CASE Client
  <2>1. PICK batch \in Batches, status \in Status : SubmitBatch(batch, status)
    BY <1>4 DEF Client
  <2>2. CASE status = "Accepted"
    <3>1. /\ queue' = queue \o batch /\ UNCHANGED inFlight
          /\ bufferedBytes' = bufferedBytes + WireBytes(batch)
      BY <2>1, <2>2 DEF SubmitBatch, Enqueue
    <3>2. ~(bufferedBytes + WireBytes(batch) > MaxBytes)
      BY <2>1, <2>2 DEF SubmitBatch, SubmitStatus, Overflows
    <3>3. batch \in Seq(Packet)
      BY SinkPackets
    <3>4. WireBytes(batch) \in Nat /\ WireBytes(queue') = WireBytes(queue) + WireBytes(batch)
      BY <1>1, <3>1, <3>3, BytesAdd
    <3> DEFINE inHand == IF inFlight = None THEN 0 ELSE WireSize(inFlight)
    <3>5. inHand \in Nat /\ HeldBytes = WireBytes(queue) + inHand /\ HeldBytes' = WireBytes(queue') + inHand
      BY <1>1, <3>1 DEF HeldBytes
    <3> HIDE DEF inHand
    <3>6. HeldBytes' = bufferedBytes' /\ bufferedBytes' \in 0 .. MaxBytes
      BY <1>1, <1>2, <3>1, <3>2, <3>4, <3>5
    <3> QED
      BY <3>6 DEF ByteAccounting
  <2>3. CASE status # "Accepted"
    BY <1>3, <2>1, <2>3 DEF SubmitBatch, sinkVars
  <2> QED
    BY <2>2, <2>3
<1>5. CASE DiscardPending
  <2>1. /\ queue' = << >> /\ UNCHANGED inFlight
        /\ bufferedBytes' = bufferedBytes - WireBytes(queue)
    BY <1>5 DEF DiscardPending
  <2>2. HeldBytes' = IF inFlight = None THEN 0 ELSE WireSize(inFlight)
    BY <1>1, <2>1, NoBytes DEF HeldBytes
  <2>3. HeldBytes = WireBytes(queue) + HeldBytes' /\ HeldBytes' \in Nat
    BY <1>1, <2>2 DEF HeldBytes
  <2> QED
    BY <1>1, <1>2, <2>1, <2>3 DEF ByteAccounting
<1>6. CASE SenderTake
  <2>1. /\ inFlight = None /\ inFlight' = Head(queue) /\ queue' = Tail(queue) /\ queue # << >>
        /\ UNCHANGED bufferedBytes /\ Head(queue) \in Packet
    BY <1>1, <1>6 DEF SenderTake, SinkInv, SenderHoldsPacket
  <2>2. inFlight' # None /\ WireSize(inFlight') \in Nat
    BY <2>1, SinkPackets
  <2>3. /\ WireBytes(queue) = WireSize(Head(queue)) + WireBytes(Tail(queue))
        /\ WireBytes(Tail(queue)) \in Nat
    BY <1>1, <2>1, BytesOfTail
  <2> QED
    BY <1>2, <2>1, <2>2, <2>3 DEF ByteAccounting, HeldBytes
<1>7. CASE SendSucceeds
  <2>1. /\ inFlight # None /\ inFlight' = None /\ UNCHANGED queue
        /\ bufferedBytes' = bufferedBytes - WireSize(inFlight)
    BY <1>7 DEF SendSucceeds, SinkInv, SenderHoldsPacket
  <2> QED
    BY <1>1, <1>2, <2>1 DEF ByteAccounting, HeldBytes
<1>8. CASE SendFails
  <2>1. queue' = << >> /\ inFlight' = None /\ bufferedBytes' = 0
    BY <1>8 DEF SendFails
  <2> QED
    BY <1>2, <2>1, NoBytes DEF ByteAccounting, HeldBytes
<1>9. CASE StopMark
  <2>1. /\ queue' = << >> /\ UNCHANGED inFlight
        /\ bufferedBytes' = IF inFlight = None THEN 0 ELSE WireSize(inFlight)
    BY <1>9 DEF StopMark
  <2> QED
    BY <1>1, <1>2, <2>1, NoBytes DEF ByteAccounting, HeldBytes
<1>10. CASE SenderWait \/ SpuriousWakeup \/ SenderExit \/ StopShutdown \/ StopJoin \/ UNCHANGED sinkVars
  BY <1>3, <1>10 DEF SenderWait, SpuriousWakeup, SenderExit, StopShutdown, StopJoin, sinkVars
<1> QED
  BY <1>4, <1>5, <1>6, <1>7, <1>8, <1>9, <1>10 DEF SinkNext, SenderStep, StopStep

(* The sink's byte counter, too, is what is held, and never more than the  *)
(* limit (SubmitBatch, DiscardPending, SendLoop, Stop).                    *)
THEOREM SinkByteAccounting == SinkSpec => []ByteAccounting
<1>1. SinkInit => ByteAccounting
  BY NoBytes, SinkLimits DEF SinkInit, ByteAccounting, HeldBytes
<1>2. SinkInv /\ ByteAccounting /\ [SinkNext]_sinkVars => ByteAccounting'
  BY BytesStep
<1> QED
  BY <1>1, <1>2, SinkInvariant, PTL DEF SinkSpec

-----------------------------------------------------------------------------
(* Every frame keeps its own interval *)

\* Every frame let through still has its own interval before the next slot.
SlotsAreKept ==
  \A i \in DOMAIN admitted :
    nextFrameTime > admitted[i] + (Len(admitted) - i) * FrameInterval

\* The next slot starts an interval after the last frame at the latest.
SlotIsNear ==
  admitted # << >> => nextFrameTime <= admitted[Len(admitted)] + FrameInterval

PacingInv ==
  /\ nextFrameTime \in 0 .. Word - 1
  /\ admitted \in Seq(Times)
  /\ admitted = << >> <=> nextFrameTime = 0
  /\ SlotsAreKept
  /\ SlotIsNear
  /\ RateIsKept

-----------------------------------------------------------------------------
(* Division: what Slots counts, and that the sum always fits the word *)

\* The slot a time falls into ends after it, one interval after it at most.
LEMMA DivisionBounds ==
  ASSUME NEW x \in Nat, NEW d \in Nat \ {0}
  PROVE  /\ x \div d \in Nat
         /\ (x \div d) * d <= x
         /\ x < (x \div d) * d + d
OBVIOUS

\* A product that does not exceed a bound has a factor that the bound's division allows.
LEMMA FactorFits ==
  ASSUME NEW q \in Nat, NEW m \in Nat, NEW d \in Nat \ {0}, q * d <= m
  PROVE  q <= m \div d
OBVIOUS

\* A product of non-negative factors, one of them larger, is larger.
LEMMA ProductGrows ==
  ASSUME NEW q \in Nat \ {0}, NEW d \in Nat
  PROVE  q * d \in Nat /\ q * d >= d
OBVIOUS

\* Where the pacing starts over, the sum does not wrap.
LEMMA RestartTime ==
  ASSUME NEW ts \in Times, ts > 0
  PROVE  /\ ts \in Nat
         /\ (ts + FrameInterval) % Word = ts + FrameInterval
         /\ ts + FrameInterval \in 0 .. Word - 1
BY PacingAssumption

\* A frame at or after the next slot moves it past the frame, by whole intervals, and
\* never takes the branch for a sum that does not fit.
LEMMA SlotAfterBounds ==
  ASSUME nextFrameTime \in 0 .. Word - 1,
         NEW ts \in Times, ts > 0, ts >= nextFrameTime
  PROVE  /\ SlotAfter(ts) \in 0 .. Word - 1
         /\ SlotAfter(ts) >= nextFrameTime + FrameInterval
         /\ ts < SlotAfter(ts)
         /\ SlotAfter(ts) <= ts + FrameInterval
<1> DEFINE x == ts - nextFrameTime
           q == x \div FrameInterval
           room == Word - 1 - nextFrameTime
<1>1. /\ x \in Nat /\ room \in Nat /\ FrameInterval \in Nat \ {0} /\ ts + FrameInterval < Word
      /\ Word \in Nat /\ nextFrameTime \in Nat /\ ts \in Nat
  BY PacingAssumption
<1>2. q \in Nat /\ q * FrameInterval <= x /\ x < q * FrameInterval + FrameInterval
  BY <1>1, DivisionBounds
<1>3. (q + 1) * FrameInterval = q * FrameInterval + FrameInterval
  BY <1>1, <1>2
<1>4. (q + 1) * FrameInterval \in Nat /\ (q + 1) * FrameInterval >= FrameInterval
  BY <1>1, <1>2, ProductGrows
<1>5. (q + 1) * FrameInterval <= room
  <2>1. x + FrameInterval <= room
    BY <1>1
  <2>2. q * FrameInterval \in Nat
    BY <1>1, <1>2
  <2> QED
    BY <1>1, <1>2, <1>3, <2>1, <2>2
<1>6. q + 1 <= room \div FrameInterval
  BY <1>1, <1>2, <1>5, FactorFits
<1>7. SlotAfter(ts) = nextFrameTime + (q + 1) * FrameInterval
  <2>1. room \div FrameInterval \in Nat
    BY <1>1, DivisionBounds
  <2> QED
    BY <1>2, <1>6, <2>1 DEF SlotAfter, Slots
\* The product from here on is a number like any other.
<1> DEFINE end == (q + 1) * FrameInterval
           start == q * FrameInterval
<1>8. /\ start \in Nat /\ start <= x /\ x < start + FrameInterval
      /\ end = start + FrameInterval /\ end >= FrameInterval /\ end <= room
      /\ SlotAfter(ts) = nextFrameTime + end
  BY <1>1, <1>2, <1>3, <1>4, <1>5, <1>7
<1> HIDE DEF start, end, q
<1> QED
  BY <1>1, <1>8

-----------------------------------------------------------------------------
(* The invariant *)

\* Before the first frame nothing has been let through.
LEMMA PacingInitHolds == PacingInit => PacingInv
BY PacingAssumption DEF PacingInit, PacingInv, SlotsAreKept, SlotIsNear, RateIsKept

\* A dropped frame changes nothing, and neither does one without a presentation time.
LEMMA PacingStutters == PacingInv /\ UNCHANGED pacingVars => PacingInv'
BY DEF pacingVars, PacingInv, SlotsAreKept, SlotIsNear, RateIsKept

\* A session that begins again forgets its slot.
LEMMA RestartKeepsInv == PacingInv /\ RestartPacing => PacingInv'
BY PacingAssumption DEF RestartPacing, PacingInv, SlotsAreKept, SlotIsNear, RateIsKept

\* ShouldEncodeFrame: dropped, let through at a later slot, or starting over.
LEMMA AdmitKeepsInv ==
  ASSUME PacingInv, NEW ts \in Times, AdmitFrame(ts)
  PROVE  PacingInv'
<1>1. CASE UNCHANGED pacingVars
  BY <1>1, PacingStutters
<1>2. CASE /\ ts > 0 /\ StartsOver(ts)
           /\ nextFrameTime' = (ts + FrameInterval) % Word
           /\ admitted' = << ts >>
  <2>1. ts \in Nat /\ nextFrameTime' = ts + FrameInterval /\ nextFrameTime' \in 0 .. Word - 1
    BY <1>2, RestartTime
  <2>2. FrameInterval \in Nat \ {0}
    BY PacingAssumption
  <2>3. /\ admitted' \in Seq(Times) /\ admitted' # << >>
        /\ Len(admitted') = 1 /\ DOMAIN admitted' = {1} /\ admitted'[1] = ts
    BY <1>2
  <2> QED
    BY <2>1, <2>2, <2>3 DEF PacingInv, SlotsAreKept, SlotIsNear, RateIsKept
<1>3. CASE /\ ts > 0 /\ ts >= nextFrameTime
           /\ nextFrameTime' = SlotAfter(ts)
           /\ admitted' = Append(admitted, ts)
  <2> DEFINE n == Len(admitted)
  <2>1. nextFrameTime \in 0 .. Word - 1 /\ admitted \in Seq(Times) /\ n \in Nat
    BY DEF PacingInv
  <2>2. /\ nextFrameTime' \in 0 .. Word - 1
        /\ nextFrameTime' >= nextFrameTime + FrameInterval
        /\ ts < nextFrameTime'
        /\ nextFrameTime' <= ts + FrameInterval
    BY <1>3, <2>1, SlotAfterBounds
  <2>3. FrameInterval \in Nat \ {0} /\ Times \subseteq Int /\ ts \in Int
    BY PacingAssumption
  <2>4. /\ admitted' \in Seq(Times) /\ admitted' # << >>
        /\ Len(admitted') = n + 1 /\ DOMAIN admitted' = 1 .. n + 1
        /\ admitted'[n + 1] = ts
        /\ \A i \in 1 .. n : admitted'[i] = admitted[i] /\ admitted[i] \in Int
    <3>1. \A i \in 1 .. n : admitted[i] \in Int
      <4>1. \A i \in 1 .. n : admitted[i] \in Times
        BY <2>1
      <4> QED
        BY <4>1, <2>3
    <3>2. \A i \in 1 .. n : admitted'[i] = admitted[i]
      BY <1>3, <2>1
    <3>3. Len(admitted') = n + 1 /\ admitted' \in Seq(Times) /\ admitted'[n + 1] = ts
      BY <1>3, <2>1
    <3> QED
      BY <2>1, <3>1, <3>2, <3>3
  \* Each earlier frame has its interval before the old slot, and the new one is at least
  \* one interval further.
  <2>5. \A i \in 1 .. n :
          /\ nextFrameTime > admitted[i] + (n - i) * FrameInterval
          /\ (n + 1 - i) * FrameInterval = (n - i) * FrameInterval + FrameInterval
          /\ (n - i) * FrameInterval \in Int
    BY <2>1, <2>3 DEF PacingInv, SlotsAreKept
  <2>6. SlotsAreKept'
    <3> SUFFICES ASSUME NEW i \in 1 .. n + 1
                 PROVE  nextFrameTime' > admitted'[i] + (n + 1 - i) * FrameInterval
      BY <2>4 DEF SlotsAreKept
    <3>1. CASE i \in 1 .. n
      BY <3>1, <2>1, <2>2, <2>3, <2>4, <2>5
    <3>2. CASE i = n + 1
      BY <3>2, <2>1, <2>2, <2>3, <2>4
    <3> QED
      BY <3>1, <3>2, <2>1
  <2>7. RateIsKept'
    <3> SUFFICES ASSUME NEW i \in 1 .. n + 1, NEW j \in 1 .. n + 1, i < j
                 PROVE  admitted'[j] - admitted'[i] > (j - i - 1) * FrameInterval
      BY <2>4 DEF RateIsKept
    <3>1. CASE j \in 1 .. n
      <4>1. i \in 1 .. n /\ DOMAIN admitted = 1 .. n
        BY <3>1, <2>1
      <4>2. admitted[j] - admitted[i] > (j - i - 1) * FrameInterval
        BY <3>1, <4>1 DEF PacingInv, RateIsKept
      <4> QED
        BY <3>1, <4>1, <4>2, <2>4
    <3>2. CASE j = n + 1
      <4>1. i \in 1 .. n /\ j - i - 1 = n - i
        BY <3>2, <2>1
      <4> QED
        BY <4>1, <3>2, <1>3, <2>1, <2>3, <2>4, <2>5
    <3> QED
      BY <3>1, <3>2, <2>1
  <2>8. SlotIsNear' /\ nextFrameTime' # 0
    BY <1>3, <2>1, <2>2, <2>3, <2>4 DEF SlotIsNear
  <2> QED
    BY <2>2, <2>4, <2>6, <2>7, <2>8 DEF PacingInv
<1> QED
  BY <1>1, <1>2, <1>3 DEF AdmitFrame

\* Every step of the pacing keeps its invariant.
LEMMA PacingStep == PacingInv /\ [PacingNext]_pacingVars => PacingInv'
<1> SUFFICES ASSUME PacingInv, [PacingNext]_pacingVars PROVE PacingInv'
  OBVIOUS
<1>1. ASSUME NEW ts \in Times, DropFrame(ts) PROVE PacingInv'
  BY <1>1, PacingStutters DEF DropFrame
<1>2. ASSUME NEW ts \in Times, AdmitFrame(ts) PROVE PacingInv'
  BY <1>2, AdmitKeepsInv
<1>3. CASE RestartPacing
  BY <1>3, RestartKeepsInv
<1>4. CASE UNCHANGED pacingVars
  BY <1>4, PacingStutters
<1> QED
  BY <1>1, <1>2, <1>3, <1>4 DEF PacingNext

-----------------------------------------------------------------------------
(* What the pacing keeps *)

(* The inductive invariant of ShouldEncodeFrame: the next slot is at most an interval
   after the last frame let through, and an interval per frame later than every earlier one. *)
THEOREM PacingInvariant == PacingSpec => []PacingInv
<1>1. PacingInit => PacingInv
  BY PacingInitHolds
<1>2. PacingInv /\ [PacingNext]_pacingVars => PacingInv'
  BY PacingStep
<1> QED
  BY <1>1, <1>2, PTL DEF PacingSpec

\* At any frame rate, k + 1 frames the encoder is given span more than k - 1 intervals
\* (ShouldDropFrameLocked).
THEOREM RateTheorem == PacingSpec => []RateIsKept
<1>1. PacingInv => RateIsKept
  BY DEF PacingInv
<1> QED
  BY <1>1, PacingInvariant, PTL

\* What the slot's place says of the frames it makes the pacing drop.
LEMMA DropsAreCrowded == PacingInv => OnlyCrowdedFramesAreDropped
<1> SUFFICES ASSUME PacingInv, NEW ts \in Times, IsDropped(ts)
             PROVE  /\ admitted # << >>
                    /\ ts - admitted[Len(admitted)] < FrameInterval
                    /\ admitted[Len(admitted)] - ts < FrameInterval
  BY DEF OnlyCrowdedFramesAreDropped
<1> DEFINE n == Len(admitted)
<1>1. /\ ts > 0 /\ ts < nextFrameTime /\ nextFrameTime # 0
      /\ ~((ts + FrameInterval) % Word < nextFrameTime)
  BY DEF IsDropped, StartsOver
<1>2. ts \in Nat /\ (ts + FrameInterval) % Word = ts + FrameInterval
  BY <1>1, RestartTime
<1>3. FrameInterval \in Nat \ {0} /\ Times \subseteq Int
  BY PacingAssumption
<1>4. /\ admitted # << >> /\ nextFrameTime \in Int
      /\ n \in DOMAIN admitted /\ admitted[n] \in Int
  <2>1. admitted # << >> /\ nextFrameTime \in Int /\ admitted \in Seq(Times)
    BY <1>1, <1>3, PacingAssumption DEF PacingInv
  <2>2. n \in DOMAIN admitted /\ admitted[n] \in Times
    BY <2>1
  <2> QED
    BY <1>3, <2>1, <2>2
<1>5. nextFrameTime > admitted[n] + (n - n) * FrameInterval
  BY <1>4 DEF PacingInv, SlotsAreKept
<1>6. nextFrameTime > admitted[n]
  BY <1>3, <1>4, <1>5
<1>7. nextFrameTime <= admitted[n] + FrameInterval
  BY <1>4 DEF PacingInv, SlotIsNear
<1> QED
  BY <1>1, <1>2, <1>3, <1>4, <1>6, <1>7

\* Only a frame less than an interval away from the last one let through is dropped,
\* also when the composer's clock went back (ShouldDropFrameLocked).
THEOREM DropTheorem == PacingSpec => []OnlyCrowdedFramesAreDropped
BY PacingInvariant, DropsAreCrowded, PTL

-----------------------------------------------------------------------------
(* The backend and its pacing *)

\* A step of the backend is a step of the pacing, or leaves its state alone.
LEMMA BackendStepPaces == [Next]_vars => [PacingNext]_pacingVars
<1> SUFFICES ASSUME [Next]_vars PROVE [PacingNext]_pacingVars
  OBVIOUS
<1>1. ASSUME NEW b \in Buffer, NEW g \in 0 .. generation, NEW o \in Offsets,
             now + o \in Times, SubmitFrame(b, g, now + o)
      PROVE  PacingNext
  BY <1>1 DEF SubmitFrame, PacingNext
<1>2. CASE CreateSession
  BY <1>2 DEF CreateSession, PacingNext
<1>3. CASE \/ DestroySession \/ AcceptFails \/ RefuseRequest
           \/ \E b \in Buffer, g \in 0 .. generation : RegisterBuffer(b, g)
  BY <1>3 DEF DestroySession, AcceptFails, RefuseRequest, RegisterBuffer
<1>4. CASE \/ ChangeStructure \/ ChangeBitrate \/ WorkerWakes \/ Loop
           \/ EncodeFrame \/ HostConnects \/ HostIsLost \/ Tick
  BY <1>4 DEF ChangeStructure, ChangeBitrate, WorkerWakes, Loop, LoopWaits, LoopFindsHostLost,
     RepeatStaticFrame, LoopSkipsRepeat, DrainOutput, DrainFails, EncodeFrame, HostConnects,
     HostIsLost, Tick
<1>5. CASE UNCHANGED vars
  BY <1>5 DEF vars
<1> QED
  BY <1>1, <1>2, <1>3, <1>4, <1>5 DEF Next, Composer, GetStreamState

\* The backend implements the pacing, whatever sessions, updates and the output worker do
\* in between (SubmitFrame, MaintainSessionLocked).
THEOREM BackendPaces == Spec => PacingSpec
<1>1. Init => PacingInit
  BY DEF Init
<1> QED
  BY <1>1, BackendStepPaces, PTL DEF Spec, PacingSpec

\* So the encoder is never given frames faster than its frame rate.
THEOREM BackendKeepsRate == Spec => []RateIsKept
BY BackendPaces, RateTheorem, PTL

-----------------------------------------------------------------------------
(* The configuration *)

ConfigInv ==
  /\ desired \in Config
  /\ ConfigIsCurrent

\* Updates, resets and polls keep the session on the configuration last asked for.
LEMMA ConfigStep == ConfigInv /\ [Next]_vars => ConfigInv'
<1> SUFFICES ASSUME ConfigInv, [Next]_vars PROVE ConfigInv'
  OBVIOUS
<1> USE DEF ConfigInv, ConfigIsCurrent, Active, sessionVars, encoderVars, bufferVars
<1>1. ASSUME NEW b \in Buffer, NEW g \in 0 .. generation, RegisterBuffer(b, g) PROVE ConfigInv'
  BY <1>1 DEF RegisterBuffer, Valid, ForgetBuffer, ResetStaticFrameState
<1>2. ASSUME NEW b \in Buffer, NEW g \in 0 .. generation, NEW o \in Offsets,
             SubmitFrame(b, g, now + o)
      PROVE  ConfigInv'
  BY <1>2 DEF SubmitFrame
<1>3. CASE RefuseRequest
  BY <1>3 DEF RefuseRequest, MarkSessionForReset
<1>4. CASE DestroySession
  BY <1>4 DEF DestroySession
<1>5. CASE AcceptFails
  BY <1>5 DEF AcceptFails
<1>6. CASE CreateSession
  BY <1>6 DEF CreateSession, SessionConfig
<1>7. CASE ChangeStructure
  BY <1>7 DEF ChangeStructure, MarkSessionForReset
<1>8. CASE ChangeBitrate
  <2>1. PICK candidate \in { c \in Config \ {desired} : c.structure = desired.structure } :
          \/ ~Active /\ desired' = candidate /\ UNCHANGED sessionVars
          \/ Active /\ desired' = candidate /\ ApplyBitrate
          \/ Active /\ desired' = desired /\ MarkSessionForReset
    BY <1>8 DEF ChangeBitrate
  <2>2. [ desired EXCEPT !.bitrate = candidate.bitrate ] = candidate /\ candidate \in Config
    BY BackendAssumption
  <2> QED
    BY <2>1, <2>2 DEF MarkSessionForReset, ApplyBitrate
<1>9. CASE WorkerWakes
  BY <1>9 DEF WorkerWakes
<1>10. CASE LoopWaits
  BY <1>10 DEF LoopWaits
<1>11. CASE LoopFindsHostLost
  BY <1>11 DEF LoopFindsHostLost, MarkSessionForReset
<1>12. CASE RepeatStaticFrame
  BY <1>12 DEF RepeatStaticFrame, MarkSessionForReset
<1>13. CASE LoopSkipsRepeat
  BY <1>13 DEF LoopSkipsRepeat
<1>14. CASE DrainOutput
  BY <1>14 DEF DrainOutput
<1>15. CASE DrainFails
  BY <1>15 DEF DrainFails, MarkSessionForReset
<1>16. CASE EncodeFrame
  BY <1>16 DEF EncodeFrame
<1>17. CASE HostConnects
  BY <1>17 DEF HostConnects
<1>18. CASE HostIsLost
  BY <1>18 DEF HostIsLost
<1>19. CASE Tick
  BY <1>19 DEF Tick
<1>20. CASE UNCHANGED vars
  BY <1>20 DEF vars
<1> QED
  BY <1>1, <1>2, <1>3, <1>4, <1>5, <1>6, <1>7, <1>8, <1>9, <1>10, <1>11, <1>12, <1>13, <1>14,
     <1>15, <1>16, <1>17, <1>18, <1>19, <1>20
  DEF Next, Composer, GetStreamState, Loop

\* An update of the encoder's configuration is in force in every session that takes
\* frames, or the session is given up (ApplyVideoEncoderConfig, MaintainSessionLocked).
THEOREM ConfigTheorem == Spec => []ConfigIsCurrent
<1>1. Init => ConfigInv
  BY BackendAssumption DEF Init, ConfigInv, ConfigIsCurrent, Active
<1>2. ConfigInv => ConfigIsCurrent
  BY DEF ConfigInv
<1> QED
  BY <1>1, <1>2, ConfigStep, PTL DEF Spec

-----------------------------------------------------------------------------
(* The buffers *)

BufferInv ==
  /\ buffers \subseteq Buffer
  /\ imported \in [Buffer -> Nat]
  /\ registeredIn \in [Buffer -> Nat]
  /\ generation \in Nat
  /\ \A b \in Buffer : imported[b] = IF b \in buffers THEN 1 ELSE 0
  /\ \A b \in buffers : registeredIn[b] = generation
  /\ ~session => buffers = {}

\* Registrations, resets and removals keep composer and encoder in step.
LEMMA BufferStep == BufferInv /\ [Next]_vars => BufferInv'
<1> SUFFICES ASSUME BufferInv, [Next]_vars PROVE BufferInv'
  OBVIOUS
<1> USE DEF BufferInv, sessionVars, bufferVars
<1>1. ASSUME NEW b \in Buffer, NEW g \in 0 .. generation, RegisterBuffer(b, g) PROVE BufferInv'
  BY <1>1 DEF RegisterBuffer, Valid, ForgetBuffer, ResetStaticFrameState
<1>2. ASSUME NEW b \in Buffer, NEW g \in 0 .. generation, NEW o \in Offsets,
             SubmitFrame(b, g, now + o)
      PROVE  BufferInv'
  BY <1>2 DEF SubmitFrame
<1>3. CASE RefuseRequest
  BY <1>3 DEF RefuseRequest, MarkSessionForReset
<1>4. CASE DestroySession
  BY <1>4 DEF DestroySession
<1>5. CASE AcceptFails
  BY <1>5 DEF AcceptFails
<1>6. CASE CreateSession
  BY <1>6 DEF CreateSession, MayAccept
<1>7. CASE ChangeStructure
  BY <1>7 DEF ChangeStructure, MarkSessionForReset
<1>8. CASE ChangeBitrate
  BY <1>8 DEF ChangeBitrate, MarkSessionForReset, ApplyBitrate
<1>9. CASE WorkerWakes
  BY <1>9 DEF WorkerWakes
<1>10. CASE LoopWaits
  BY <1>10 DEF LoopWaits
<1>11. CASE LoopFindsHostLost
  BY <1>11 DEF LoopFindsHostLost, MarkSessionForReset
<1>12. CASE RepeatStaticFrame
  BY <1>12 DEF RepeatStaticFrame, MarkSessionForReset
<1>13. CASE LoopSkipsRepeat
  BY <1>13 DEF LoopSkipsRepeat
<1>14. CASE DrainOutput
  BY <1>14 DEF DrainOutput
<1>15. CASE DrainFails
  BY <1>15 DEF DrainFails, MarkSessionForReset
<1>16. CASE EncodeFrame
  BY <1>16 DEF EncodeFrame
<1>17. CASE HostConnects
  BY <1>17 DEF HostConnects
<1>18. CASE HostIsLost
  BY <1>18 DEF HostIsLost
<1>19. CASE Tick
  BY <1>19 DEF Tick
<1>20. CASE UNCHANGED vars
  BY <1>20 DEF vars
<1> QED
  BY <1>1, <1>2, <1>3, <1>4, <1>5, <1>6, <1>7, <1>8, <1>9, <1>10, <1>11, <1>12, <1>13, <1>14,
     <1>15, <1>16, <1>17, <1>18, <1>19, <1>20
  DEF Next, Composer, GetStreamState, Loop

\* The composer's buffers are the encoder's, imported once, of the session's generation
\* (RegisterBuffer, MaintainSessionLocked).
THEOREM BufferTheorem == Spec => []BuffersAreCurrent
<1>1. Init => BufferInv
  BY DEF Init, BufferInv
<1>2. BufferInv => BuffersAreCurrent
  BY DEF BufferInv, BuffersAreCurrent
<1> QED
  BY <1>1, <1>2, BufferStep, PTL DEF Spec

-----------------------------------------------------------------------------
(* The frames waited for *)

PendingInv ==
  /\ pending \in Nat /\ inCodec \in Nat /\ ready \in Nat
  /\ ~session => inCodec = 0 /\ ready = 0 /\ ~hasFrame
  /\ PendingIsExact

\* Frames submitted, drained and dropped with their session keep the count exact.
LEMMA PendingStep == PendingInv /\ [Next]_vars => PendingInv'
<1> SUFFICES ASSUME PendingInv, [Next]_vars PROVE PendingInv'
  OBVIOUS
<1> USE DEF PendingInv, PendingIsExact, sessionVars, encoderVars
<1>1. ASSUME NEW b \in Buffer, NEW g \in 0 .. generation, RegisterBuffer(b, g) PROVE PendingInv'
  BY <1>1 DEF RegisterBuffer, Valid, ForgetBuffer, ResetStaticFrameState
<1>2. ASSUME NEW b \in Buffer, NEW g \in 0 .. generation, NEW o \in Offsets,
             SubmitFrame(b, g, now + o)
      PROVE  PendingInv'
  BY <1>2 DEF SubmitFrame, Valid, Active
<1>3. CASE RefuseRequest
  BY <1>3 DEF RefuseRequest, MarkSessionForReset
<1>4. CASE DestroySession
  BY <1>4 DEF DestroySession
<1>5. CASE AcceptFails
  BY <1>5 DEF AcceptFails
<1>6. CASE CreateSession
  BY <1>6 DEF CreateSession, MayAccept
<1>7. CASE ChangeStructure
  BY <1>7 DEF ChangeStructure, MarkSessionForReset
<1>8. CASE ChangeBitrate
  BY <1>8 DEF ChangeBitrate, MarkSessionForReset, ApplyBitrate
<1>9. CASE WorkerWakes
  BY <1>9 DEF WorkerWakes
<1>10. CASE LoopWaits
  BY <1>10 DEF LoopWaits
<1>11. CASE LoopFindsHostLost
  BY <1>11 DEF LoopFindsHostLost, MarkSessionForReset
<1>12. CASE RepeatStaticFrame
  <2>1. Active /\ session
    BY <1>12 DEF RepeatStaticFrame, Active
  <2>2. CASE /\ pending' = pending + 1 /\ inCodec' = inCodec + 1
             /\ UNCHANGED << sessionVars, ready, hasFrame >>
    BY <2>1, <2>2
  <2>3. CASE MarkSessionForReset
    BY <2>3 DEF MarkSessionForReset
  <2> QED
    BY <1>12, <2>2, <2>3 DEF RepeatStaticFrame
<1>13. CASE LoopSkipsRepeat
  BY <1>13 DEF LoopSkipsRepeat
<1>14. CASE DrainOutput
  <2>1. PICK uncounted \in IF mode = "codec" THEN 0 .. Taken ELSE { 0 } :
          ready' = ready - Taken /\ pending' = PendingAfter(Taken - uncounted)
    BY <1>14 DEF DrainOutput
  <2>2. DrainLimit \in Nat \ {0}
    BY BackendAssumption
  <2>3. UNCHANGED << session, reset, mode, inCodec, hasFrame >>
    BY <1>14 DEF DrainOutput
  <2> QED
    BY <2>1, <2>2, <2>3 DEF PendingAfter, Taken
<1>15. CASE DrainFails
  BY <1>15 DEF DrainFails, MarkSessionForReset
<1>16. CASE EncodeFrame
  BY <1>16 DEF EncodeFrame
<1>17. CASE HostConnects
  BY <1>17 DEF HostConnects
<1>18. CASE HostIsLost
  BY <1>18 DEF HostIsLost
<1>19. CASE Tick
  BY <1>19 DEF Tick
<1>20. CASE UNCHANGED vars
  BY <1>20 DEF vars
<1> QED
  BY <1>1, <1>2, <1>3, <1>4, <1>5, <1>6, <1>7, <1>8, <1>9, <1>10, <1>11, <1>12, <1>13, <1>14,
     <1>15, <1>16, <1>17, <1>18, <1>19, <1>20
  DEF Next, Composer, GetStreamState, Loop

\* The count of frames waited for is what the VA-API encoder holds (DrainOutputLocked).
THEOREM PendingTheorem == Spec => []PendingIsExact
<1>1. Init => PendingInv
  BY DEF Init, PendingInv, PendingIsExact
<1>2. PendingInv => PendingIsExact
  BY DEF PendingInv
<1> QED
  BY <1>1, <1>2, PendingStep, PTL DEF Spec
-----------------------------------------------------------------------------
(* The retained frame *)

\* A source frame was given only to an encoder that is still there and keeps it: the
\* property is inductive as it stands.
LEMMA RetainStep == RepeatedFrameIsRetained /\ [Next]_vars => RepeatedFrameIsRetained'
<1> SUFFICES ASSUME RepeatedFrameIsRetained, [Next]_vars PROVE RepeatedFrameIsRetained'
  OBVIOUS
<1> USE DEF RepeatedFrameIsRetained, Active, sessionVars, encoderVars, bufferVars, staticVars,
           ResetStaticFrameState
<1>21. ASSUME MarkSessionForReset PROVE UNCHANGED << session, hasFrame >>
  BY <1>21 DEF MarkSessionForReset
<1>1. ASSUME NEW b \in Buffer, NEW g \in 0 .. generation, RegisterBuffer(b, g)
      PROVE  RepeatedFrameIsRetained'
  BY <1>1 DEF RegisterBuffer, Valid
<1>2. ASSUME NEW b \in Buffer, NEW g \in 0 .. generation, NEW o \in Offsets,
             SubmitFrame(b, g, now + o)
      PROVE  RepeatedFrameIsRetained'
  BY <1>2 DEF SubmitFrame, Valid
<1>3. CASE RefuseRequest
  BY <1>3 DEF RefuseRequest, MarkSessionForReset
<1>4. CASE DestroySession
  BY <1>4 DEF DestroySession
<1>5. CASE AcceptFails
  BY <1>5 DEF AcceptFails
<1>6. CASE CreateSession
  BY <1>6 DEF CreateSession, SessionConfig
<1>7. CASE ChangeStructure
  BY <1>7 DEF ChangeStructure, MarkSessionForReset
<1>8. CASE ChangeBitrate
  BY <1>8, <1>21 DEF ChangeBitrate, ApplyBitrate
<1>9. CASE WorkerWakes
  BY <1>9 DEF WorkerWakes
<1>10. CASE LoopWaits
  BY <1>10 DEF LoopWaits
<1>11. CASE LoopFindsHostLost
  BY <1>11 DEF LoopFindsHostLost, MarkSessionForReset
<1>12. CASE RepeatStaticFrame
  BY <1>12, <1>21 DEF RepeatStaticFrame
<1>13. CASE LoopSkipsRepeat
  BY <1>13 DEF LoopSkipsRepeat
<1>14. CASE DrainOutput
  BY <1>14 DEF DrainOutput
<1>15. CASE DrainFails
  BY <1>15 DEF DrainFails, MarkSessionForReset
<1>16. CASE EncodeFrame
  BY <1>16 DEF EncodeFrame
<1>17. CASE HostConnects
  BY <1>17 DEF HostConnects
<1>18. CASE HostIsLost
  BY <1>18 DEF HostIsLost
<1>19. CASE Tick
  BY <1>19 DEF Tick
<1>20. CASE UNCHANGED vars
  BY <1>20 DEF vars
<1> QED
  BY <1>1, <1>2, <1>3, <1>4, <1>5, <1>6, <1>7, <1>8, <1>9, <1>10, <1>11, <1>12, <1>13, <1>14,
     <1>15, <1>16, <1>17, <1>18, <1>19, <1>20
  DEF Next, Composer, GetStreamState, Loop

\* The frame the backend repeats is one the session's encoder retains (SubmitFrame,
\* MaybeRepeatStaticFrameLocked, ResetStaticFrameStateLocked).
THEOREM RetainTheorem == Spec => []RepeatedFrameIsRetained
<1>1. Init => RepeatedFrameIsRetained
  BY DEF Init, RepeatedFrameIsRetained
<1> QED
  BY <1>1, RetainStep, PTL DEF Spec
=============================================================================
