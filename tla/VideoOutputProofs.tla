-------------------------- MODULE VideoOutputProofs --------------------------
(***************************************************************************)
(* The output controller over the real sink implements VideoStreamContract *)
(* for every number of frames and configurations, every sink limit and     *)
(* every packet size.                                                      *)
(*                                                                         *)
(* The contract speaks of what the host has read; the controller decides   *)
(* on what it has queued.  Between the two lies the queue, so the          *)
(* invariant gives the host a view per queued packet: what it will know    *)
(* once it has read that far.  Every packet in the queue is one the        *)
(* contract lets the view before it take, and the controller's state says  *)
(* what the last view is like.  A discard, a failed send or Stop() cuts    *)
(* the views short, and what holds of all of them is what recovery starts  *)
(* from.                                                                   *)
(***************************************************************************)
EXTENDS VideoOutput, SequenceTheorems, TLAPS

-----------------------------------------------------------------------------
(* What the host knows, and which packets it may be handed next *)

HostView == [ last : Packet \cup {None}, frame : 0 .. MaxFrames,
              skipped : BOOLEAN, config : 0 .. MaxConfigs ]

SeqOf(h) == IF h.last = None THEN -1 ELSE h.last.seq

GapAt(h, p) == p.seq > SeqOf(h) + 1

HoleAt(h, p) == h.frame # 0 /\ p.frame # h.frame + 1

Ended(h) == h.last # None /\ h.last.kind = "eos"

\* The host's knowledge after reading p, as HostReads updates it.
Read(h, p) ==
  [ last    |-> p,
    frame   |-> IF p.frame = 0 THEN h.frame ELSE p.frame,
    skipped |-> p.frame = 0 /\ (h.skipped \/ GapAt(h, p)),
    config  |-> IF p.kind = "config" THEN p.config ELSE h.config ]

TakesFrameless(p) == p.kind \in { "config", "eos" } /\ p.frame = 0

TakesKey(h, p) ==
  /\ p.kind = "key"
  /\ p.frame > h.frame
  /\ p.config = 0 \/ p.config = h.config
  /\ h.frame # 0 => (p.disc <=> HoleAt(h, p))
  /\ HoleAt(h, p) => h.skipped \/ GapAt(h, p)

TakesDelta(h, p) ==
  /\ p.kind = "delta"
  /\ h.frame # 0 /\ p.frame = h.frame + 1
  /\ ~h.skipped /\ ~GapAt(h, p)

\* The contract lets a host that knows h be handed p.
Takes(h, p) ==
  /\ ~Ended(h)
  /\ p.seq > SeqOf(h)
  /\ TakesFrameless(p) \/ TakesKey(h, p) \/ TakesDelta(h, p)

\* v lists what the host knows before each packet of q, and after the last one.
Links(q, v) ==
  /\ v \in [ 1 .. Len(q) + 1 -> HostView ]
  /\ \A i \in 1 .. Len(q) : Takes(v[i], q[i]) /\ v[i + 1] = Read(v[i], q[i])

-----------------------------------------------------------------------------
(* The invariant *)

SinkTypes ==
  /\ queue \in Seq(Packet)
  /\ inFlight \in Packet \cup {None}
  /\ isConnected \in BOOLEAN
  /\ sender = "sending" <=> inFlight # None

ControllerTypes ==
  /\ worker \in { "idle", "discarding", "discardingEos", "failed", "closed" }
  /\ state \in States
  /\ nextSequence \in Nat
  /\ frame \in 0 .. MaxFrames
  /\ config \in 0 .. MaxConfigs
  /\ codecConfig = config
  /\ initialDiscontinuity \in BOOLEAN
  /\ host \in HostView

\* Every frame uses two sequence numbers at most, the end of stream one more.
SequenceIsBounded ==
  /\ nextSequence <= 2 * frame + 1
  /\ worker \in { "idle", "discarding" } /\ state # "EndOfStream" => nextSequence <= 2 * frame

StateIsLive ==
  /\ worker = "idle" => state \in { "Starting", "Streaming", "Recovering", "EndOfStream" }
  /\ worker = "discarding" => state # "EndOfStream"

\* Frames and sequence numbers have been lost since the host's view h.
Behind(h) == h.frame < frame /\ SeqOf(h) + 1 < nextSequence

\* The worker has lost packets and the host is not past the loss.
Lossy == worker = "discarding" \/ (worker = "idle" /\ state = "Recovering")

\* What any view is like, however far the host gets.
Reachable(h) ==
  /\ h.frame <= frame
  /\ SeqOf(h) < nextSequence
  /\ Ended(h) => state = "EndOfStream"
  /\ state = "Starting" => h.frame = 0
  /\ Lossy => Behind(h)

\* The view h includes everything the encoder emitted.
Current(h) ==
  /\ frame # 0 /\ h.frame = frame
  /\ ~h.skipped
  /\ SeqOf(h) + 1 = nextSequence

Streams == worker = "idle" /\ state = "Streaming" /\ isConnected

Views(v) ==
  /\ Links(queue, v)
  /\ inFlight = None => v[1] = host
  /\ inFlight # None => Takes(host, inFlight) /\ v[1] = Read(host, inFlight)
  /\ \A i \in 1 .. Len(queue) + 1 : Reachable(v[i])
  /\ Streams => Current(v[Len(queue) + 1])

StreamInv ==
  /\ SinkTypes
  /\ ControllerTypes
  /\ SequenceIsBounded
  /\ StateIsLive
  /\ \E v : Views(v)

-----------------------------------------------------------------------------
(* Views of a queue *)

\* Reading a packet of the stream leads from a view to a view (HostReads).
LEMMA ReadIsAView ==
  ASSUME NEW h \in HostView, NEW p \in Packet
  PROVE  /\ Read(h, p) \in HostView
         /\ Read(h, p).last = p
         /\ SeqOf(Read(h, p)) = p.seq
         /\ Read(h, p).frame = IF p.frame = 0 THEN h.frame ELSE p.frame
         /\ Read(h, p).skipped <=> (p.frame = 0 /\ (h.skipped \/ GapAt(h, p)))
         /\ Read(h, p).config = IF p.kind = "config" THEN p.config ELSE h.config
<1> DEFINE s == p.frame = 0 /\ (h.skipped \/ GapAt(h, p))
<1>1. s \in BOOLEAN
  OBVIOUS
<1> HIDE DEF s
<1>2. p \in Packet \cup {None} /\ p # None
  BY NoneAssumption
<1>3. (IF p.frame = 0 THEN h.frame ELSE p.frame) \in 0 .. MaxFrames
  BY DEF HostView, Packet
<1>4. (IF p.kind = "config" THEN p.config ELSE h.config) \in 0 .. MaxConfigs
  BY DEF HostView, Packet
<1>5. Read(h, p) = [ last |-> p, frame |-> IF p.frame = 0 THEN h.frame ELSE p.frame, skipped |-> s,
                     config |-> IF p.kind = "config" THEN p.config ELSE h.config ]
  BY Zenon DEF Read, s
<1>6. Read(h, p) \in HostView
  BY <1>1, <1>2, <1>3, <1>4, <1>5 DEF HostView
<1>7. /\ Read(h, p).last = p
      /\ Read(h, p).frame = IF p.frame = 0 THEN h.frame ELSE p.frame
      /\ Read(h, p).config = IF p.kind = "config" THEN p.config ELSE h.config
  BY <1>5
<1>8. Read(h, p).skipped = s
  BY <1>5, SMT
<1>9. SeqOf(Read(h, p)) = p.seq
  BY <1>2, <1>7 DEF SeqOf
<1> QED
  BY <1>6, <1>7, <1>8, <1>9 DEF s

\* The sequence number a view counts from is a number.
LEMMA SeqOfIsInt == ASSUME NEW h \in HostView PROVE SeqOf(h) \in Int
  BY DEF SeqOf, HostView, Packet

\* A queue without packets has the one view it starts from.
LEMMA EmptyLinks ==
  ASSUME NEW h \in HostView
  PROVE  \E w : Links(<< >>, w) /\ w[1] = h
<1> DEFINE w == [ i \in 1 .. 1 |-> h ]
<1>1. Len(<< >>) = 0
  OBVIOUS
<1>2. w \in [ 1 .. 1 -> HostView ] /\ w[1] = h
  OBVIOUS
<1> HIDE DEF w
<1>3. Links(<< >>, w)
  BY <1>1, <1>2 DEF Links
<1> QED
  BY <1>2, <1>3

\* Taking the head of the queue drops the first view (SenderTake).
LEMMA TailLinks ==
  ASSUME NEW q \in Seq(Packet), q # << >>, NEW v, Links(q, v)
  PROVE  \E w : /\ Links(Tail(q), w)
                /\ \A i \in 1 .. Len(q) : w[i] = v[i + 1]
<1> DEFINE t == Tail(q)
           w == [ i \in 1 .. Len(q) |-> v[i + 1] ]
<1>1. /\ t \in Seq(Packet) /\ Len(t) = Len(q) - 1 /\ Len(q) \in Nat \ {0}
      /\ \A i \in 1 .. Len(t) : t[i] = q[i + 1]
  BY HeadTailProperties, EmptySeq, LenProperties
<1>2. \A i \in 1 .. Len(q) + 1 : v[i] \in HostView
  BY DEF Links
<1>3. \A i \in 1 .. Len(q) : w[i] = v[i + 1] /\ i + 1 \in 1 .. Len(q) + 1
  BY <1>1
<1>4. w \in [ 1 .. Len(t) + 1 -> HostView ]
  BY <1>1, <1>2, <1>3
<1> HIDE DEF t, w
<1>5. ASSUME NEW i \in 1 .. Len(t)
      PROVE  Takes(w[i], t[i]) /\ w[i + 1] = Read(w[i], t[i])
  <2>1. i \in 1 .. Len(q) /\ i + 1 \in 1 .. Len(q) /\ t[i] = q[i + 1]
    BY <1>1
  <2>2. w[i] = v[i + 1] /\ w[i + 1] = v[i + 1 + 1]
    BY <1>3, <2>1
  <2>3. Takes(v[i + 1], q[i + 1]) /\ v[i + 1 + 1] = Read(v[i + 1], q[i + 1])
    BY <2>1 DEF Links
  <2> QED
    BY <2>1, <2>2, <2>3
<1>6. Links(t, w)
  BY <1>4, <1>5 DEF Links
<1> QED
  BY <1>3, <1>6 DEF t

\* A packet behind the queue adds the view of a host that has read it too (Enqueue).
LEMMA AppendLinks ==
  ASSUME NEW q \in Seq(Packet), NEW v, Links(q, v),
         NEW p \in Packet, Takes(v[Len(q) + 1], p)
  PROVE  \E w : /\ Links(Append(q, p), w)
                /\ \A i \in 1 .. Len(q) + 1 : w[i] = v[i]
                /\ w[Len(q) + 2] = Read(v[Len(q) + 1], p)
<1> DEFINE n == Len(q)
           a == Append(q, p)
           r == Read(v[n + 1], p)
           w == [ i \in 1 .. n + 2 |-> IF i = n + 2 THEN r ELSE v[i] ]
<1>1. /\ n \in Nat /\ Len(a) = n + 1 /\ a[n + 1] = p
      /\ \A i \in 1 .. n : a[i] = q[i]
  BY AppendProperties, LenProperties
<1> HIDE DEF n, a
<1>2. /\ v \in [ 1 .. n + 1 -> HostView ] /\ Takes(v[n + 1], p)
      /\ \A i \in 1 .. n : Takes(v[i], q[i]) /\ v[i + 1] = Read(v[i], q[i])
  BY DEF Links, n
<1>3. r \in HostView
  BY <1>1, <1>2, ReadIsAView
<1>4. r = Read(v[n + 1], p)
  OBVIOUS
<1> HIDE DEF r
<1>5. /\ w \in [ 1 .. n + 2 -> HostView ]
      /\ \A i \in 1 .. n + 1 : w[i] = v[i]
      /\ w[n + 2] = r
  BY <1>1, <1>2, <1>3
<1> HIDE DEF w
<1>6. ASSUME NEW i \in 1 .. Len(a)
      PROVE  Takes(w[i], a[i]) /\ w[i + 1] = Read(w[i], a[i])
  <2>1. CASE i = n + 1
    <3>1. w[i] = v[n + 1] /\ a[i] = p /\ w[i + 1] = r
      BY <1>1, <1>5, <2>1
    <3> QED
      BY <1>2, <1>4, <3>1
  <2>2. CASE i # n + 1
    <3>1. i \in 1 .. n /\ i \in 1 .. n + 1 /\ i + 1 \in 1 .. n + 1
      BY <1>1, <2>2
    <3>2. w[i] = v[i] /\ a[i] = q[i] /\ w[i + 1] = v[i + 1]
      BY <1>1, <1>5, <3>1
    <3> QED
      BY <1>2, <3>1, <3>2
  <2> QED
    BY <2>1, <2>2
<1>7. Len(a) + 1 = n + 2
  BY <1>1
<1>8. Links(a, w)
  BY <1>5, <1>6, <1>7 DEF Links
<1> QED
  BY <1>4, <1>5, <1>8 DEF a, n

\* The last view is a view.
LEMMA LastIsAView ==
  ASSUME NEW q \in Seq(Packet), NEW v, Links(q, v)
  PROVE  /\ Len(q) \in Nat
         /\ \A i \in 1 .. Len(q) + 1 : v[i] \in HostView
  BY LenProperties DEF Links

-----------------------------------------------------------------------------
(* What the host reads is what the contract lets it be handed *)

\* A completed send hands over the packet in flight, which the view before it takes
\* (SendLoop of HostVideoSink).
LEMMA ReadIsHanded ==
  ASSUME SinkTypes, ControllerTypes, NEW v, Views(v), HostReads
  PROVE  Contract!ContractNext
<1>1. inFlight \in Packet /\ Takes(host, inFlight)
  BY DEF HostReads, Sink!SendSucceeds, SinkTypes, Views
<1>2. host \in HostView /\ host' = Read(host, inFlight)
  BY DEF ControllerTypes, HostReads, Read, GapAt, SeqOf, SequenceRead
<1>3. /\ host'.last = inFlight
      /\ host'.frame = IF inFlight.frame = 0 THEN host.frame ELSE inFlight.frame
      /\ host'.skipped <=> (inFlight.frame = 0 /\ (host.skipped \/ GapAt(host, inFlight)))
      /\ host'.config = IF inFlight.kind = "config" THEN inFlight.config ELSE host.config
  BY <1>1, <1>2, ReadIsAView
<1>4. /\ Contract!Gap(inFlight) <=> GapAt(host, inFlight)
      /\ Contract!Hole(inFlight) <=> HoleAt(host, inFlight)
      /\ Contract!LastSequence = SeqOf(host)
  BY DEF Contract!Gap, Contract!Hole, Contract!LastSequence, GapAt, HoleAt, SeqOf
<1>5. host.frame \in Nat /\ inFlight.frame \in Nat
  BY <1>1, <1>2 DEF HostView, Packet
<1>6. \/ Contract!HandConfig(inFlight) \/ Contract!HandKey(inFlight)
      \/ Contract!HandDelta(inFlight) \/ Contract!HandEndOfStream(inFlight)
  <2>1. CASE TakesFrameless(inFlight)
    BY <1>3, <2>1 DEF TakesFrameless, Contract!HandConfig, Contract!HandEndOfStream
  <2>2. CASE TakesKey(host, inFlight)
    <3>1. inFlight.frame # 0 /\ inFlight.kind = "key"
      BY <1>5, <2>2 DEF TakesKey
    <3>2. host'.frame = inFlight.frame /\ host'.config = host.config
      BY <1>3, <3>1
    <3> QED
      BY <1>4, <2>2, <3>2, Zenon DEF TakesKey, Contract!HandKey
  <2>3. CASE TakesDelta(host, inFlight)
    <3>1. inFlight.frame # 0 /\ inFlight.kind = "delta" /\ ~HoleAt(host, inFlight)
      BY <1>5, <2>3 DEF TakesDelta, HoleAt
    <3>2. host'.frame = inFlight.frame /\ host'.config = host.config
      BY <1>3, <3>1
    <3> QED
      BY <1>4, <2>3, <3>1, <3>2, Zenon DEF TakesDelta, Contract!HandDelta
  <2> QED
    BY <1>1, <2>1, <2>2, <2>3 DEF Takes
<1>7. /\ host.last = None \/ host.last.kind # "eos"
      /\ inFlight.seq > Contract!LastSequence
  BY <1>1, <1>4 DEF Takes, Ended
<1>8. host'.skipped = (inFlight.frame = 0 /\ (host.skipped \/ Contract!Gap(inFlight)))
  <2>1. host'.skipped \in BOOLEAN
    BY <1>1, <1>2, ReadIsAView DEF HostView
  <2> QED
    BY <1>3, <1>4, <2>1
<1>9. Contract!Hand(inFlight)
  BY <1>6, <1>7, <1>8, Zenon DEF Contract!Hand
<1> QED
  BY <1>1, <1>3, <1>9, Zenon DEF Contract!ContractNext

-----------------------------------------------------------------------------
(* Steps of the worker *)

\* A step that leaves the queue and the host alone keeps the views, if it keeps what
\* is known of each.
LEMMA KeepViews ==
  ASSUME NEW v, Views(v), queue \in Seq(Packet), UNCHANGED << queue, inFlight, host >>,
         \A h \in HostView : Reachable(h) => Reachable(h)',
         Streams' => \A h \in HostView : (Streams => Current(h)) => Current(h)'
  PROVE  Views(v)'
<1>1. \A i \in 1 .. Len(queue) + 1 : v[i] \in HostView /\ Reachable(v[i])
  BY LastIsAView DEF Views
<1>2. \A i \in 1 .. Len(queue') + 1 : Reachable(v[i])'
  BY <1>1
<1>3. Streams' => Current(v[Len(queue) + 1])'
  <2>1. Len(queue) + 1 \in 1 .. Len(queue) + 1
    BY LenProperties
  <2>2. Streams => Current(v[Len(queue) + 1])
    BY DEF Views
  <2> QED
    BY <1>1, <2>1, <2>2
<1>4. Links(queue', v)
  BY DEF Views
<1>5. /\ inFlight' = None => v[1] = host'
      /\ inFlight' # None => Takes(host', inFlight') /\ v[1] = Read(host', inFlight')
  BY DEF Views
<1> QED
  BY <1>2, <1>3, <1>4, <1>5, Zenon DEF Views

\* A packet the controller makes has the fields it was made from.
LEMMA MakePacketIsPacket ==
  ASSUME NEW kind \in Kinds, NEW f \in 0 .. MaxFrames, NEW c \in 0 .. MaxConfigs,
         NEW s \in 0 .. MaxSequence, NEW disc \in BOOLEAN, NEW valid \in BOOLEAN
  PROVE  LET p == MakePacket(kind, f, c, s, disc, valid)
         IN  /\ p \in Packet
             /\ p.kind = kind /\ p.frame = f /\ p.config = c /\ p.seq = s /\ p.disc = disc
  BY DEF MakePacket, Packet

\* SubmitBatch queues an accepted batch whole, over a connected socket, and leaves the
\* sink alone otherwise.
LEMMA SubmitBatchEffect ==
  ASSUME SinkTypes, NEW batch, NEW status, Sink!SubmitBatch(batch, status)
  PROVE  /\ status # "Accepted" => UNCHANGED sinkVars
         /\ status = "Accepted" =>
              /\ queue' = queue \o batch
              /\ UNCHANGED << inFlight, isConnected >>
              /\ isConnected
              /\ sender' = "sending" <=> inFlight' # None
<1>1. CASE status # "Accepted"
  BY <1>1 DEF Sink!SubmitBatch, Sink!sinkVars, sinkVars
<1>2. CASE status = "Accepted"
  <2>1. isConnected
    BY <1>2 DEF Sink!SubmitBatch, Sink!SubmitStatus
  <2>2. Sink!Enqueue(batch)
    BY <1>2 DEF Sink!SubmitBatch
  <2> QED
    BY <1>2, <2>1, <2>2 DEF Sink!Enqueue, Sink!Notified, SinkTypes
<1> QED
  BY <1>1, <1>2

\* What the queue becomes with more packets behind it: the old views stay, the new ones
\* lie between what was emitted and what is emitted now.
Extends(q, v, w, f, s) ==
  /\ Links(q, w)
  /\ \A i \in 1 .. Len(queue) + 1 : w[i] = v[i]
  /\ \A i \in Len(queue) + 2 .. Len(q) + 1 :
       w[i].frame <= f /\ SeqOf(w[i]) < s /\ ~Ended(w[i])
  /\ Len(q) > Len(queue)
  /\ LET last == w[Len(q) + 1]
     IN  last.frame = f /\ ~last.skipped /\ SeqOf(last) + 1 = s

\* One packet with a frame behind the queue.
LEMMA FrameExtends ==
  ASSUME NEW q \in Seq(Packet), NEW u, Links(q, u), Len(q) >= Len(queue), Len(queue) \in Nat,
         NEW v, \A i \in 1 .. Len(queue) + 1 : u[i] = v[i],
         NEW f \in Nat, NEW s \in Nat, NEW p \in Packet, p.frame = f, f # 0, p.seq + 1 = s,
         p.kind # "eos",
         \A i \in Len(queue) + 2 .. Len(q) + 1 :
           u[i].frame <= f /\ SeqOf(u[i]) < s /\ ~Ended(u[i]),
         Takes(u[Len(q) + 1], p)
  PROVE  \E w : Extends(Append(q, p), v, w, f, s)
<1> DEFINE a == Append(q, p)
<1>1. a \in Seq(Packet) /\ Len(a) = Len(q) + 1 /\ Len(q) \in Nat
  BY AppendProperties, LenProperties
<1>2. u[Len(q) + 1] \in HostView
  BY <1>1, LastIsAView
<1>3. PICK w : /\ Links(a, w)
               /\ \A i \in 1 .. Len(q) + 1 : w[i] = u[i]
               /\ w[Len(q) + 2] = Read(u[Len(q) + 1], p)
  BY AppendLinks
<1> HIDE DEF a
<1>4. /\ w[Len(q) + 2].last = p
      /\ w[Len(q) + 2].frame = f
      /\ ~w[Len(q) + 2].skipped
      /\ SeqOf(w[Len(q) + 2]) = p.seq
  BY <1>2, <1>3, ReadIsAView
<1>5. ~Ended(w[Len(q) + 2])
  BY <1>4 DEF Ended
<1>6. p.seq \in Nat
  BY DEF Packet
<1>7. \A i \in 1 .. Len(queue) + 1 : w[i] = v[i]
  BY <1>1, <1>3
<1>8. ASSUME NEW i \in Len(queue) + 2 .. Len(a) + 1
      PROVE  w[i].frame <= f /\ SeqOf(w[i]) < s /\ ~Ended(w[i])
  <2>1. CASE i = Len(q) + 2
    BY <1>4, <1>5, <1>6, <2>1
  <2>2. CASE i # Len(q) + 2
    <3>1. i \in Len(queue) + 2 .. Len(q) + 1 /\ i \in 1 .. Len(q) + 1
      BY <1>1, <2>2
    <3> QED
      BY <1>3, <3>1
  <2> QED
    BY <2>1, <2>2
<1>9. Len(a) + 1 = Len(q) + 2 /\ Len(a) > Len(queue)
  BY <1>1
<1>10. SeqOf(w[Len(q) + 2]) + 1 = s
  BY <1>4
<1> QED
  BY <1>3, <1>4, <1>7, <1>8, <1>9, <1>10 DEF Extends, a

\* What the controller's state says of the last view, when it goes on to submit.
LEMMA LastView ==
  ASSUME StreamInv, NEW v, Views(v), Dequeue
  PROVE  LET h == v[Len(queue) + 1]
         IN  /\ Len(queue) \in Nat /\ h \in HostView
             /\ SeqOf(h) \in Int /\ SeqOf(h) < nextSequence
             /\ h.frame \in Nat /\ h.frame <= frame
             /\ ~Ended(h)
             /\ state \in { "Starting", "Streaming", "Recovering" }
             /\ state = "Starting" => h.frame = 0
             /\ state = "Recovering" => Behind(h)
             /\ state = "Streaming" /\ isConnected => Current(h)
<1> DEFINE h == v[Len(queue) + 1]
<1>1. Len(queue) \in Nat /\ Len(queue) + 1 \in 1 .. Len(queue) + 1 /\ h \in HostView
  BY LastIsAView DEF StreamInv, SinkTypes, Views
<1>2. Reachable(h)
  BY <1>1 DEF Views
<1>3. worker = "idle" /\ state \in { "Starting", "Streaming", "Recovering" }
  BY DEF StreamInv, StateIsLive, Dequeue
<1>4. isConnected /\ state = "Streaming" => Current(h)
  BY <1>3 DEF Views, Streams
<1>5. h.frame \in Nat
  BY <1>1 DEF HostView
<1>6. SeqOf(h) \in Int
  BY <1>1, SeqOfIsInt
<1> HIDE DEF h
<1>7. ~Ended(h) /\ (state = "Recovering" => Behind(h))
  BY <1>2, <1>3 DEF Reachable, Lossy
<1>8. SeqOf(h) < nextSequence /\ h.frame <= frame /\ (state = "Starting" => h.frame = 0)
  BY <1>2 DEF Reachable
<1> QED
  BY <1>1, <1>3, <1>4, <1>5, <1>6, <1>7, <1>8 DEF h

\* A host about to read the next key frame can take it, marked as SendAccessPoint marks
\* it, if nothing is missing before it or the sequence shows the gap.
LEMMA KeyIsTaken ==
  ASSUME NEW g \in HostView, NEW p \in Packet, ~Ended(g), p.seq > SeqOf(g),
         p.kind = "key", p.frame = frame + 1, p.config = 0 \/ p.config = g.config,
         frame \in Nat, g.frame \in 0 .. frame, p.disc = AccessPointDiscontinuity,
         \/ g.frame = 0
         \/ state = "Streaming" /\ g.frame = frame
         \/ state = "Recovering" /\ g.frame < frame /\ (g.skipped \/ GapAt(g, p))
  PROVE  Takes(g, p)
<1>1. p.frame > g.frame
  OBVIOUS
<1>2. HoleAt(g, p) <=> (g.frame # 0 /\ frame # g.frame)
  BY DEF HoleAt
<1>3. CASE g.frame = 0
  BY <1>1, <1>2, <1>3 DEF Takes, TakesKey
<1>4. CASE state = "Streaming" /\ g.frame = frame
  <2>1. ~p.disc
    BY <1>4 DEF AccessPointDiscontinuity
  <2> QED
    BY <1>1, <1>2, <1>4, <2>1 DEF Takes, TakesKey
<1>5. CASE state = "Recovering" /\ g.frame < frame /\ (g.skipped \/ GapAt(g, p))
  <2>1. p.disc
    BY <1>5 DEF AccessPointDiscontinuity
  <2>2. TakesKey(g, p)
    BY <1>1, <1>2, <1>5, <2>1 DEF TakesKey
  <2> QED
    BY <2>2 DEF Takes
<1> QED
  BY <1>3, <1>4, <1>5

\* The access point is a key frame, behind the configuration it needs, that the host
\* can take wherever it has got to (SendAccessPoint).
LEMMA AccessPointExtends ==
  ASSUME StreamInv, NEW v, Views(v), Dequeue, frame < MaxFrames, isConnected,
         NEW valid \in BOOLEAN
  PROVE  LET b == AccessPoint(valid)
         IN  /\ Len(b) \in { 1, 2 }
             /\ queue \o b \in Seq(Packet)
             /\ \E w : Extends(queue \o b, v, w, frame + 1, nextSequence + Len(b))
<1> DEFINE h == v[Len(queue) + 1]
           d == AccessPointDiscontinuity
           key(s) == MakePacket("key", frame + 1, config, s, d, valid)
<1>1. /\ Len(queue) \in Nat /\ h \in HostView
      /\ SeqOf(h) \in Int /\ SeqOf(h) < nextSequence
      /\ h.frame \in Nat /\ h.frame <= frame
      /\ ~Ended(h)
      /\ state \in { "Starting", "Streaming", "Recovering" }
      /\ state = "Starting" => h.frame = 0
      /\ state = "Recovering" => Behind(h)
      /\ state = "Streaming" => Current(h)
  BY LastView
<1>2. d \in BOOLEAN /\ d = AccessPointDiscontinuity
  BY DEF AccessPointDiscontinuity, StreamInv, ControllerTypes
<1>3. /\ frame \in 0 .. MaxFrames /\ config \in 0 .. MaxConfigs /\ codecConfig = config
      /\ nextSequence \in Nat /\ nextSequence <= 2 * frame
      /\ MaxFrames \in Nat /\ MaxConfigs \in Nat
      /\ queue \in Seq(Packet) /\ Links(queue, v)
  BY VideoAssumption
     DEF StreamInv, ControllerTypes, SequenceIsBounded, SinkTypes, Views, Dequeue
<1>4. /\ nextSequence \in 0 .. MaxSequence /\ nextSequence + 1 \in 0 .. MaxSequence
      /\ frame + 1 \in 0 .. MaxFrames /\ 0 \in 0 .. MaxFrames
  BY <1>3 DEF MaxSequence
<1> HIDE DEF d
<1>5. ASSUME NEW s \in { nextSequence, nextSequence + 1 }
      PROVE  LET p == key(s)
             IN  /\ p \in Packet /\ p.kind = "key" /\ p.frame = frame + 1 /\ p.config = config
                 /\ p.seq = s /\ p.disc = d
  BY <1>2, <1>3, <1>4, MakePacketIsPacket DEF Kinds
<1> HIDE DEF h, key
<1>6. CASE codecConfig = 0
  <2> DEFINE p == key(nextSequence)
  <2>1. AccessPoint(valid) = << p >>
    BY <1>6 DEF AccessPoint, key, d
  <2>2. /\ p \in Packet /\ p.kind = "key" /\ p.frame = frame + 1 /\ p.config = 0
        /\ p.seq = nextSequence /\ p.disc = d
    BY <1>3, <1>5, <1>6
  <2> HIDE DEF p
  <2>3. state = "Recovering" => h.frame < frame /\ GapAt(h, p)
    BY <1>1, <1>3, <2>2 DEF Behind, GapAt
  <2>4. state = "Streaming" => h.frame = frame
    BY <1>1 DEF Current
  <2>5. Takes(h, p)
    BY <1>1, <1>2, <1>3, <2>2, <2>3, <2>4, KeyIsTaken
  <2>6. queue \o << p >> = Append(queue, p)
    BY <1>3, <2>2
  <2>7. Len(<< p >>) = 1 /\ Append(queue, p) \in Seq(Packet)
    BY <1>3, <2>2, AppendProperties
  <2>8. \A i \in Len(queue) + 2 .. Len(queue) + 1 : FALSE
    BY <1>1
  <2>9. \E w : Extends(Append(queue, p), v, w, frame + 1, nextSequence + 1)
    <3>1. p.kind # "eos" /\ p.seq + 1 = nextSequence + 1 /\ frame + 1 # 0
          /\ frame + 1 \in Nat /\ nextSequence + 1 \in Nat /\ Len(queue) >= Len(queue)
      BY <1>1, <1>3, <2>2
    <3>2. \A i \in Len(queue) + 2 .. Len(queue) + 1 :
            v[i].frame <= frame + 1 /\ SeqOf(v[i]) < nextSequence + 1 /\ ~Ended(v[i])
      BY <2>8
    <3>3. Takes(v[Len(queue) + 1], p)
      BY <2>5 DEF h
    <3> HIDE DEF h
    <3> QED
      BY <1>1, <1>3, <2>2, <3>1, <3>2, <3>3, FrameExtends
  <2> QED
    BY <2>1, <2>6, <2>7, <2>9
<1>7. CASE codecConfig # 0
  <2> DEFINE c == MakePacket("config", 0, codecConfig, nextSequence, FALSE, TRUE)
             p == key(nextSequence + 1)
             a == Append(queue, c)
             g == Read(h, c)
  <2>1. AccessPoint(valid) = << c, p >>
    BY <1>7 DEF AccessPoint, key, d
  <2>2. /\ p \in Packet /\ p.kind = "key" /\ p.frame = frame + 1 /\ p.config = config
        /\ p.seq = nextSequence + 1 /\ p.disc = d
    BY <1>5
  <2>3. /\ c \in Packet /\ c.kind = "config" /\ c.frame = 0 /\ c.config = config
        /\ c.seq = nextSequence
    <3>1. "config" \in Kinds /\ FALSE \in BOOLEAN /\ TRUE \in BOOLEAN
      BY DEF Kinds
    <3>2. codecConfig \in 0 .. MaxConfigs
      BY <1>3
    <3>3. LET r == MakePacket("config", 0, codecConfig, nextSequence, FALSE, TRUE)
          IN  /\ r \in Packet
              /\ r.kind = "config" /\ r.frame = 0 /\ r.config = codecConfig
              /\ r.seq = nextSequence
      BY <1>4, <3>1, <3>2 DEF MakePacket, Packet
    <3> QED
      BY <1>3, <3>3
  <2> HIDE DEF c, p
  <2>4. Takes(h, c)
    BY <1>1, <2>3 DEF Takes, TakesFrameless
  <2>5. /\ g \in HostView /\ g.last = c /\ SeqOf(g) = nextSequence /\ g.frame = h.frame
        /\ g.skipped <=> (h.skipped \/ GapAt(h, c))
        /\ g.config = config
    BY <1>1, <2>3, ReadIsAView
  <2>6. ~Ended(g)
    BY <2>3, <2>5 DEF Ended
  <2>7. /\ a \in Seq(Packet) /\ Len(a) = Len(queue) + 1
        /\ queue \o << c, p >> = Append(a, p) /\ Append(a, p) \in Seq(Packet)
    BY <1>3, <2>2, <2>3, AppendProperties
  <2>8. PICK u : /\ Links(a, u)
                 /\ \A i \in 1 .. Len(queue) + 1 : u[i] = v[i]
                 /\ u[Len(queue) + 2] = g
    BY <1>3, <2>3, <2>4, AppendLinks DEF h
  <2> HIDE DEF a, g
  <2>9. state = "Recovering" => h.frame < frame /\ GapAt(h, c)
    BY <1>1, <1>3, <2>3 DEF Behind, GapAt
  <2>10. state = "Streaming" => h.frame = frame
    BY <1>1 DEF Current
  <2>11. Takes(g, p)
    BY <1>1, <1>2, <1>3, <2>2, <2>5, <2>6, <2>9, <2>10, KeyIsTaken
  <2>12. \A i \in Len(queue) + 2 .. Len(a) + 1 : i = Len(queue) + 2
    BY <1>1, <2>7
  <2>13. u[Len(a) + 1] = g
    BY <1>1, <2>7, <2>8
  <2>14. \A i \in Len(queue) + 2 .. Len(a) + 1 :
           u[i].frame <= frame + 1 /\ SeqOf(u[i]) < nextSequence + 2 /\ ~Ended(u[i])
    BY <1>1, <1>3, <2>5, <2>6, <2>8, <2>12
  <2>15. \E w : Extends(Append(a, p), v, w, frame + 1, nextSequence + 2)
    <3>1. p.kind # "eos" /\ p.seq + 1 = nextSequence + 2 /\ frame + 1 # 0
          /\ frame + 1 \in Nat /\ nextSequence + 2 \in Nat /\ Len(a) >= Len(queue)
      BY <1>1, <1>3, <2>2, <2>7
    <3> QED
      BY <1>1, <2>2, <2>7, <2>8, <2>11, <2>13, <2>14, <3>1, FrameExtends
  <2>16. Len(<< c, p >>) = 2
    OBVIOUS
  <2> QED
    BY <2>1, <2>7, <2>15, <2>16
<1> QED
  BY <1>6, <1>7

\* A delta frame in an unbroken stream is one the host can take (SendDelta).
LEMMA DeltaExtends ==
  ASSUME StreamInv, NEW v, Views(v), Dequeue, frame < MaxFrames, isConnected,
         state = "Streaming", NEW valid \in BOOLEAN
  PROVE  LET p == MakePacket("delta", frame + 1, 0, nextSequence, FALSE, valid)
         IN  /\ queue \o << p >> \in Seq(Packet)
             /\ \E w : Extends(queue \o << p >>, v, w, frame + 1, nextSequence + 1)
<1> DEFINE h == v[Len(queue) + 1]
           p == MakePacket("delta", frame + 1, 0, nextSequence, FALSE, valid)
<1>1. /\ Len(queue) \in Nat /\ h \in HostView /\ ~Ended(h) /\ Current(h)
      /\ SeqOf(h) \in Int /\ SeqOf(h) < nextSequence
  BY LastView
<1>2. /\ frame \in 0 .. MaxFrames /\ nextSequence \in Nat /\ nextSequence <= 2 * frame
      /\ MaxFrames \in Nat /\ MaxConfigs \in Nat
      /\ queue \in Seq(Packet) /\ Links(queue, v)
  BY VideoAssumption
     DEF StreamInv, ControllerTypes, SequenceIsBounded, SinkTypes, Views, Dequeue
<1>3. /\ nextSequence \in 0 .. MaxSequence /\ frame + 1 \in 0 .. MaxFrames
      /\ 0 \in 0 .. MaxConfigs /\ "delta" \in Kinds /\ FALSE \in BOOLEAN
  BY <1>2 DEF MaxSequence, Kinds
<1>4. /\ p \in Packet /\ p.kind = "delta" /\ p.frame = frame + 1 /\ p.seq = nextSequence
  BY <1>3 DEF MakePacket, Packet
<1> HIDE DEF p
<1>5. Takes(h, p)
  BY <1>1, <1>2, <1>4 DEF Takes, TakesDelta, Current, GapAt
<1>6. queue \o << p >> = Append(queue, p) /\ Append(queue, p) \in Seq(Packet)
  BY <1>2, <1>4, AppendProperties
<1>7. /\ p.kind # "eos" /\ p.seq + 1 = nextSequence + 1 /\ frame + 1 # 0
      /\ frame + 1 \in Nat /\ nextSequence + 1 \in Nat /\ Len(queue) >= Len(queue)
  BY <1>1, <1>2, <1>4
<1>8. \A i \in Len(queue) + 2 .. Len(queue) + 1 :
        v[i].frame <= frame + 1 /\ SeqOf(v[i]) < nextSequence + 1 /\ ~Ended(v[i])
  BY <1>1
<1>9. Takes(v[Len(queue) + 1], p)
  BY <1>5
<1> HIDE DEF h
<1>10. \E w : Extends(Append(queue, p), v, w, frame + 1, nextSequence + 1)
  BY <1>1, <1>2, <1>4, <1>7, <1>8, <1>9, FrameExtends
<1> QED
  BY <1>6, <1>10 DEF p

\* An accepted frame keeps the views: behind them, the stream is current.
LEMMA AcceptedViews ==
  ASSUME StreamInv, NEW v, Views(v), NEW w, Dequeue,
         Extends(queue', v, w, frame', nextSequence'), queue' \in Seq(Packet),
         UNCHANGED << inFlight, host >>, worker' = "idle", state' = "Streaming",
         frame' = frame + 1, nextSequence' \in Nat, nextSequence' > nextSequence
  PROVE  Views(w)'
<1>1. /\ Len(queue) \in Nat /\ Len(queue') \in Nat /\ frame \in Nat /\ nextSequence \in Nat
      /\ \A i \in 1 .. Len(queue) + 1 : v[i] \in HostView /\ Reachable(v[i])
  BY LastIsAView, LenProperties DEF StreamInv, SinkTypes, Views, ControllerTypes
<1>2. ASSUME NEW i \in 1 .. Len(queue') + 1 PROVE Reachable(w[i])'
  <2>1. ~Lossy' /\ state' = "Streaming"
    BY DEF Lossy
  <2>2. w[i] \in HostView
    BY LastIsAView DEF Extends
  <2>3. w[i].frame <= frame' /\ SeqOf(w[i]) < nextSequence' /\ ~Ended(w[i])
    <3>1. CASE i \in 1 .. Len(queue) + 1
      <4>1. w[i] = v[i]
        BY <3>1 DEF Extends
      <4>2. v[i].frame \in Nat /\ SeqOf(v[i]) \in Int
        BY <1>1, <3>1, SeqOfIsInt DEF HostView
      <4> QED
        BY <1>1, <3>1, <4>1, <4>2 DEF Reachable, Dequeue
    <3>2. CASE i \notin 1 .. Len(queue) + 1
      <4>1. i \in Len(queue) + 2 .. Len(queue') + 1
        BY <1>1, <3>2
      <4> QED
        BY <4>1 DEF Extends
    <3> QED
      BY <3>1, <3>2
  <2> QED
    BY <2>1, <2>3 DEF Reachable
<1>3. ASSUME NEW h, h = w[Len(queue') + 1] PROVE Current(h)'
  BY <1>1, <1>3 DEF Extends, Current
<1>4. /\ inFlight' = None => w[1] = host'
      /\ inFlight' # None => Takes(host', inFlight') /\ w[1] = Read(host', inFlight')
  <2>1. w[1] = v[1]
    BY <1>1 DEF Extends
  <2> QED
    BY <2>1 DEF Views
<1>5. Links(queue', w)
  BY DEF Extends
<1> QED
  BY <1>2, <1>3, <1>4, <1>5, Zenon DEF Views

\* A frame that is not accepted leaves every view behind it (HandleEnqueueResult).
LEMMA LostViews ==
  ASSUME StreamInv, NEW v, Views(v), Dequeue, UNCHANGED << sinkVars, host >>,
         \/ worker' = "discarding" /\ state' = state
         \/ worker' = "failed" /\ state' \in { "Disconnected", "Error" },
         frame' = frame + 1, nextSequence' \in Nat, nextSequence' > nextSequence
  PROVE  Views(v)'
<1>1. ASSUME NEW h \in HostView, Reachable(h) PROVE Reachable(h)'
  <2>1. h.frame \in Nat /\ SeqOf(h) \in Int /\ frame \in Nat /\ nextSequence \in Nat
    BY SeqOfIsInt DEF HostView, StreamInv, ControllerTypes
  <2> QED
    BY <1>1, <2>1 DEF Reachable, Behind, Lossy, Dequeue
<1>2. ~Streams'
  BY DEF Streams
<1>3. queue \in Seq(Packet) /\ UNCHANGED << queue, inFlight, host >>
  BY DEF StreamInv, SinkTypes, sinkVars
<1> QED
  BY <1>1, <1>2, <1>3, KeepViews

\* Standalone codec data is cached and nothing is queued.
LEMMA ProcessConfigInv == ASSUME StreamInv, ProcessConfig PROVE StreamInv'
<1>1. UNCHANGED << sinkVars, worker, state, nextSequence, initialDiscontinuity, frame, host >>
  BY DEF ProcessConfig
<1>2. UNCHANGED << queue, inFlight, isConnected, sender >>
  BY <1>1 DEF sinkVars
<1>3. config' \in 0 .. MaxConfigs /\ codecConfig' = config'
  BY VideoAssumption DEF ProcessConfig, StreamInv, ControllerTypes
<1>4. SinkTypes'
  BY <1>2 DEF StreamInv, SinkTypes
<1>5. ControllerTypes' /\ SequenceIsBounded' /\ StateIsLive'
  BY <1>1, <1>3 DEF StreamInv, ControllerTypes, SequenceIsBounded, StateIsLive
<1>6. \E v : Views(v)'
  <2>1. PICK v : Views(v)
    BY DEF StreamInv
  <2>2. \A h \in HostView : Reachable(h) => Reachable(h)'
    BY <1>1 DEF Reachable, Behind, Lossy
  <2>3. Streams' => \A h \in HostView : (Streams => Current(h)) => Current(h)'
    BY <1>1, <1>2 DEF Streams, Current
  <2> QED
    BY <1>1, <1>2, <2>1, <2>2, <2>3, KeepViews DEF StreamInv, SinkTypes
<1> QED
  BY <1>4, <1>5, <1>6 DEF StreamInv

\* What submitting a frame leaves of the invariant, whatever the sink answers.
LEMMA SubmitInv ==
  ASSUME StreamInv, Dequeue, frame < MaxFrames, NEW batch, Len(batch) \in { 1, 2 },
         Submit(batch, "Streaming"), frame' = frame + 1,
         UNCHANGED << codecConfig, initialDiscontinuity, config, host >>,
         NEW v, Views(v),
         isConnected => /\ queue \o batch \in Seq(Packet)
                        /\ \E w : Extends(queue \o batch, v, w, frame + 1,
                                          nextSequence + Len(batch))
  PROVE  StreamInv'
<1>1. PICK status \in Sink!Status :
        /\ Sink!SubmitBatch(batch, status)
        /\ HandleEnqueueResult(status, "Streaming")
        /\ nextSequence' = nextSequence + Len(batch)
  BY DEF Submit
<1>2. /\ frame \in 0 .. MaxFrames /\ MaxFrames \in Nat /\ nextSequence \in Nat
      /\ nextSequence <= 2 * frame /\ worker = "idle" /\ state # "EndOfStream"
  BY VideoAssumption DEF StreamInv, ControllerTypes, SequenceIsBounded, Dequeue
<1>3. /\ frame' \in 0 .. MaxFrames /\ nextSequence' \in Nat /\ nextSequence' > nextSequence
      /\ nextSequence' <= 2 * frame'
  <2>1. nextSequence' \in { nextSequence + 1, nextSequence + 2 }
    BY <1>1
  <2> QED
    BY <1>2, <2>1
<1>4. /\ worker' \in { "idle", "discarding", "failed" } /\ state' \in States
      /\ state' # "EndOfStream"
      /\ worker' = "idle" => status = "Accepted" /\ state' = "Streaming"
      /\ status # "Accepted" => \/ worker' = "discarding" /\ state' = state
                                \/ worker' = "failed" /\ state' \in { "Disconnected", "Error" }
      /\ status = "Accepted" => worker' = "idle"
  BY <1>1, <1>2 DEF HandleEnqueueResult, States, StreamInv, ControllerTypes
<1>5. ControllerTypes'
  BY <1>3, <1>4 DEF StreamInv, ControllerTypes
<1>6. SequenceIsBounded' /\ StateIsLive'
  BY <1>3, <1>4 DEF SequenceIsBounded, StateIsLive
<1>7. CASE status # "Accepted"
  <2>1. UNCHANGED sinkVars
    BY <1>1, <1>7, SubmitBatchEffect DEF StreamInv
  <2>2. SinkTypes'
    BY <2>1 DEF sinkVars, StreamInv, SinkTypes
  <2>3. Views(v)'
    BY <1>3, <1>4, <1>7, <2>1, LostViews
  <2> QED
    BY <1>5, <1>6, <2>2, <2>3 DEF StreamInv
<1>8. CASE status = "Accepted"
  <2>1. /\ queue' = queue \o batch /\ UNCHANGED << inFlight, isConnected >> /\ isConnected
        /\ sender' = "sending" <=> inFlight' # None
    BY <1>1, <1>8, SubmitBatchEffect DEF StreamInv
  <2>2. PICK w : Extends(queue \o batch, v, w, frame + 1, nextSequence + Len(batch))
    BY <2>1
  <2>3. queue' \in Seq(Packet)
    BY <2>1
  <2>4. Extends(queue', v, w, frame', nextSequence')
    BY <1>1, <2>1, <2>2
  <2>5. Views(w)'
    BY <1>3, <1>4, <1>8, <2>1, <2>3, <2>4, AcceptedViews
  <2>6. SinkTypes'
    BY <2>1, <2>3 DEF StreamInv, SinkTypes
  <2> QED
    BY <1>5, <1>6, <2>5, <2>6 DEF StreamInv
<1> QED
  BY <1>7, <1>8

\* A key frame ends a recovery or goes on with the stream; if the queue is full, the
\* stream is lossy.
LEMMA ProcessKeyInv == ASSUME StreamInv, ProcessKey PROVE StreamInv'
<1>1. PICK v : Views(v)
  BY DEF StreamInv
<1>2. PICK valid \in BOOLEAN : Submit(AccessPoint(valid), "Streaming")
  BY DEF ProcessKey
<1>3. /\ Dequeue /\ frame < MaxFrames /\ frame' = frame + 1
      /\ UNCHANGED << codecConfig, initialDiscontinuity, config, host >>
  BY DEF ProcessKey
<1>4. isConnected =>
        /\ queue \o AccessPoint(valid) \in Seq(Packet)
        /\ \E w : Extends(queue \o AccessPoint(valid), v, w, frame + 1,
                          nextSequence + Len(AccessPoint(valid)))
  BY <1>1, <1>3, AccessPointExtends
<1>5. Len(AccessPoint(valid)) \in { 1, 2 }
  BY DEF AccessPoint
<1> QED
  BY <1>1, <1>2, <1>3, <1>4, <1>5, SubmitInv

\* A delta frame is dropped while there is nothing to depend on, and continues the
\* stream otherwise.
LEMMA ProcessDeltaInv == ASSUME StreamInv, ProcessDelta PROVE StreamInv'
<1>1. PICK v : Views(v)
  BY DEF StreamInv
<1>2. /\ Dequeue /\ frame < MaxFrames /\ frame' = frame + 1
      /\ UNCHANGED << codecConfig, initialDiscontinuity, config, host >>
  BY DEF ProcessDelta
<1>3. CASE NothingToDependOn
  <2>1. UNCHANGED << sinkVars, worker, state, nextSequence >>
    BY <1>3 DEF ProcessDelta
  <2>2. UNCHANGED << queue, inFlight, isConnected, sender >>
    BY <2>1 DEF sinkVars
  <2>3. frame' \in 0 .. MaxFrames /\ frame \in Nat /\ nextSequence \in Nat
    BY <1>2, VideoAssumption DEF StreamInv, ControllerTypes
  <2>4. SinkTypes' /\ ControllerTypes' /\ StateIsLive'
    BY <1>2, <2>1, <2>2, <2>3 DEF StreamInv, SinkTypes, ControllerTypes, StateIsLive
  <2>5. SequenceIsBounded'
    BY <1>2, <2>1, <2>3 DEF StreamInv, SequenceIsBounded
  <2>6. ASSUME NEW h \in HostView, Reachable(h) PROVE Reachable(h)'
    <3>1. h.frame \in Nat /\ SeqOf(h) \in Int
      BY SeqOfIsInt DEF HostView
    <3> QED
      BY <1>2, <2>1, <2>3, <2>6, <3>1 DEF Reachable, Behind, Lossy
  <2>7. ~Streams'
    BY <1>3, <2>1 DEF Streams, NothingToDependOn
  <2>8. Views(v)'
    BY <1>1, <1>2, <2>2, <2>6, <2>7, KeepViews DEF StreamInv, SinkTypes
  <2> QED
    BY <2>4, <2>5, <2>8 DEF StreamInv
<1>4. CASE ~NothingToDependOn
  <2>1. state = "Streaming"
    BY <1>2, <1>4 DEF NothingToDependOn, Dequeue, StreamInv, StateIsLive
  <2>2. PICK valid \in BOOLEAN :
          Submit(<< MakePacket("delta", frame + 1, 0, nextSequence, FALSE, valid) >>, state)
    BY <1>4 DEF ProcessDelta
  <2> DEFINE b == << MakePacket("delta", frame + 1, 0, nextSequence, FALSE, valid) >>
  <2>3. Len(b) = 1
    OBVIOUS
  <2>4. isConnected => /\ queue \o b \in Seq(Packet)
                       /\ \E w : Extends(queue \o b, v, w, frame + 1, nextSequence + 1)
    BY <1>1, <1>2, <2>1, DeltaExtends
  <2>5. Submit(b, "Streaming")
    BY <2>1, <2>2
  <2> HIDE DEF b
  <2>6. Len(b) \in { 1, 2 }
    BY <2>3
  <2>7. isConnected => /\ queue \o b \in Seq(Packet)
                       /\ \E w : Extends(queue \o b, v, w, frame + 1, nextSequence + Len(b))
    BY <2>3, <2>4
  <2> QED
    BY <1>1, <1>2, <2>5, <2>6, <2>7, SubmitInv
<1> QED
  BY <1>3, <1>4

\* The end of the stream is the last packet a host is handed.
LEMMA EndExtends ==
  ASSUME StreamInv, NEW v, Views(v), Dequeue, NEW valid \in BOOLEAN,
         queue' = queue \o << MakePacket("eos", 0, 0, nextSequence, FALSE, valid) >>,
         UNCHANGED << inFlight, host, frame >>, nextSequence' = nextSequence + 1,
         state' = "EndOfStream", worker' = "idle"
  PROVE  queue' \in Seq(Packet) /\ \E w : Views(w)'
<1> DEFINE h == v[Len(queue) + 1]
           p == MakePacket("eos", 0, 0, nextSequence, FALSE, valid)
<1>1. /\ Len(queue) \in Nat /\ h \in HostView /\ ~Ended(h)
      /\ SeqOf(h) \in Int /\ SeqOf(h) < nextSequence /\ h.frame \in Nat /\ h.frame <= frame
  BY LastView
<1>2. /\ frame \in 0 .. MaxFrames /\ nextSequence \in Nat /\ nextSequence <= 2 * frame
      /\ MaxFrames \in Nat /\ MaxConfigs \in Nat
      /\ queue \in Seq(Packet) /\ Links(queue, v)
  BY VideoAssumption
     DEF StreamInv, ControllerTypes, SequenceIsBounded, SinkTypes, Views, Dequeue
<1>3. /\ nextSequence \in 0 .. MaxSequence /\ 0 \in 0 .. MaxFrames
      /\ 0 \in 0 .. MaxConfigs /\ "eos" \in Kinds /\ FALSE \in BOOLEAN
  BY <1>2 DEF MaxSequence, Kinds
<1>4. p \in Packet /\ p.kind = "eos" /\ p.frame = 0 /\ p.seq = nextSequence
  BY <1>3 DEF MakePacket, Packet
<1>5. queue' = Append(queue, p)
  <2>1. queue' = queue \o << p >>
    OBVIOUS
  <2> HIDE DEF p
  <2>2. queue \o << p >> = Append(queue, p)
    BY <1>2, <1>4
  <2> QED
    BY <2>1, <2>2, Zenon
<1> HIDE DEF p
<1> DEFINE a == Append(queue, p)
<1>6. a \in Seq(Packet) /\ Len(a) = Len(queue) + 1 /\ queue' = a
  BY <1>2, <1>4, <1>5, AppendProperties
<1>7. Takes(h, p)
  BY <1>1, <1>4 DEF Takes, TakesFrameless
<1>8. PICK w : /\ Links(a, w)
               /\ \A i \in 1 .. Len(queue) + 1 : w[i] = v[i]
               /\ w[Len(queue) + 2] = Read(h, p)
  BY <1>2, <1>4, <1>7, AppendLinks
<1> HIDE DEF a
<1> HIDE DEF h
<1>9. Read(h, p).frame = h.frame /\ SeqOf(Read(h, p)) = nextSequence
  BY <1>1, <1>4, ReadIsAView
<1>10. ASSUME NEW i \in 1 .. Len(queue') + 1 PROVE Reachable(w[i])'
  <2>1. ~Lossy' /\ state' = "EndOfStream"
    BY DEF Lossy
  <2>2. w[i].frame <= frame' /\ SeqOf(w[i]) < nextSequence'
    <3>1. CASE i \in 1 .. Len(queue) + 1
      <4>1. w[i] = v[i] /\ v[i] \in HostView /\ Reachable(v[i])
        BY <1>2, <1>8, <3>1, LastIsAView DEF Views
      <4>2. v[i].frame \in Nat /\ SeqOf(v[i]) \in Int
        BY <4>1, SeqOfIsInt DEF HostView
      <4> QED
        BY <1>2, <4>1, <4>2 DEF Reachable
    <3>2. CASE i \notin 1 .. Len(queue) + 1
      <4>1. i = Len(queue) + 2
        BY <1>1, <1>6, <3>2
      <4> QED
        BY <1>1, <1>2, <1>8, <1>9, <4>1
    <3> QED
      BY <3>1, <3>2
  <2> QED
    BY <2>1, <2>2 DEF Reachable
<1>11. ~Streams'
  BY DEF Streams
<1>12. /\ inFlight' = None => w[1] = host'
       /\ inFlight' # None => Takes(host', inFlight') /\ w[1] = Read(host', inFlight')
  <2>1. w[1] = v[1]
    BY <1>1, <1>8
  <2> QED
    BY <2>1 DEF Views
<1>13. Views(w)'
  BY <1>6, <1>8, <1>10, <1>11, <1>12, Zenon DEF Views
<1> QED
  BY <1>6, <1>13

\* The end of the stream takes one sequence number, and none after it.
LEMMA ProcessEndOfStreamInv == ASSUME StreamInv, ProcessEndOfStream PROVE StreamInv'
<1>1. PICK v : Views(v)
  BY DEF StreamInv
<1>2. PICK status \in Sink!Status, valid \in BOOLEAN :
        /\ Sink!SubmitBatch(<< MakePacket("eos", 0, 0, nextSequence, FALSE, valid) >>, status)
        /\ \/ status = "Accepted" /\ state' = "EndOfStream" /\ worker' = "idle"
           \/ status = "QueueFull" /\ state' = state /\ worker' = "discardingEos"
           \/ /\ status \in { "Disconnected", "Stopped" }
              /\ state' = "Disconnected" /\ worker' = "failed"
           \/ status = "InvalidPacket" /\ state' = "Error" /\ worker' = "failed"
  BY DEF ProcessEndOfStream
<1>3. /\ Dequeue /\ nextSequence' = nextSequence + 1
      /\ UNCHANGED << codecConfig, initialDiscontinuity, frame, config, host >>
  BY DEF ProcessEndOfStream, encoderVars
<1>4. /\ frame \in Nat /\ nextSequence \in Nat /\ nextSequence <= 2 * frame
      /\ worker = "idle" /\ state # "EndOfStream"
  BY <1>3 DEF StreamInv, ControllerTypes, SequenceIsBounded, Dequeue
<1>5. /\ worker' \in { "idle", "discardingEos", "failed" } /\ state' \in States
      /\ worker' = "idle" => state' = "EndOfStream"
  BY <1>2 DEF States, StreamInv, ControllerTypes
<1>6. ControllerTypes' /\ SequenceIsBounded' /\ StateIsLive'
  BY <1>3, <1>4, <1>5 DEF StreamInv, ControllerTypes, SequenceIsBounded, StateIsLive
<1>7. CASE status = "Accepted"
  <2>1. /\ queue' = queue \o << MakePacket("eos", 0, 0, nextSequence, FALSE, valid) >>
        /\ UNCHANGED << inFlight, isConnected >>
        /\ sender' = "sending" <=> inFlight' # None
    BY <1>2, <1>7, SubmitBatchEffect DEF StreamInv
  <2>2. state' = "EndOfStream" /\ worker' = "idle"
    BY <1>2, <1>7
  <2>3. queue' \in Seq(Packet) /\ \E w : Views(w)'
    BY <1>1, <1>3, <2>1, <2>2, EndExtends
  <2>4. SinkTypes'
    BY <2>1, <2>3 DEF StreamInv, SinkTypes
  <2> QED
    BY <1>6, <2>3, <2>4 DEF StreamInv
<1>8. CASE status # "Accepted"
  <2>1. UNCHANGED sinkVars
    BY <1>2, <1>8, SubmitBatchEffect DEF StreamInv
  <2>2. UNCHANGED << queue, inFlight, isConnected, sender >>
    BY <2>1 DEF sinkVars
  <2>3. worker' \in { "discardingEos", "failed" }
        /\ (state' = state \/ state' \in { "Disconnected", "Error" })
    BY <1>2, <1>8
  <2>4. ASSUME NEW h \in HostView, Reachable(h) PROVE Reachable(h)'
    <3>1. h.frame \in Nat /\ SeqOf(h) \in Int
      BY SeqOfIsInt DEF HostView
    <3> QED
      BY <1>3, <1>4, <2>3, <2>4, <3>1 DEF Reachable, Lossy
  <2>5. ~Streams'
    BY <2>3 DEF Streams
  <2>6. Views(v)'
    BY <1>1, <1>3, <2>2, <2>4, <2>5, KeepViews DEF StreamInv, SinkTypes
  <2>7. SinkTypes'
    BY <2>2 DEF StreamInv, SinkTypes
  <2> QED
    BY <1>6, <2>6, <2>7 DEF StreamInv
<1> QED
  BY <1>7, <1>8

\* A failing encoder ends the worker, not what is queued.
LEMMA EncoderFailsInv == ASSUME StreamInv, EncoderFails PROVE StreamInv'
<1>1. PICK v : Views(v)
  BY DEF StreamInv
<1>2. /\ worker' = "failed" /\ state' = "Error" /\ Dequeue
      /\ UNCHANGED << sinkVars, nextSequence, codecConfig, initialDiscontinuity, encoderVars, host >>
  BY DEF EncoderFails
<1>3. UNCHANGED << queue, inFlight, isConnected, sender, frame, config >>
  BY <1>2 DEF sinkVars, encoderVars
<1>4. SinkTypes' /\ ControllerTypes' /\ SequenceIsBounded' /\ StateIsLive'
  BY <1>2, <1>3
     DEF StreamInv, SinkTypes, ControllerTypes, SequenceIsBounded, StateIsLive, States
<1>5. \A h \in HostView : Reachable(h) => Reachable(h)'
  BY <1>2, <1>3 DEF Reachable, Lossy, Dequeue
<1>6. ~Streams'
  BY <1>2 DEF Streams
<1>7. Views(v)'
  BY <1>1, <1>2, <1>3, <1>5, <1>6, KeepViews DEF StreamInv, SinkTypes
<1> QED
  BY <1>4, <1>7 DEF StreamInv

-----------------------------------------------------------------------------
(* Steps that drop what is queued, and the sender's *)

\* Without the queue, one view is left.
LEMMA CutViews ==
  ASSUME NEW h \in HostView, Reachable(h)', queue' = << >>, ~Streams',
         inFlight' = None => h = host',
         inFlight' # None => Takes(host', inFlight') /\ h = Read(host', inFlight')
  PROVE  \E v : Views(v)'
<1>1. PICK w : Links(<< >>, w) /\ w[1] = h
  BY EmptyLinks
<1>2. \A i \in 1 .. Len(<< >>) + 1 : i = 1
  OBVIOUS
<1>3. ASSUME NEW i \in 1 .. Len(queue') + 1 PROVE Reachable(w[i])'
  <2>1. w[i] = h
    BY <1>1, <1>2
  <2> QED
    BY <2>1
<1>4. Links(queue', w)
  BY <1>1
<1>5. Views(w)'
  BY <1>1, <1>3, <1>4, Zenon DEF Views
<1> QED
  BY <1>5

\* What the host has read is no further than the view of what is in flight.
LEMMA HostIsReachable ==
  ASSUME StreamInv, NEW v, Views(v)
  PROVE  /\ Reachable(host)
         /\ v[1] \in HostView /\ Reachable(v[1])
<1>1. 1 \in 1 .. Len(queue) + 1 /\ v[1] \in HostView
  BY LastIsAView DEF StreamInv, SinkTypes, Views
<1>2. Reachable(v[1])
  BY <1>1 DEF Views
<1>3. CASE inFlight = None
  BY <1>1, <1>2, <1>3 DEF Views
<1>4. CASE inFlight # None
  <2>1. /\ inFlight \in Packet /\ host \in HostView
        /\ Takes(host, inFlight) /\ v[1] = Read(host, inFlight)
        /\ frame \in Nat /\ nextSequence \in Nat
    BY <1>4 DEF Views, StreamInv, SinkTypes, ControllerTypes
  <2>2. /\ SeqOf(v[1]) = inFlight.seq /\ SeqOf(host) \in Int /\ inFlight.seq \in Nat
        /\ v[1].frame = IF inFlight.frame = 0 THEN host.frame ELSE inFlight.frame
        /\ host.frame \in Nat /\ inFlight.frame \in Nat
    BY <2>1, ReadIsAView, SeqOfIsInt DEF HostView, Packet
  <2>3. ~Ended(host) /\ SeqOf(host) < inFlight.seq
    BY <2>1, <2>2 DEF Takes
  <2>4. host.frame <= v[1].frame
    BY <2>1, <2>2 DEF Takes, TakesFrameless, TakesKey, TakesDelta
  <2>5. v[1].frame \in Nat
    BY <2>2
  <2> QED
    BY <1>1, <1>2, <2>1, <2>2, <2>3, <2>4, <2>5 DEF Reachable, Behind
<1> QED
  BY <1>1, <1>2, <1>3, <1>4

\* The discard keeps the packet in flight, and the view of it: recovery starts behind
\* what was emitted (DiscardPending, HandleEnqueueResult).
LEMMA DiscardInv ==
  ASSUME StreamInv, DiscardAndRecover \/ DiscardAndEnd
  PROVE  StreamInv'
<1>1. PICK v : Views(v)
  BY DEF StreamInv
<1>2. /\ queue' = << >> /\ UNCHANGED << inFlight, isConnected, sender >>
      /\ UNCHANGED << nextSequence, codecConfig, initialDiscontinuity, frame, config, host >>
  BY DEF DiscardAndRecover, DiscardAndEnd, Sink!DiscardPending, encoderVars
<1>3. \/ /\ worker = "discarding" /\ state' = "Recovering" /\ worker' \in { "idle", "failed" }
      \/ /\ worker = "discardingEos" /\ state' = "EndOfStream" /\ worker' = "idle"
  BY DEF DiscardAndRecover, DiscardAndEnd
<1>4. queue' \in Seq(Packet)
  BY <1>2, EmptySeq
<1>5. SinkTypes'
  BY <1>2, <1>4 DEF StreamInv, SinkTypes
<1>6. ControllerTypes' /\ SequenceIsBounded' /\ StateIsLive'
  BY <1>2, <1>3 DEF StreamInv, ControllerTypes, SequenceIsBounded, StateIsLive, States
<1>7. v[1] \in HostView /\ Reachable(v[1])
  BY <1>1, HostIsReachable
<1>8. Reachable(v[1])'
  BY <1>2, <1>3, <1>7 DEF Reachable, Behind, Lossy, StreamInv, StateIsLive
<1>9. ~Streams'
  BY <1>3 DEF Streams
<1>10. /\ inFlight' = None => v[1] = host'
       /\ inFlight' # None => Takes(host', inFlight') /\ v[1] = Read(host', inFlight')
  BY <1>1, <1>2 DEF Views
<1>11. \E w : Views(w)'
  BY <1>2, <1>7, <1>8, <1>9, <1>10, CutViews
<1> QED
  BY <1>5, <1>6, <1>11 DEF StreamInv

\* The sender's waits, wakeups and return touch no packet.
LEMMA SenderControlInv ==
  ASSUME StreamInv, UNCHANGED << controllerVars, encoderVars, host >>,
         \/ Sink!SenderWait \/ Sink!SpuriousWakeup \/ Sink!SenderExit
         \/ Sink!StopShutdown \/ Sink!StopJoin
  PROVE  StreamInv'
<1>1. PICK v : Views(v)
  BY DEF StreamInv
<1>2. UNCHANGED << worker, state, nextSequence, codecConfig, initialDiscontinuity, frame, config, host >>
  BY DEF controllerVars, encoderVars
<1>3. /\ UNCHANGED << queue, inFlight, isConnected >>
      /\ sender' = "sending" <=> sender = "sending"
  BY DEF Sink!SenderWait, Sink!SpuriousWakeup, Sink!SenderExit, Sink!StopShutdown,
         Sink!StopJoin, Sink!Notified
<1>4. SinkTypes' /\ ControllerTypes' /\ SequenceIsBounded' /\ StateIsLive'
  BY <1>2, <1>3 DEF StreamInv, SinkTypes, ControllerTypes, SequenceIsBounded, StateIsLive
<1>5. \A h \in HostView : Reachable(h) => Reachable(h)'
  BY <1>2 DEF Reachable, Behind, Lossy
<1>6. Streams' => \A h \in HostView : (Streams => Current(h)) => Current(h)'
  BY <1>2, <1>3 DEF Streams, Current
<1>7. Views(v)'
  BY <1>1, <1>2, <1>3, <1>5, <1>6, KeepViews DEF StreamInv, SinkTypes
<1> QED
  BY <1>4, <1>7 DEF StreamInv

\* Taking the head of the queue moves the boundary between host and queue, nothing else.
LEMMA SenderTakeInv ==
  ASSUME StreamInv, Sink!SenderTake, UNCHANGED << controllerVars, encoderVars, host >>
  PROVE  StreamInv'
<1>1. PICK v : Views(v)
  BY DEF StreamInv
<1>2. UNCHANGED << worker, state, nextSequence, codecConfig, initialDiscontinuity, frame, config, host >>
  BY DEF controllerVars, encoderVars
<1>3. /\ queue # << >> /\ inFlight' = Head(queue) /\ queue' = Tail(queue)
      /\ sender = "checking" /\ sender' = "sending" /\ UNCHANGED isConnected
  BY DEF Sink!SenderTake
<1>4. /\ queue \in Seq(Packet) /\ inFlight = None
  BY <1>3 DEF StreamInv, SinkTypes
<1>5. /\ Head(queue) \in Packet /\ Head(queue) = queue[1]
      /\ Tail(queue) \in Seq(Packet) /\ Len(Tail(queue)) = Len(queue) - 1
      /\ Len(queue) \in Nat \ {0}
  BY <1>3, <1>4, HeadTailProperties, LenProperties, EmptySeq
<1>6. PICK w : /\ Links(Tail(queue), w)
               /\ \A i \in 1 .. Len(queue) : w[i] = v[i + 1]
  BY <1>1, <1>3, <1>4, TailLinks DEF Views
<1>7. SinkTypes'
  BY <1>3, <1>5, NoneAssumption DEF StreamInv, SinkTypes
<1>8. ControllerTypes' /\ SequenceIsBounded' /\ StateIsLive'
  BY <1>2 DEF StreamInv, ControllerTypes, SequenceIsBounded, StateIsLive
<1>9. Takes(host', inFlight') /\ w[1] = Read(host', inFlight')
  <2>1. 1 \in 1 .. Len(queue) /\ v[1] = host
    BY <1>1, <1>4, <1>5 DEF Views
  <2>2. Takes(v[1], queue[1]) /\ v[1 + 1] = Read(v[1], queue[1]) /\ w[1] = v[1 + 1]
    BY <1>1, <1>6, <2>1 DEF Views, Links
  <2> QED
    BY <1>2, <1>3, <1>5, <2>1, <2>2
<1>10. ASSUME NEW i \in 1 .. Len(queue) PROVE Reachable(w[i])'
  <2>1. i + 1 \in 1 .. Len(queue) + 1 /\ w[i] = v[i + 1]
    BY <1>5, <1>6
  <2>2. Reachable(w[i])
    BY <1>1, <2>1 DEF Views
  <2> QED
    BY <1>2, <2>2 DEF Reachable, Behind, Lossy
<1>11. ASSUME NEW h, h = w[Len(queue)], Streams' PROVE Current(h)'
  <2>1. h = v[Len(queue) + 1]
    BY <1>5, <1>6, <1>11
  <2>2. Current(h)
    BY <1>1, <1>2, <1>3, <1>11, <2>1 DEF Views, Streams
  <2> QED
    BY <1>2, <2>2 DEF Current
<1>12. Len(queue') + 1 = Len(queue) /\ Links(queue', w)
  BY <1>3, <1>5, <1>6
<1>13. Views(w)'
  <2>1. inFlight' # None
    BY <1>3, <1>5, NoneAssumption
  <2>2. \A i \in 1 .. Len(queue') + 1 : Reachable(w[i])'
    BY <1>10, <1>12
  <2>3. ASSUME NEW h, h = w[Len(queue') + 1], Streams' PROVE Current(h)'
    BY <1>11, <1>12, <2>3
  <2> QED
    BY <1>9, <1>12, <2>1, <2>2, <2>3, Zenon DEF Views
<1> QED
  BY <1>7, <1>8, <1>13 DEF StreamInv

\* A failed send leaves the host where it is, and the stream off.
LEMMA SendFailsInv ==
  ASSUME StreamInv, Sink!SendFails, UNCHANGED << controllerVars, encoderVars, host >>
  PROVE  StreamInv'
<1>1. PICK v : Views(v)
  BY DEF StreamInv
<1>2. UNCHANGED << worker, state, nextSequence, codecConfig, initialDiscontinuity, frame, config, host >>
  BY DEF controllerVars, encoderVars
<1>3. queue' = << >> /\ inFlight' = None /\ isConnected' = FALSE /\ sender' = "exited"
  BY DEF Sink!SendFails
<1>4. queue' \in Seq(Packet)
  BY <1>3, EmptySeq
<1>5. SinkTypes' /\ ControllerTypes' /\ SequenceIsBounded' /\ StateIsLive'
  BY <1>2, <1>3, <1>4
     DEF StreamInv, SinkTypes, ControllerTypes, SequenceIsBounded, StateIsLive
<1>6. host \in HostView /\ Reachable(host)
  BY <1>1, HostIsReachable DEF StreamInv, ControllerTypes
<1>7. PICK h : h = host
  OBVIOUS
<1>8. h \in HostView /\ h = host' /\ Reachable(h)'
  BY <1>2, <1>6, <1>7 DEF Reachable, Behind, Lossy
<1>9. ~Streams'
  BY <1>3 DEF Streams
<1>10. \E w : Views(w)'
  BY <1>3, <1>8, <1>9, CutViews
<1> QED
  BY <1>5, <1>10 DEF StreamInv

\* The host reads what its next view is of.
LEMMA HostReadsInv == ASSUME StreamInv, HostReads PROVE StreamInv'
<1>1. PICK v : Views(v)
  BY DEF StreamInv
<1>2. UNCHANGED << worker, state, nextSequence, codecConfig, initialDiscontinuity, frame, config >>
  BY DEF HostReads, controllerVars, encoderVars
<1>3. /\ sender = "sending" /\ sender' = "checking" /\ inFlight' = None
      /\ UNCHANGED << queue, isConnected >>
  BY DEF HostReads, Sink!SendSucceeds
<1>4. inFlight # None /\ inFlight \in Packet /\ queue \in Seq(Packet)
  BY <1>3 DEF StreamInv, SinkTypes
<1>5. host' = Read(host, inFlight)
  BY DEF HostReads, Read, GapAt, SeqOf, SequenceRead
<1>6. v[1] = host'
  BY <1>1, <1>4, <1>5 DEF Views
<1>7. host' \in HostView
  BY <1>4, <1>5, ReadIsAView DEF StreamInv, ControllerTypes
<1>8. SinkTypes' /\ ControllerTypes' /\ SequenceIsBounded' /\ StateIsLive'
  BY <1>2, <1>3, <1>7
     DEF StreamInv, SinkTypes, ControllerTypes, SequenceIsBounded, StateIsLive
<1>9. \A i \in 1 .. Len(queue') + 1 : Reachable(v[i])'
  BY <1>1, <1>2, <1>3 DEF Views, Reachable, Behind, Lossy
<1>10. ASSUME NEW h, h = v[Len(queue') + 1], Streams' PROVE Current(h)'
  BY <1>1, <1>2, <1>3, <1>10 DEF Views, Streams, Current
<1>11. Links(queue', v)
  BY <1>1, <1>3 DEF Views
<1>12. Views(v)'
  BY <1>3, <1>6, <1>9, <1>10, <1>11, Zenon DEF Views
<1> QED
  BY <1>8, <1>12 DEF StreamInv

\* The destructor drops the queue; the packet in flight may still be read.
LEMMA DestroySessionInv == ASSUME StreamInv, DestroySession PROVE StreamInv'
<1>1. PICK v : Views(v)
  BY DEF StreamInv
<1>2. /\ worker' = "closed"
      /\ UNCHANGED << state, nextSequence, codecConfig, initialDiscontinuity, frame, config, host >>
  BY DEF DestroySession, encoderVars
<1>3. queue' = << >> /\ UNCHANGED << inFlight, isConnected, sender >>
  BY DEF DestroySession, Sink!StopMark
<1>4. queue' \in Seq(Packet)
  BY <1>3, EmptySeq
<1>5. SinkTypes' /\ ControllerTypes' /\ SequenceIsBounded' /\ StateIsLive'
  BY <1>2, <1>3, <1>4
     DEF StreamInv, SinkTypes, ControllerTypes, SequenceIsBounded, StateIsLive
<1>6. v[1] \in HostView /\ Reachable(v[1])
  BY <1>1, HostIsReachable
<1>7. Reachable(v[1])' /\ ~Streams'
  BY <1>2, <1>6 DEF Reachable, Lossy, Streams
<1>8. /\ inFlight' = None => v[1] = host'
      /\ inFlight' # None => Takes(host', inFlight') /\ v[1] = Read(host', inFlight')
  BY <1>1, <1>2, <1>3 DEF Views
<1>9. \E w : Views(w)'
  BY <1>3, <1>6, <1>7, <1>8, CutViews
<1> QED
  BY <1>5, <1>9 DEF StreamInv

\* A step that changes nothing keeps the invariant.
LEMMA StutterInv == ASSUME StreamInv, UNCHANGED vars PROVE StreamInv'
  BY DEF StreamInv, vars, sinkVars, controllerVars, encoderVars, SinkTypes, ControllerTypes,
         SequenceIsBounded, StateIsLive, Views, Reachable, Behind, Lossy, Streams, Current

\* A new stream has one view: the host knows nothing.
LEMMA StreamInit == Init => StreamInv
<1> SUFFICES ASSUME Init PROVE StreamInv
  OBVIOUS
<1>1. /\ queue = << >> /\ inFlight = None /\ isConnected = TRUE /\ sender = "checking"
      /\ worker = "idle" /\ state = "Starting" /\ nextSequence = 0 /\ codecConfig = 0
      /\ frame = 0 /\ config = 0 /\ initialDiscontinuity \in BOOLEAN
      /\ host = [ last |-> None, frame |-> 0, skipped |-> FALSE, config |-> 0 ]
  BY DEF Init, Sink!SinkInit
<1>2. queue \in Seq(Packet)
  BY <1>1, EmptySeq
<1>3. host \in HostView
  BY <1>1, VideoAssumption DEF HostView
<1>4. SinkTypes /\ ControllerTypes /\ SequenceIsBounded /\ StateIsLive
  BY <1>1, <1>2, <1>3, VideoAssumption
     DEF SinkTypes, ControllerTypes, SequenceIsBounded, StateIsLive, States
<1>5. Reachable(host) /\ ~Streams
  BY <1>1 DEF Reachable, SeqOf, Ended, Lossy, Streams
<1>6. PICK v : Links(<< >>, v) /\ v[1] = host
  BY <1>3, EmptyLinks
<1>7. \A i \in 1 .. Len(queue) + 1 : i = 1
  BY <1>1
<1>8. Views(v)
  BY <1>1, <1>5, <1>6, <1>7, Zenon DEF Views
<1> QED
  BY <1>4, <1>8 DEF StreamInv

-----------------------------------------------------------------------------
(* Theorems *)

\* What the worker, the sender, the encoder and the end of the session do, together.
LEMMA StreamStep == StreamInv /\ [Next]_vars => StreamInv'
<1> SUFFICES ASSUME StreamInv, [Next]_vars PROVE StreamInv'
  OBVIOUS
<1>1. CASE Worker
  BY <1>1, ProcessConfigInv, ProcessKeyInv, ProcessDeltaInv, ProcessEndOfStreamInv,
     EncoderFailsInv, DiscardInv DEF Worker
<1>2. CASE Sender
  BY <1>2, SenderControlInv, SenderTakeInv, SendFailsInv DEF Sender
<1>3. CASE FinishStop
  BY <1>3, SenderControlInv DEF FinishStop
<1> QED
  BY <1>1, <1>2, <1>3, HostReadsInv, DestroySessionInv, StutterInv DEF Next

\* Every packet in the queue is one the host can take once it has read what is before
\* it, at every moment of the sender and the worker (SubmitBatch, DiscardPending).
THEOREM StreamInvariant == Spec => []StreamInv
  BY StreamInit, StreamStep, PTL DEF Spec

\* Only a completed send is a step of the contract.
LEMMA StreamStepIsContract == StreamInv /\ [Next]_vars => [Contract!ContractNext]_(Contract!contractVars)
<1> SUFFICES ASSUME StreamInv, [Next]_vars
             PROVE  Contract!ContractNext \/ UNCHANGED Contract!contractVars
  OBVIOUS
<1>1. CASE HostReads
  BY <1>1, ReadIsHanded DEF StreamInv
<1>2. CASE UNCHANGED host
  BY <1>2 DEF Contract!contractVars
<1>3. HostReads \/ UNCHANGED host
  <2>1. CASE Worker
    BY <2>1 DEF Worker, ProcessConfig, ProcessKey, ProcessDelta, ProcessEndOfStream,
                EncoderFails, DiscardAndRecover, DiscardAndEnd
  <2> QED
    BY <2>1 DEF Next, Sender, DestroySession, FinishStop, vars
<1> QED
  BY <1>1, <1>2, <1>3

\* The controller over the real sink implements the stream contract: whatever the queue
\* drops, and whenever the sender runs, the host is only handed frames it can decode, and
\* every hole is flagged and numbered (Process, HandleEnqueueResult, SendLoop).
THEOREM HostStreamIsDecodable == Spec => HostGetsDecodableStream
<1>1. Init => Contract!ContractInit
  BY DEF Init, Contract!ContractInit
<1> QED
  BY <1>1, StreamInvariant, StreamStepIsContract, PTL
     DEF Spec, HostGetsDecodableStream, Contract!ContractSpec

-----------------------------------------------------------------------------
(* What RecoveryCompletes rests on besides fairness *)

\* A controller that recovers has asked for a key frame, also after the answer to an
\* earlier request was itself refused by a full queue, and has queued nothing since:
\* the key frame meets no more than the packet the sender has in its hand.
KeyFrameIsAskedFor == state = "Recovering" /\ worker = "idle" => keyRequested /\ queue = << >>

\* Only the controller fills the queue, and only a key frame uses up the request.
LEMMA RecoveryStep == ASSUME KeyFrameIsAskedFor, [Next]_vars PROVE KeyFrameIsAskedFor'
<1> USE DEF KeyFrameIsAskedFor
<1>1. CASE ProcessConfig
  BY <1>1 DEF ProcessConfig, sinkVars
<1>2. CASE ProcessKey
  <2>1. (state' = "Recovering" /\ worker' = "idle") => FALSE
    BY <1>2 DEF ProcessKey, Submit, HandleEnqueueResult
  <2> QED
    BY <2>1
<1>3. CASE ProcessDelta
  <2>1. CASE NothingToDependOn
    BY <1>3, <2>1 DEF ProcessDelta, Dequeue, sinkVars
  <2>2. CASE ~NothingToDependOn
    BY <1>3, <2>2 DEF ProcessDelta, NothingToDependOn, Submit, HandleEnqueueResult
  <2> QED
    BY <2>1, <2>2
<1>4. CASE ProcessEndOfStream \/ EncoderFails \/ DiscardAndEnd
  BY <1>4 DEF ProcessEndOfStream, EncoderFails, DiscardAndEnd
<1>5. CASE DiscardAndRecover
  BY <1>5 DEF DiscardAndRecover, Sink!DiscardPending
<1>6. CASE HostReads
  BY <1>6 DEF HostReads, Sink!SendSucceeds, controllerVars, encoderVars
<1>7. CASE Sender
  BY <1>7 DEF Sender, Sink!SenderWait, Sink!SpuriousWakeup, Sink!SenderExit, Sink!SenderTake,
              Sink!SendFails, controllerVars, encoderVars
<1>8. CASE DestroySession
  BY <1>8 DEF DestroySession
<1>9. CASE FinishStop
  BY <1>9 DEF FinishStop, Sink!StopShutdown, Sink!StopJoin, controllerVars, encoderVars
<1>10. CASE UNCHANGED vars
  BY <1>10 DEF vars, sinkVars, controllerVars, encoderVars
<1> QED
  BY <1>1, <1>2, <1>3, <1>4, <1>5, <1>6, <1>7, <1>8, <1>9, <1>10 DEF Next, Worker

\* A stream that lost packets has a request for a key frame outstanding whenever its
\* worker is between two packets (HandleEnqueueResult, DrainOutput).
THEOREM RecoveryAsksForKey == Spec => []KeyFrameIsAskedFor
<1>1. Init => KeyFrameIsAskedFor
  BY DEF Init, KeyFrameIsAskedFor
<1> QED
  BY <1>1, RecoveryStep, PTL DEF Spec

-----------------------------------------------------------------------------
(* The controller, its session and the host only do to the sink what       *)
(* HostVideoSink lets its clients, its sender and Stop() do: what is       *)
(* proved of the sink holds of the one under the controller.               *)

\* The batches of one packet and of two.
Submitted == { << p >> : p \in Packet } \cup { << p, q >> : p \in Packet, q \in Packet }

\* One packet that the sink is asked to take is a client's call.
LEMMA OnePacketIsAClient ==
  ASSUME NEW p \in Packet, NEW status \in Sink!Status, Sink!SubmitBatch(<< p >>, status)
  PROVE  Sink!Client
<1>1. << p >> \in Submitted
  BY DEF Submitted
<1>2. \E batch \in Submitted, s \in Sink!Status : Sink!SubmitBatch(batch, s)
  BY <1>1, Zenon
<1> QED
  BY <1>2 DEF Submitted, Sink!Client

\* A packet by itself, or a configuration with its key frame.
LEMMA AccessPointIsABatch ==
  ASSUME StreamInv, Dequeue, frame < MaxFrames, NEW valid \in BOOLEAN
  PROVE  AccessPoint(valid) \in Submitted
<1> DEFINE key(s) == MakePacket("key", frame + 1, config, s, AccessPointDiscontinuity, valid)
           configured == MakePacket("config", 0, codecConfig, nextSequence, FALSE, TRUE)
<1>1. /\ frame \in 0 .. MaxFrames /\ config \in 0 .. MaxConfigs /\ codecConfig \in 0 .. MaxConfigs
      /\ nextSequence \in Nat /\ nextSequence <= 2 * frame
      /\ MaxFrames \in Nat /\ MaxConfigs \in Nat
      /\ AccessPointDiscontinuity \in BOOLEAN
  BY VideoAssumption
     DEF StreamInv, ControllerTypes, SequenceIsBounded, Dequeue, AccessPointDiscontinuity
<1>2. /\ nextSequence \in 0 .. MaxSequence /\ nextSequence + 1 \in 0 .. MaxSequence
      /\ frame + 1 \in 0 .. MaxFrames /\ 0 \in 0 .. MaxFrames
      /\ "key" \in Kinds /\ "config" \in Kinds
  BY <1>1 DEF MaxSequence, Kinds
<1>3. key(nextSequence) \in Packet /\ key(nextSequence + 1) \in Packet
  BY <1>1, <1>2, MakePacketIsPacket
<1>4. configured \in Packet
  BY <1>1, <1>2, MakePacketIsPacket
<1>5. \/ AccessPoint(valid) = << key(nextSequence) >>
      \/ AccessPoint(valid) = << configured, key(nextSequence + 1) >>
  BY DEF AccessPoint
<1> HIDE DEF key, configured
<1> QED
  BY <1>3, <1>4, <1>5 DEF Submitted

\* What Process hands to SubmitBatch is a batch of packets.
LEMMA ProcessIsAClient ==
  ASSUME StreamInv, ProcessKey \/ ProcessDelta \/ ProcessEndOfStream
  PROVE  Sink!Client \/ UNCHANGED sinkVars
<1>1. CASE ProcessKey
  <2>1. PICK valid \in BOOLEAN, status \in Sink!Status : Sink!SubmitBatch(AccessPoint(valid), status)
    BY <1>1 DEF ProcessKey, Submit
  <2>2. AccessPoint(valid) \in Submitted
    BY <1>1, AccessPointIsABatch DEF ProcessKey
  <2> QED
    BY <2>1, <2>2 DEF Sink!Client, Submitted
<1>2. /\ nextSequence \in 0 .. MaxSequence /\ 0 \in 0 .. MaxFrames /\ 0 \in 0 .. MaxConfigs
      /\ (Dequeue /\ frame < MaxFrames) => frame + 1 \in 0 .. MaxFrames
      /\ "eos" \in Kinds /\ "delta" \in Kinds /\ FALSE \in BOOLEAN
  <2>1. /\ MaxFrames \in Nat /\ MaxConfigs \in Nat /\ frame \in 0 .. MaxFrames /\ nextSequence \in Nat
        /\ nextSequence <= 2 * frame + 1
    BY VideoAssumption DEF StreamInv, ControllerTypes, SequenceIsBounded
  <2> QED
    BY <2>1 DEF MaxSequence, Kinds
<1>3. CASE ProcessDelta
  <2>1. CASE NothingToDependOn
    BY <1>3, <2>1 DEF ProcessDelta
  <2>2. CASE ~NothingToDependOn
    <3>1. PICK valid \in BOOLEAN, status \in Sink!Status :
            Sink!SubmitBatch(<< MakePacket("delta", frame + 1, 0, nextSequence, FALSE, valid) >>, status)
      BY <1>3, <2>2 DEF ProcessDelta, Submit
    <3>2. MakePacket("delta", frame + 1, 0, nextSequence, FALSE, valid) \in Packet
      BY <1>2, <1>3, MakePacketIsPacket DEF ProcessDelta
    <3> QED
      BY <3>1, <3>2, OnePacketIsAClient
  <2> QED
    BY <2>1, <2>2
<1>4. CASE ProcessEndOfStream
  <2>1. PICK status \in Sink!Status, valid \in BOOLEAN :
          Sink!SubmitBatch(<< MakePacket("eos", 0, 0, nextSequence, FALSE, valid) >>, status)
    BY <1>4 DEF ProcessEndOfStream
  <2>2. MakePacket("eos", 0, 0, nextSequence, FALSE, valid) \in Packet
    BY <1>2, MakePacketIsPacket
  <2> QED
    BY <2>1, <2>2, OnePacketIsAClient
<1> QED
  BY <1>1, <1>3, <1>4

\* Every step of the stream is one of the sink's, or leaves it alone: no session uses
\* the sink in a way its own theorems do not cover (VideoStreamSession::DrainOutput,
\* the backend that destroys a session).
THEOREM OutputUsesTheSink == Spec => Sink!SinkInit /\ [][Sink!SinkNext]_(Sink!sinkVars)
<1>1. Init => Sink!SinkInit
  BY DEF Init
<1>2. StreamInv /\ [Next]_vars => [Sink!SinkNext]_(Sink!sinkVars)
  <2> SUFFICES ASSUME StreamInv, [Next]_vars
               PROVE  Sink!SinkNext \/ UNCHANGED Sink!sinkVars
    OBVIOUS
  <2>1. UNCHANGED sinkVars => UNCHANGED Sink!sinkVars
    BY DEF sinkVars, Sink!sinkVars
  <2>2. CASE ProcessKey \/ ProcessDelta \/ ProcessEndOfStream
    BY <2>1, <2>2, ProcessIsAClient DEF Sink!SinkNext
  <2>3. CASE ProcessConfig \/ EncoderFails \/ UNCHANGED vars
    BY <2>1, <2>3 DEF ProcessConfig, EncoderFails, vars
  <2>4. CASE DiscardAndRecover \/ DiscardAndEnd
    BY <2>4 DEF DiscardAndRecover, DiscardAndEnd, Sink!SinkNext
  <2>5. CASE HostReads \/ Sender
    BY <2>5 DEF HostReads, Sender, Sink!SenderStep, Sink!SinkNext
  <2>6. CASE DestroySession \/ FinishStop
    BY <2>6 DEF DestroySession, FinishStop, Sink!StopStep, Sink!SinkNext
  <2> QED
    BY <2>2, <2>3, <2>4, <2>5, <2>6 DEF Next, Worker
<1> QED
  BY <1>1, <1>2, StreamInvariant, PTL DEF Spec
=============================================================================
