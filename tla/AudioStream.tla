---------------------------- MODULE AudioStream ----------------------------
(***************************************************************************)
(* The audio path: audio/AudioStreamSession.cpp (its worker, and           *)
(* SetInputQueue called on a binder thread by AudioPcmSinkService) feeding *)
(* transport/HostAudioSink.cpp (its queue and its sender thread).          *)
(*                                                                         *)
(* A PCM record is named by the HAL output it belongs to (counted from 1)  *)
(* and its position there; it carries the HAL's own stream generation,     *)
(* which a restarted HAL may repeat, and the HAL's discontinuity flag.     *)
(* Stamped, it also says which output the generation in force was of: a    *)
(* history, which no action reads, and its own output unless SetInputQueue *)
(* overtook it.                                                            *)
(* The worker reads one record at a time; each mutex makes a critical      *)
(* section one action, and the threads interleave between them.  What is   *)
(* encoded, the bitrate and the statistics play no part.  The session's    *)
(* destructor joins the worker, then the sink's joins the sender.          *)
(***************************************************************************)
EXTENDS Integers, Sequences

CONSTANTS
  MaxBuffered,      \* HostAudioSinkConfig::max_buffered_packets
  MaxStreams,       \* model bound: outputs the HAL opens
  MaxRecords,       \* model bound: records in one output
  HalGenerations    \* the stream generations a HAL may give an output

ASSUME AudioAssumption ==
  /\ { MaxBuffered, MaxStreams, MaxRecords } \subseteq Nat \ {0}
  /\ HalGenerations \subseteq Nat \ {0}

VARIABLES
  life,             \* how far the destructors are
  input,            \* AudioStreamSession::input_queue_: the output it carries, 0 for none
  halGeneration,    \* the stream generation of that output's records
  opener,           \* progress of SetInputQueue
  inputGeneration,  \* input_stream_generation_
  outputGeneration, \* output_generation_
  worker,           \* where the session's worker is
  reading,          \* the queue the worker has copied
  record,           \* the record it holds
  read,             \* records read so far from each output
  queue,            \* HostAudioSink's queue
  force,            \* force_discontinuity
  activeGeneration, \* active_generation
  sender,           \* where the sender thread is
  connected,        \* its socketFd is open
  sending,          \* the packet it holds, with the discontinuity it took for it
  delivered,        \* the last packet the host got
  enqueued          \* history: packets enqueued so far

sessionVars == << life, input, halGeneration, opener, inputGeneration, outputGeneration,
                  worker, reading, record, read >>
sinkVars == << queue, force, activeGeneration, sender, connected, sending, delivered, enqueued >>
vars == << sessionVars, sinkVars >>

Total == MaxStreams * MaxRecords
Generation == 0 .. Total

Record == [ stream : 1 .. MaxStreams, n : 1 .. MaxRecords, hal : HalGenerations,
            disc : BOOLEAN, owner : 0 .. MaxStreams ]
Packet == [ stream : 0 .. MaxStreams, n : 0 .. MaxRecords, hal : HalGenerations \cup {0},
            generation : Generation, disc : BOOLEAN, owner : 0 .. MaxStreams, index : 0 .. Total ]

\* What has reached the host: the packet as it was sent.
Nothing == [ stream |-> 0, n |-> 0, hal |-> 0, generation |-> 0, disc |-> FALSE, owner |-> 0,
             index |-> 0, sequence |-> 0, start |-> FALSE ]

NoRecord == [ stream |-> 1, n |-> 1, hal |-> CHOOSE g \in HalGenerations : TRUE,
              disc |-> FALSE, owner |-> 0 ]
NoPacket == [ stream |-> 0, n |-> 0, hal |-> 0, generation |-> 0, disc |-> FALSE, owner |-> 0,
              index |-> 0 ]

TypeOK ==
  /\ life \in { "running", "stopping", "joining", "stopped", "gone" }
  /\ input \in 0 .. MaxStreams /\ reading \in 0 .. MaxStreams
  /\ halGeneration \in HalGenerations \cup {0}
  /\ opener \in { "idle", "queued", "reset" }
  /\ inputGeneration \in HalGenerations \cup {0}
  /\ outputGeneration \in Generation /\ activeGeneration \in Generation
  /\ worker \in { "idle", "blocking", "waiting", "reading", "holding", "stamped", "done" }
  /\ record \in Record
  /\ read \in [ 1 .. MaxStreams -> 0 .. MaxRecords ]
  /\ queue \in Seq(Packet) /\ Len(queue) <= MaxBuffered
  /\ force \in BOOLEAN /\ connected \in BOOLEAN
  /\ sender \in { "idle", "holding", "done" }
  /\ sending \in Packet
  /\ enqueued \in 0 .. Total

Init ==
  /\ life = "running"
  /\ input = 0 /\ halGeneration = 0 /\ opener = "idle"
  /\ inputGeneration = 0 /\ outputGeneration = 0
  /\ worker = "idle" /\ reading = 0 /\ record = NoRecord
  /\ read = [ s \in 1 .. MaxStreams |-> 0 ]
  /\ queue = << >> /\ force = TRUE /\ activeGeneration = 0
  /\ sender = "idle" /\ connected = FALSE /\ sending = NoPacket
  /\ delivered = Nothing /\ enqueued = 0

-----------------------------------------------------------------------------
(* SetInputQueue: three critical sections, then input_condition_.notify_all() *)

Notified_Nobody == worker

\* A worker that waits goes back to its predicate; one about to wait has not heard.
Notified == IF worker = "waiting" THEN "idle" ELSE worker

OpenOutput ==
  /\ life = "running" /\ opener = "idle"
  /\ worker # "blocking"
  /\ input < MaxStreams
  /\ input' = input + 1
  /\ halGeneration' \in HalGenerations
  /\ opener' = "queued"
  /\ UNCHANGED << life, inputGeneration, outputGeneration, worker, reading, record, read, sinkVars >>

ForgetGeneration_Skipped ==
  /\ opener = "queued"
  /\ opener' = "reset"
  /\ UNCHANGED << life, input, halGeneration, inputGeneration, outputGeneration, worker, reading,
                  record, read, sinkVars >>

ForgetGeneration ==
  /\ opener = "queued"
  /\ inputGeneration' = 0
  /\ opener' = "reset"
  /\ UNCHANGED << life, input, halGeneration, outputGeneration, worker, reading, record, read, sinkVars >>

DiscardPending ==
  /\ opener = "reset"
  /\ queue' = << >>
  /\ force' = TRUE
  /\ opener' = "idle"
  /\ worker' = Notified
  /\ UNCHANGED << life, input, halGeneration, inputGeneration, outputGeneration, reading, record,
                  read, activeGeneration, sender, connected, sending, delivered, enqueued >>

-----------------------------------------------------------------------------
(* WorkerLoop *)

\* The predicate of the wait is evaluated, and the wait begun, under input_mutex_,
\* which the destructor does not take.
FindNoInput ==
  /\ worker = "idle" /\ life = "running"
  /\ input = 0
  /\ worker' = "blocking"
  /\ UNCHANGED << life, input, halGeneration, opener, inputGeneration, outputGeneration, reading, record,
                  read, sinkVars >>

WaitForInput ==
  /\ worker = "blocking"
  /\ worker' = "waiting"
  /\ UNCHANGED << life, input, halGeneration, opener, inputGeneration, outputGeneration, reading, record,
                  read, sinkVars >>

WorkerExits ==
  /\ worker = "idle" /\ life # "running"
  /\ worker' = "done"
  /\ UNCHANGED << life, input, halGeneration, opener, inputGeneration, outputGeneration, reading, record,
                  read, sinkVars >>

TakeQueue ==
  /\ worker = "idle" /\ life = "running"
  /\ input # 0
  /\ reading' = input
  /\ worker' = "reading"
  /\ UNCHANGED << life, input, halGeneration, opener, inputGeneration, outputGeneration, record, read,
                  sinkVars >>

\* A read that times out, or a queue replaced meanwhile (the revision check).
ReadNothing ==
  /\ worker = "reading"
  /\ worker' = "idle"
  /\ UNCHANGED << life, input, halGeneration, opener, inputGeneration, outputGeneration, reading, record,
                  read, sinkVars >>

ReadRecord ==
  /\ worker = "reading"
  /\ reading = input
  /\ read[input] < MaxRecords
  /\ read' = [ read EXCEPT ![input] = @ + 1 ]
  /\ \E disc \in BOOLEAN :
       record' = [ stream |-> input, n |-> read'[input], hal |-> halGeneration, disc |-> disc,
                   owner |-> 0 ]
  /\ worker' = "holding"
  /\ UNCHANGED << life, input, halGeneration, opener, inputGeneration, outputGeneration, reading, sinkVars >>

\* A malformed record, or a failed encoder reset or encode, loses the record.
LoseRecord ==
  /\ worker \in { "holding", "stamped" }
  /\ worker' = "idle"
  /\ force' = TRUE
  /\ UNCHANGED << life, input, halGeneration, opener, inputGeneration, outputGeneration, reading, record,
                  read, queue, activeGeneration, sender, connected, sending, delivered, enqueued >>

\* The output that input_stream_generation_ is about: the one before, until SetInputQueue
\* has come to its second critical section.
Owner == IF opener = "queued" THEN input - 1 ELSE input

\* A new HAL generation begins a new output generation, with a discontinuity.
StampGeneration ==
  /\ worker = "holding"
  /\ worker' = "stamped"
  /\ inputGeneration' = record.hal
  /\ outputGeneration' = outputGeneration + IF inputGeneration # record.hal THEN 1 ELSE 0
  /\ record' = [ record EXCEPT !.disc = @ \/ inputGeneration # record.hal,
                               !.owner = Owner ]
  /\ UNCHANGED << life, input, halGeneration, opener, reading, read, sinkVars >>

\* HostAudioSink::Enqueue.  A new generation drops the old one's packets; a full
\* queue drops its oldest packet; either way the next packet out is marked.
EncodedPacket ==
  [ stream |-> record.stream, n |-> record.n, hal |-> record.hal,
    generation |-> outputGeneration, disc |-> record.disc, owner |-> record.owner,
    index |-> enqueued + 1 ]

Remaining ==
  IF activeGeneration # outputGeneration THEN << >>
  ELSE IF Len(queue) = MaxBuffered THEN Tail(queue)
  ELSE queue

Drops_GenerationOnly == activeGeneration # outputGeneration
Drops == activeGeneration # outputGeneration \/ Len(queue) = MaxBuffered

Enqueue ==
  /\ worker = "stamped"
  /\ worker' = "idle"
  /\ queue' = Append(Remaining, EncodedPacket)
  /\ activeGeneration' = outputGeneration
  /\ force' = (force \/ Drops)
  /\ enqueued' = enqueued + 1
  /\ UNCHANGED << life, input, halGeneration, opener, inputGeneration, outputGeneration, reading, record,
                  read, sender, connected, sending, delivered >>

-----------------------------------------------------------------------------
(* SenderLoop *)

PopPacket ==
  /\ sender = "idle" /\ life # "stopped"
  /\ queue # << >>
  /\ sender' = "holding"
  /\ sending' = [ Head(queue) EXCEPT !.disc = @ \/ force ]
  /\ queue' = Tail(queue)
  /\ force' = FALSE
  /\ UNCHANGED << sessionVars, activeGeneration, connected, delivered, enqueued >>

\* Within the reconnect delay, or with no host waiting, the packet is dropped.
NotConnected ==
  /\ sender = "holding"
  /\ ~connected
  /\ sender' = "idle"
  /\ force' = TRUE
  /\ UNCHANGED << sessionVars, queue, activeGeneration, connected, sending, delivered, enqueued >>

AcceptHost ==
  /\ sender = "holding"
  /\ ~connected
  /\ connected' = TRUE
  /\ sending' = [ sending EXCEPT !.disc = TRUE ]
  /\ UNCHANGED << sessionVars, queue, force, activeGeneration, sender, delivered, enqueued >>

\* The sequence is given out on delivery, the first of a generation starting at 1.
SendPacket ==
  /\ sender = "holding"
  /\ connected
  /\ LET start == sending.generation # delivered.generation
     IN  delivered' = [ stream |-> sending.stream, n |-> sending.n, hal |-> sending.hal,
                        generation |-> sending.generation,
                        disc |-> sending.disc \/ start, owner |-> sending.owner,
                        index |-> sending.index,
                        sequence |-> IF start THEN 1 ELSE delivered.sequence + 1,
                        start |-> start ]
  /\ sender' = "idle"
  /\ UNCHANGED << sessionVars, queue, force, activeGeneration, connected, sending, enqueued >>

SendFails ==
  /\ sender = "holding"
  /\ connected
  /\ connected' = FALSE
  /\ sender' = "idle"
  /\ force' = TRUE
  /\ UNCHANGED << sessionVars, queue, activeGeneration, sending, delivered, enqueued >>

\* stopped is set under the sink's mutex: a sender that waits hears of it.
SenderExits ==
  /\ sender = "idle" /\ life = "stopped"
  /\ sender' = "done"
  /\ connected' = FALSE
  /\ UNCHANGED << sessionVars, queue, force, activeGeneration, sending, delivered, enqueued >>

-----------------------------------------------------------------------------
(* ~AudioStreamSession, then ~Impl of its sink.  The last reference is gone: *)
(* no call of SetInputQueue is under way.                                    *)

StopRunning ==
  /\ life = "running" /\ opener = "idle"
  /\ life' = "stopping"
  /\ UNCHANGED << input, halGeneration, opener, inputGeneration, outputGeneration, worker, reading,
                  record, read, sinkVars >>

NotifyWorker ==
  /\ life = "stopping"
  /\ life' = "joining"
  /\ worker' = Notified
  /\ UNCHANGED << input, halGeneration, opener, inputGeneration, outputGeneration, reading, record,
                  read, sinkVars >>

JoinWorker ==
  /\ life = "joining" /\ worker = "done"
  /\ life' = "stopped"
  /\ queue' = << >>
  /\ UNCHANGED << input, halGeneration, opener, inputGeneration, outputGeneration, worker, reading,
                  record, read, force, activeGeneration, sender, connected, sending, delivered,
                  enqueued >>

JoinSender ==
  /\ life = "stopped" /\ sender = "done"
  /\ life' = "gone"
  /\ UNCHANGED << input, halGeneration, opener, inputGeneration, outputGeneration, worker, reading,
                  record, read, sinkVars >>

-----------------------------------------------------------------------------

SetInputQueue == OpenOutput \/ ForgetGeneration \/ DiscardPending
WorkerLoop ==
  \/ FindNoInput \/ WaitForInput \/ WorkerExits
  \/ TakeQueue \/ ReadNothing \/ ReadRecord \/ LoseRecord \/ StampGeneration \/ Enqueue
SenderLoop == PopPacket \/ NotConnected \/ AcceptHost \/ SendPacket \/ SendFails \/ SenderExits
Destructor == NotifyWorker \/ JoinWorker \/ JoinSender

Next == SetInputQueue \/ WorkerLoop \/ SenderLoop \/ StopRunning \/ Destructor

\* The threads run, a read of the queue times out, and a host that is connected
\* reads or hangs up: a send to one that does neither would not return.
Fairness == WF_vars(WorkerLoop) /\ WF_vars(SenderLoop) /\ WF_vars(Destructor)

Spec == Init /\ [][Next]_vars /\ Fairness

-----------------------------------------------------------------------------
(* Properties.  delivered changes with every packet the host gets. *)

\* Whatever the sink drops - on overflow, on a new generation, while no host is
\* connected, on a failed send - the next packet out says so, and packets never
\* leave out of order (HostAudioSink).
SinkLossIsFlagged ==
  [][ delivered' # delivered =>
        /\ delivered'.index > delivered.index
        /\ delivered'.index # delivered.index + 1 => delivered'.disc ]_vars

\* Generations never go back, and a generation of the wire protocol, with its one decoder
\* state at the host, is of one output, also when the next one repeats its number.  So are
\* its records, but for those that are stamped while the generation in force is another
\* output's (stream # owner): one SetInputQueue overtook on its way to the stamp, or one of
\* the new output before the second of its critical sections.  They share the generation
\* of the other output only if the HAL gave both its number (WorkerLoop, SetInputQueue).
GenerationIsOneOutput ==
  [][ delivered' # delivered =>
        /\ delivered'.generation >= delivered.generation
        /\ delivered'.generation = delivered.generation =>
             delivered'.hal = delivered.hal /\ delivered'.owner = delivered.owner ]_vars

\* The destructors return, wherever the worker and the sender are when they begin,
\* but for one place: a worker that has found no input and has not begun to wait
\* misses the notification, since running_ is cleared without input_mutex_, and is
\* never joined (~AudioStreamSession).  A session that was given an input is never there.
DestructorReturns == (life = "stopping" /\ worker # "blocking") ~> (life = "gone")

=============================================================================
