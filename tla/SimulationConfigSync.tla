------------------------ MODULE SimulationConfigSync ------------------------
(***************************************************************************)
(* How the simulation configuration reaches the sensor and GNSS HALs:      *)
(* simulation/SimulationStateService.cpp, written by the control worker    *)
(* through SimulationController, and one SimulationStateClient per HAL.    *)
(*                                                                         *)
(* The service mutex makes each critical section one action; callbacks are *)
(* sent after it is released, by the control worker (NotifyListeners) and  *)
(* by the binder thread that serves registerListener.  A callback is a     *)
(* oneway binder call: calls to one client are delivered in the order they *)
(* were sent, some time later.  Processes may die and come back; a HAL     *)
(* that comes back has a new binder, a service that comes back starts from *)
(* its defaults.                                                           *)
(*                                                                         *)
(* A configuration is its generation and the set of sources that are       *)
(* external; the numeric targets only matter in that changing one is a     *)
(* change.  "epoch" counts the lives of the service: the code has no such  *)
(* number, the model needs it to tell one life's generation 1 from the     *)
(* next one's.  The 500 ms reconnect back-off is a delay like any other.   *)
(***************************************************************************)
EXTENDS Integers, Sequences

CONSTANTS
  Client,           \* the HAL processes
  MaxGeneration,    \* model bound: configuration changes in one service life
  MaxEpoch,         \* model bound: lives of the service
  MaxLives,         \* model bound: lives of one HAL process
  MaxCalls          \* model bound: undelivered calls to a client that reconnects

ASSUME SyncBounds == { MaxGeneration, MaxEpoch, MaxLives, MaxCalls } \subseteq Nat \ {0}

VARIABLES
  config,           \* SimulationStateService::config_
  epoch,            \* which life of the service this is
  listeners,        \* listeners_, as binders
  toNotify,         \* listeners the control worker still has to call
  life,             \* which life of each HAL process this is
  connection,       \* where each client is in RefreshConnection
  connectedTo,      \* the life of the service each client talks to
  fetched,          \* the configuration RefreshConnection or its
                    \* registerListener call has copied and not yet used
  clientConfig,     \* SharedConfig::config
  newest,           \* history: the newest configuration the client has held
  callbacks         \* oneway calls sent to each client and not yet delivered

serviceVars == << config, epoch, listeners, toNotify >>
clientVars == << life, connection, connectedTo, fetched, clientConfig, newest, callbacks >>
vars == << serviceVars, clientVars >>

Sources == { "motion", "gnss" }
Config == [ epoch : 0 .. MaxEpoch, generation : 1 .. MaxGeneration, external : SUBSET Sources ]

\* A client's own default before it has read any, and the service's.
DefaultConfig(e) == [ epoch |-> e, generation |-> 1, external |-> {} ]

Binder(c) == << c, life[c] >>

TypeOK ==
  /\ config \in Config
  /\ epoch \in 1 .. MaxEpoch /\ config.epoch = epoch
  /\ listeners \subseteq Client \X (1 .. MaxLives)
  /\ toNotify \subseteq Client \X (1 .. MaxLives)
  /\ life \in [ Client -> 1 .. MaxLives ]
  /\ connection \in [ Client -> { "down", "fetched", "installed", "registering", "up" } ]
  /\ connectedTo \in [ Client -> 0 .. MaxEpoch ]
  /\ fetched \in [ Client -> Config ]
  /\ clientConfig \in [ Client -> Config ] /\ newest \in [ Client -> Config ]
  /\ \A c \in Client : callbacks[c] \in Seq(Config)

Init ==
  /\ epoch = 1
  /\ config = DefaultConfig(1)
  /\ listeners = {}
  /\ toNotify = {}
  /\ life = [ c \in Client |-> 1 ]
  /\ connection = [ c \in Client |-> "down" ]
  /\ connectedTo = [ c \in Client |-> 0 ]
  /\ fetched = [ c \in Client |-> DefaultConfig(0) ]
  /\ clientConfig = [ c \in Client |-> DefaultConfig(0) ]
  /\ newest = clientConfig
  /\ callbacks = [ c \in Client |-> << >> ]

-----------------------------------------------------------------------------
(* The control worker *)

\* MutateConfig: one critical section, then NotifyListeners on the copied list.
\* The worker handles one request at a time.
MutateConfig(external) ==
  /\ toNotify = {}
  /\ config.generation < MaxGeneration
  /\ config' = [ config EXCEPT !.generation = @ + 1, !.external = external ]
  /\ toNotify' = listeners
  /\ UNCHANGED << epoch, listeners, clientVars >>

\* A request for the configuration already in force is "unchanged" and no step.
SetMotionConfig ==
  \/ MutateConfig(config.external \cup { "motion" })
  \/ MutateConfig(config.external \ { "motion" })

SetGnssConfig ==
  \/ MutateConfig(config.external \cup { "gnss" })
  \/ MutateConfig(config.external \ { "gnss" })

SetEnvironmentConfig == MutateConfig(config.external)

\* The resets mutate whether or not anything changes.
ResetSensors == MutateConfig(config.external \ { "motion" })
ResetGnss == MutateConfig(config.external \ { "gnss" })

\* What the expiry of the control lease does.
ClearExternalSources ==
  /\ config.external # {}
  /\ MutateConfig({})

\* Calling a dead binder fails, and the listener is removed.
NotifyListener_ByClient(b) ==
  /\ b \in toNotify
  /\ toNotify' = toNotify \ { b }
  /\ IF b = Binder(b[1])
     THEN /\ callbacks' = [ callbacks EXCEPT ![b[1]] = Append(@, config) ]
          /\ UNCHANGED listeners
     ELSE /\ listeners' = { l \in listeners : l[1] # b[1] }
          /\ UNCHANGED callbacks
  /\ UNCHANGED << config, epoch, life, connection, connectedTo, fetched, clientConfig, newest >>

NotifyListener(b) ==
  /\ b \in toNotify
  /\ toNotify' = toNotify \ { b }
  /\ IF b = Binder(b[1])
     THEN /\ callbacks' = [ callbacks EXCEPT ![b[1]] = Append(@, config) ]
          /\ UNCHANGED listeners
     ELSE /\ listeners' = listeners \ { b }
          /\ UNCHANGED callbacks
  /\ UNCHANGED << config, epoch, life, connection, connectedTo, fetched, clientConfig, newest >>

Worker ==
  \/ SetMotionConfig
  \/ SetGnssConfig
  \/ SetEnvironmentConfig
  \/ ResetSensors
  \/ ResetGnss
  \/ ClearExternalSources
  \/ \E b \in toNotify : NotifyListener(b)

-----------------------------------------------------------------------------
(* A client's RefreshConnection, under connection_mutex_ *)

Older(a, b) ==
  \/ a.epoch < b.epoch
  \/ a.epoch = b.epoch /\ a.generation < b.generation

\* Both writers of SharedConfig overwrite it whatever they bring.
Overwrite(c, new) ==
  /\ clientConfig' = [ clientConfig EXCEPT ![c] = new ]
  /\ newest' = [ newest EXCEPT ![c] = IF Older(@, new) THEN new ELSE @ ]

ServiceAlive(c) == connectedTo[c] = epoch

\* DisconnectLocked, then getConfig (openExternalStateStream: ExternalStateFanout).
FetchConfig(c) ==
  /\ connection[c] = "down" \/ (connection[c] = "up" /\ ~ServiceAlive(c))
  /\ connection' = [ connection EXCEPT ![c] = "fetched" ]
  /\ connectedTo' = [ connectedTo EXCEPT ![c] = epoch ]
  /\ fetched' = [ fetched EXCEPT ![c] = config ]
  /\ UNCHANGED << serviceVars, life, clientConfig, newest, callbacks >>

InstallConfig(c) ==
  /\ connection[c] = "fetched"
  /\ connection' = [ connection EXCEPT ![c] = "installed" ]
  /\ Overwrite(c, fetched[c])
  /\ UNCHANGED << serviceVars, life, connectedTo, fetched, callbacks >>

\* registerListener in the service: the critical section ...
AddListener_KeepsFetched(c) ==
  /\ connection[c] = "installed"
  /\ ServiceAlive(c)
  /\ connection' = [ connection EXCEPT ![c] = "registering" ]
  /\ listeners' = listeners \cup { Binder(c) }
  /\ UNCHANGED << config, epoch, toNotify, life, connectedTo, fetched, clientConfig, newest, callbacks >>

AddListener(c) ==
  /\ connection[c] = "installed"
  /\ ServiceAlive(c)
  /\ connection' = [ connection EXCEPT ![c] = "registering" ]
  /\ listeners' = listeners \cup { Binder(c) }
  /\ fetched' = [ fetched EXCEPT ![c] = config ]
  /\ UNCHANGED << config, epoch, toNotify, life, connectedTo, clientConfig, newest, callbacks >>

\* ... and, after it, the first callback; then the call returns to the client.
FirstCallback(c) ==
  /\ connection[c] = "registering"
  /\ ServiceAlive(c)
  /\ connection' = [ connection EXCEPT ![c] = "up" ]
  /\ callbacks' = [ callbacks EXCEPT ![c] = Append(@, fetched[c]) ]
  /\ UNCHANGED << serviceVars, life, connectedTo, fetched, clientConfig, newest >>

\* The service died under a call of RefreshConnection.
CallFails(c) ==
  /\ connection[c] \in { "installed", "registering" }
  /\ ~ServiceAlive(c)
  /\ connection' = [ connection EXCEPT ![c] = "down" ]
  /\ UNCHANGED << serviceVars, life, connectedTo, fetched, clientConfig, newest, callbacks >>

\* A Publish call that the service refuses disconnects the client, which stays
\* registered as a listener.
PublishRefused(c) ==
  /\ connection[c] = "up"
  /\ Len(callbacks[c]) < MaxCalls
  /\ connection' = [ connection EXCEPT ![c] = "down" ]
  /\ UNCHANGED << serviceVars, life, connectedTo, fetched, clientConfig, newest, callbacks >>

\* ConfigListener::onSimulationConfigChanged: the last delivered one wins.
DeliverCallback(c) ==
  /\ callbacks[c] # << >>
  /\ Overwrite(c, Head(callbacks[c]))
  /\ callbacks' = [ callbacks EXCEPT ![c] = Tail(@) ]
  /\ UNCHANGED << serviceVars, life, connection, connectedTo, fetched >>

Refresh(c) ==
  \/ FetchConfig(c)
  \/ InstallConfig(c)
  \/ AddListener(c)
  \/ FirstCallback(c)
  \/ CallFails(c)

-----------------------------------------------------------------------------
(* Processes die and come back *)

Reborn(c) ==
  /\ life[c] < MaxLives
  /\ life' = [ life EXCEPT ![c] = @ + 1 ]
  /\ connection' = [ connection EXCEPT ![c] = "down" ]
  /\ connectedTo' = [ connectedTo EXCEPT ![c] = 0 ]
  /\ fetched' = [ fetched EXCEPT ![c] = DefaultConfig(0) ]
  /\ clientConfig' = [ clientConfig EXCEPT ![c] = DefaultConfig(0) ]
  /\ newest' = [ newest EXCEPT ![c] = DefaultConfig(0) ]
  /\ callbacks' = [ callbacks EXCEPT ![c] = << >> ]

ClientDies(c) == Reborn(c) /\ UNCHANGED serviceVars

\* The client's destructor unregisters a connected client's listener.
ClientCloses(c) ==
  /\ connection[c] = "up" /\ ServiceAlive(c)
  /\ Reborn(c)
  /\ listeners' = listeners \ { Binder(c) }
  /\ UNCHANGED << config, epoch, toNotify >>

ServiceDies ==
  /\ epoch < MaxEpoch
  /\ epoch' = epoch + 1
  /\ config' = DefaultConfig(epoch + 1)
  /\ listeners' = {}
  /\ toNotify' = {}
  /\ UNCHANGED clientVars

-----------------------------------------------------------------------------

ClientStep(c) ==
  \/ Refresh(c)
  \/ DeliverCallback(c)
  \/ PublishRefused(c)
  \/ ClientDies(c)
  \/ ClientCloses(c)

Next ==
  \/ Worker
  \/ \E c \in Client : ClientStep(c)
  \/ ServiceDies

\* The HALs poll RefreshConnection, binder delivers, and the worker completes a
\* notification round it has begun.
Fairness ==
  /\ WF_vars(\E b \in toNotify : NotifyListener(b))
  /\ \A c \in Client : WF_vars(Refresh(c)) /\ WF_vars(DeliverCallback(c))

Spec == Init /\ [][Next]_vars /\ Fairness

-----------------------------------------------------------------------------
(* Properties *)

Connected(c) == connection[c] = "up" /\ ServiceAlive(c)

\* A client that believes itself connected is told of changes: no callback that
\* failed on a dead binder, no reconnection and no service restart leaves it
\* connected but unregistered.
ConnectedIsRegistered == \A c \in Client : Connected(c) => Binder(c) \in listeners

\* A change made while a client was connecting or connected reaches it, because
\* the registration snapshot is taken in the critical section that adds the
\* listener.
EveryChangeIsSeen ==
  \A c \in Client, e \in 1 .. MaxEpoch, g \in 1 .. MaxGeneration :
    (Connected(c) /\ config.epoch = e /\ config.generation = g)
      ~> (~Connected(c) \/ ~Older(newest[c], [ epoch |-> e, generation |-> g ]))

\* Nothing is on its way to c any more.
Settled(c) == Connected(c) /\ toNotify = {} /\ callbacks[c] = << >>

\* Once the lease expiry's change has gone round, no HAL reads an external source.
\* The registration callback is sent outside the lock and carries no order, so it
\* may overtake the change it precedes.
ExternalSourcesReturn ==
  \A c \in Client : Settled(c) /\ config.external = {} => clientConfig[c].external = {}
=============================================================================
