-------------------------- MODULE SimulationProofs --------------------------
(***************************************************************************)
(* Proofs about SimulationConfigSync and ExternalStateFanout, for any set  *)
(* of HAL processes and any number of changes, lives and calls, records,   *)
(* readers and openings of streams.                                        *)
(***************************************************************************)
EXTENDS SimulationConfigSync, ExternalStateFanout, FiniteSetTheorems, SequenceTheorems, TLAPS

-----------------------------------------------------------------------------
(* The configuration *)

(* TypeOK, and a client only ever talks to a life the service has had.     *)
Types ==
  /\ TypeOK
  /\ callbacks = [ c \in Client |-> callbacks[c] ]
  /\ \A c \in Client : connectedTo[c] <= epoch

(* The defaults are configurations.                                        *)
LEMMA DefaultsAreConfigs ==
  ASSUME NEW e \in 0 .. MaxEpoch
  PROVE  DefaultConfig(e) \in Config /\ DefaultConfig(e).epoch = e
<1>1. MaxGeneration \in Nat \ {0} /\ MaxEpoch \in Nat \ {0}
  BY SyncBounds DEF SyncBounds
<1>2. 1 \in 1 .. MaxGeneration /\ {} \in SUBSET Sources
  BY <1>1
<1> QED
  BY <1>2 DEF DefaultConfig, Config

(* The control worker keeps the types (MutateConfig, NotifyListeners).     *)
LEMMA WorkerTypes ==
  ASSUME Types, Worker
  PROVE  Types'
<1> USE DEF clientVars
<1>1. ASSUME NEW external, external \in SUBSET Sources, MutateConfig(external)
      PROVE  Types'
  <2>1. config.generation \in 1 .. MaxGeneration /\ MaxGeneration \in Nat
    BY SyncBounds DEF SyncBounds, Types, TypeOK, Config
  <2>2. config.generation + 1 \in 1 .. MaxGeneration
    BY <1>1, <2>1 DEF MutateConfig
  <2>3. config' \in Config /\ config'.epoch = config.epoch
    BY <1>1, <2>2 DEF MutateConfig, Types, TypeOK, Config
  <2> QED
    BY <1>1, <2>3 DEF MutateConfig, Types, TypeOK
<1>2. ASSUME NEW b \in toNotify, NotifyListener(b)
      PROVE  Types'
  <2>1. b[1] \in Client /\ config \in Config
    BY DEF Types, TypeOK
  <2>2. CASE b = Binder(b[1])
    <3>1. callbacks' = [ callbacks EXCEPT ![b[1]] = Append(callbacks[b[1]], config) ]
          /\ UNCHANGED listeners
      BY <1>2, <2>2 DEF NotifyListener
    <3>2. Append(callbacks[b[1]], config) \in Seq(Config)
      BY <2>1, AppendProperties DEF Types, TypeOK
    <3>3. \A c \in Client : callbacks'[c] \in Seq(Config)
      BY <2>1, <3>1, <3>2 DEF Types, TypeOK
    <3> QED
      BY <1>2, <3>1, <3>3 DEF NotifyListener, Types, TypeOK
  <2>3. CASE b # Binder(b[1])
    BY <1>2, <2>3 DEF NotifyListener, Types, TypeOK
  <2> QED
    BY <2>2, <2>3
<1>3. config.external \in SUBSET Sources /\ { "motion", "gnss" } = Sources
  BY DEF Types, TypeOK, Config, Sources
<1> QED
  BY <1>1, <1>2, <1>3
     DEF Worker, SetMotionConfig, SetGnssConfig, SetEnvironmentConfig, ResetSensors, ResetGnss,
         ClearExternalSources

(* What a client is told, it holds (SharedConfig).                         *)
LEMMA OverwriteTypes ==
  ASSUME Types, NEW c \in Client, NEW new \in Config, Overwrite(c, new)
  PROVE  /\ clientConfig' \in [ Client -> Config ] /\ newest' \in [ Client -> Config ]
         /\ newest'[c] = IF Older(newest[c], new) THEN new ELSE newest[c]
         /\ \A d \in Client \ {c} : newest'[d] = newest[d]
BY DEF Overwrite, Types, TypeOK

(* So does each step of a client.                                          *)
LEMMA ClientTypes ==
  ASSUME Types, NEW c \in Client, ClientStep(c)
  PROVE  Types'
<1> USE DEF serviceVars
<1>0. /\ MaxGeneration \in Nat \ {0} /\ MaxEpoch \in Nat \ {0} /\ MaxLives \in Nat \ {0}
      /\ epoch \in 0 .. MaxEpoch /\ 0 \in 0 .. MaxEpoch
  BY SyncBounds DEF SyncBounds, Types, TypeOK
<1>1. CASE FetchConfig(c)
  BY <1>0, <1>1 DEF FetchConfig, Types, TypeOK
<1>2. CASE InstallConfig(c)
  <2>1. fetched[c] \in Config
    BY DEF Types, TypeOK
  <2> QED
    BY <1>2, <2>1, OverwriteTypes DEF InstallConfig, Types, TypeOK
<1>3. CASE AddListener(c)
  BY <1>3 DEF AddListener, Types, TypeOK, Binder
<1>4. CASE FirstCallback(c)
  <2>1. callbacks' = [ callbacks EXCEPT ![c] = Append(callbacks[c], fetched[c]) ]
    BY <1>4 DEF FirstCallback
  <2>2. Append(callbacks[c], fetched[c]) \in Seq(Config)
    BY AppendProperties DEF Types, TypeOK
  <2>3. \A d \in Client : callbacks'[d] \in Seq(Config)
    BY <2>1, <2>2 DEF Types, TypeOK
  <2> QED
    BY <1>4, <2>1, <2>3 DEF FirstCallback, Types, TypeOK
<1>5. CASE CallFails(c) \/ PublishRefused(c)
  BY <1>5 DEF CallFails, PublishRefused, Types, TypeOK
<1>6. CASE DeliverCallback(c)
  <2>1. Head(callbacks[c]) \in Config /\ Tail(callbacks[c]) \in Seq(Config)
    BY <1>6, HeadTailProperties DEF DeliverCallback, Types, TypeOK
  <2>2. callbacks' = [ callbacks EXCEPT ![c] = Tail(callbacks[c]) ]
    BY <1>6 DEF DeliverCallback
  <2>3. \A d \in Client : callbacks'[d] \in Seq(Config)
    BY <2>1, <2>2 DEF Types, TypeOK
  <2>4. clientConfig' \in [ Client -> Config ] /\ newest' \in [ Client -> Config ]
    BY <1>6, <2>1, OverwriteTypes DEF DeliverCallback
  <2> QED
    BY <1>6, <2>2, <2>3, <2>4 DEF DeliverCallback, Types, TypeOK
<1>7. CASE ClientDies(c) \/ ClientCloses(c)
  <2>1. Reborn(c) /\ UNCHANGED << config, epoch, toNotify >> /\ listeners' \subseteq listeners
    BY <1>7 DEF ClientDies, ClientCloses
  <2>2. DefaultConfig(0) \in Config
    BY <1>0, DefaultsAreConfigs
  <2>3. \A d \in Client : callbacks'[d] \in Seq(Config)
    BY <2>1, EmptySeq DEF Reborn, Types, TypeOK
  <2>4. callbacks' = [ d \in Client |-> callbacks'[d] ]
    BY <2>1 DEF Reborn, Types
  <2>5. life' \in [ Client -> 1 .. MaxLives ]
    BY <1>0, <2>1 DEF Reborn, Types, TypeOK
  <2>6. connectedTo' \in [ Client -> 0 .. MaxEpoch ] /\ \A d \in Client : connectedTo'[d] <= epoch
    BY <1>0, <2>1 DEF Reborn, Types, TypeOK
  <2>7. /\ connection' \in [ Client -> { "down", "fetched", "installed", "registering", "up" } ]
        /\ fetched' \in [ Client -> Config ]
        /\ clientConfig' \in [ Client -> Config ] /\ newest' \in [ Client -> Config ]
    BY <2>1, <2>2 DEF Reborn, Types, TypeOK
  <2> QED
    BY <2>1, <2>3, <2>4, <2>5, <2>6, <2>7 DEF Types, TypeOK
<1> QED
  BY <1>1, <1>2, <1>3, <1>4, <1>5, <1>6, <1>7 DEF ClientStep, Refresh

(* TypeOK holds in every reachable state.                                  *)
THEOREM SyncTypes == Spec => []Types
<1>0. /\ MaxGeneration \in Nat \ {0} /\ MaxEpoch \in Nat \ {0} /\ MaxLives \in Nat \ {0}
      /\ 0 \in 0 .. MaxEpoch /\ 1 \in 0 .. MaxEpoch /\ 1 \in 1 .. MaxEpoch /\ 1 \in 1 .. MaxLives
  BY SyncBounds DEF SyncBounds
<1>1. Init => Types
  <2>1. DefaultConfig(0) \in Config /\ DefaultConfig(1) \in Config /\ DefaultConfig(1).epoch = 1
    BY <1>0, DefaultsAreConfigs
  <2>2. << >> \in Seq(Config)
    BY EmptySeq
  <2> QED
    BY <1>0, <2>1, <2>2 DEF Init, Types, TypeOK
<1>2. Types /\ [Next]_vars => Types'
  <2> SUFFICES ASSUME Types, [Next]_vars PROVE Types'
    OBVIOUS
  <2>1. CASE ServiceDies
    <3>1. epoch + 1 \in 1 .. MaxEpoch /\ epoch \in Nat
      BY <1>0, <2>1 DEF ServiceDies, Types, TypeOK
    <3>2. DefaultConfig(epoch + 1) \in Config /\ DefaultConfig(epoch + 1).epoch = epoch + 1
      BY <3>1, DefaultsAreConfigs
    <3>3. \A c \in Client : connectedTo[c] <= epoch + 1
      BY <3>1 DEF Types, TypeOK
    <3> QED
      BY <2>1, <3>1, <3>2, <3>3 DEF ServiceDies, Types, TypeOK, clientVars
  <2>2. CASE UNCHANGED vars
    BY <2>2 DEF vars, serviceVars, clientVars, Types, TypeOK
  <2> QED
    BY <2>1, <2>2, WorkerTypes, ClientTypes DEF Next
<1> QED
  BY <1>1, <1>2, PTL DEF Spec

-----------------------------------------------------------------------------
(* Registration and notification                                           *)

(* A client that the service has taken into its list.                      *)
Listening(c) == connection[c] \in { "registering", "up" } /\ ServiceAlive(c)

Known(c) == ~Older(newest[c], config)

(* The configuration in force is to be sent, has been, or was copied for   *)
(* the first callback.                                                     *)
OnItsWay(c) ==
  \/ Binder(c) \in toNotify
  \/ \E i \in 1 .. Len(callbacks[c]) : callbacks[c][i] = config
  \/ connection[c] = "registering" /\ fetched[c] = config

SyncInv ==
  \A c \in Client : Listening(c) => Binder(c) \in listeners /\ (Known(c) \/ OnItsWay(c))

(* What a client has held it does not forget.                              *)
LEMMA NewestGrows ==
  ASSUME Types, NEW c \in Client, NEW new \in Config, Overwrite(c, new)
  PROVE  /\ Known(c) => ~Older(newest'[c], config)
         /\ ~Older(newest'[c], new)
<1>1. /\ newest[c] \in Config /\ config \in Config
      /\ newest'[c] = IF Older(newest[c], new) THEN new ELSE newest[c]
  BY OverwriteTypes DEF Types, TypeOK
<1>2. \A a \in Config : a.epoch \in Int /\ a.generation \in Int
  BY DEF Config
<1> QED
  BY <1>1, <1>2 DEF Known, Older

(* A change makes everyone who listens to be notified (MutateConfig).      *)
LEMMA WorkerKeepsSync ==
  ASSUME Types, SyncInv, Worker
  PROVE  SyncInv'
<1> USE DEF clientVars
<1>1. ASSUME NEW external, MutateConfig(external)
      PROVE  SyncInv'
  BY <1>1 DEF MutateConfig, SyncInv, Listening, ServiceAlive, Binder, Known, OnItsWay
<1>2. ASSUME NEW b \in toNotify, NotifyListener(b)
      PROVE  SyncInv'
  <2> SUFFICES ASSUME NEW c \in Client, Listening(c)'
               PROVE  Binder(c)' \in listeners' /\ (Known(c)' \/ OnItsWay(c)')
    BY DEF SyncInv
  <2>1. /\ UNCHANGED << config, epoch, life, connection, connectedTo, fetched, newest >>
        /\ toNotify' = toNotify \ { b }
    BY <1>2 DEF NotifyListener
  <2>2. /\ Listening(c) /\ Binder(c)' = Binder(c) /\ (Known(c)' <=> Known(c))
        /\ Binder(c) \in listeners /\ (Known(c) \/ OnItsWay(c))
    BY <2>1 DEF SyncInv, Listening, ServiceAlive, Binder, Known
  <2>3. b[1] \in Client /\ callbacks[c] \in Seq(Config) /\ config \in Config
        /\ callbacks = [ d \in Client |-> callbacks[d] ]
    BY DEF Types, TypeOK
  <2>4. CASE b = Binder(c)
    <3>1. b = Binder(b[1]) /\ b[1] = c
      BY <2>4 DEF Binder
    <3>2. callbacks' = [ callbacks EXCEPT ![c] = Append(callbacks[c], config) ] /\ UNCHANGED listeners
      BY <1>2, <3>1 DEF NotifyListener
    <3>3. callbacks'[c] = Append(callbacks[c], config)
      BY <2>3, <3>2
    <3>4. /\ Len(callbacks'[c]) = Len(callbacks[c]) + 1 /\ Len(callbacks[c]) \in Nat
          /\ callbacks'[c][Len(callbacks[c]) + 1] = config
      BY <2>3, <3>3, AppendProperties, LenProperties
    <3>5. \E i \in 1 .. Len(callbacks'[c]) : callbacks'[c][i] = config
      BY <3>4
    <3> QED
      BY <2>1, <2>2, <3>2, <3>5 DEF OnItsWay
  <2>5. CASE b # Binder(c) /\ b = Binder(b[1])
    <3>1. b[1] # c
      BY <2>5
    <3>2. callbacks'[c] = callbacks[c] /\ UNCHANGED listeners
      BY <1>2, <2>3, <2>5, <3>1 DEF NotifyListener
    <3> QED
      BY <2>1, <2>2, <2>5, <3>2 DEF OnItsWay
  <2>6. CASE b # Binder(c) /\ b # Binder(b[1])
    <3>1. UNCHANGED callbacks /\ listeners' = listeners \ { b }
      BY <1>2, <2>6 DEF NotifyListener
    <3> QED
      BY <2>1, <2>2, <2>6, <3>1 DEF OnItsWay
  <2> QED
    BY <2>4, <2>5, <2>6
<1> QED
  BY <1>1, <1>2
     DEF Worker, SetMotionConfig, SetGnssConfig, SetEnvironmentConfig, ResetSensors, ResetGnss,
         ClearExternalSources

(* What a step of one client leaves alone for the others.                  *)
LEMMA OthersKeepSync ==
  ASSUME SyncInv, NEW d \in Client,
         UNCHANGED << config, epoch, toNotify >>, Binder(d) \in listeners => Binder(d) \in listeners',
         life'[d] = life[d], connection'[d] = connection[d], connectedTo'[d] = connectedTo[d],
         fetched'[d] = fetched[d], newest'[d] = newest[d], callbacks'[d] = callbacks[d],
         Listening(d)'
  PROVE  Binder(d)' \in listeners' /\ (Known(d)' \/ OnItsWay(d)')
BY DEF SyncInv, Listening, ServiceAlive, Binder, Known, OnItsWay

(* Registering takes the configuration in force in the step that adds the  *)
(* listener, and what was sent arrives (RefreshConnection, registerListener, *)
(* onSimulationConfigChanged).                                             *)
LEMMA ClientKeepsSync ==
  ASSUME Types, SyncInv, NEW c \in Client, ClientStep(c)
  PROVE  SyncInv'
<1> USE DEF serviceVars
<1>1. /\ callbacks[c] \in Seq(Config) /\ fetched[c] \in Config /\ config \in Config
      /\ callbacks = [ d \in Client |-> callbacks[d] ]
      /\ connection \in [ Client -> { "down", "fetched", "installed", "registering", "up" } ]
      /\ connectedTo \in [ Client -> 0 .. MaxEpoch ] /\ fetched \in [ Client -> Config ]
      /\ newest \in [ Client -> Config ] /\ life \in [ Client -> 1 .. MaxLives ]
  BY DEF Types, TypeOK
<1>2. ASSUME NEW d \in Client, d # c
      PROVE  /\ UNCHANGED << config, epoch, toNotify >>
             /\ Binder(d) \in listeners => Binder(d) \in listeners'
             /\ life'[d] = life[d] /\ connection'[d] = connection[d]
             /\ connectedTo'[d] = connectedTo[d] /\ fetched'[d] = fetched[d]
             /\ newest'[d] = newest[d] /\ callbacks'[d] = callbacks[d]
  <2>1. CASE FetchConfig(c)
    BY <1>1, <1>2, <2>1 DEF FetchConfig
  <2>2. CASE InstallConfig(c)
    BY <1>1, <1>2, <2>2, OverwriteTypes DEF InstallConfig
  <2>3. CASE AddListener(c)
    BY <1>1, <1>2, <2>3 DEF AddListener
  <2>4. CASE FirstCallback(c)
    BY <1>1, <1>2, <2>4 DEF FirstCallback
  <2>5. CASE CallFails(c) \/ PublishRefused(c)
    BY <1>1, <1>2, <2>5 DEF CallFails, PublishRefused
  <2>6. CASE DeliverCallback(c)
    <3>1. Head(callbacks[c]) \in Config
      BY <1>1, <2>6, HeadTailProperties DEF DeliverCallback
    <3> QED
      BY <1>1, <1>2, <2>6, <3>1, OverwriteTypes DEF DeliverCallback
  <2>7. CASE ClientDies(c) \/ ClientCloses(c)
    BY <1>1, <1>2, <2>7 DEF ClientDies, ClientCloses, Reborn, Binder
  <2> QED
    BY <2>1, <2>2, <2>3, <2>4, <2>5, <2>6, <2>7 DEF ClientStep, Refresh
<1>3. ASSUME Listening(c)'
      PROVE  Binder(c)' \in listeners' /\ (Known(c)' \/ OnItsWay(c)')
  <2>1. CASE FetchConfig(c) \/ InstallConfig(c) \/ CallFails(c) \/ PublishRefused(c)
             \/ ClientDies(c) \/ ClientCloses(c)
    <3>1. connection'[c] \in { "down", "fetched", "installed" }
      BY <1>1, <2>1 DEF FetchConfig, InstallConfig, CallFails, PublishRefused, ClientDies,
                        ClientCloses, Reborn
    <3> QED
      BY <1>3, <3>1 DEF Listening
  <2>2. CASE AddListener(c)
    BY <1>1, <2>2 DEF AddListener, Binder, OnItsWay
  <2>3. CASE FirstCallback(c)
    <3>1. callbacks'[c] = Append(callbacks[c], fetched[c])
      BY <1>1, <2>3 DEF FirstCallback
    <3>2. /\ Len(callbacks'[c]) = Len(callbacks[c]) + 1 /\ Len(callbacks[c]) \in Nat
          /\ callbacks'[c][Len(callbacks[c]) + 1] = fetched[c]
          /\ \A i \in 1 .. Len(callbacks[c]) : callbacks'[c][i] = callbacks[c][i]
      BY <1>1, <3>1, AppendProperties, LenProperties
    <3>3. /\ UNCHANGED << config, epoch, listeners, toNotify, life, connectedTo, newest >>
          /\ Listening(c)
      BY <2>3 DEF FirstCallback, Listening
    <3>4. Binder(c) \in listeners /\ (Known(c) \/ OnItsWay(c)) /\ Binder(c)' = Binder(c)
      BY <3>3 DEF SyncInv, Binder
    <3>5. CASE \E i \in 1 .. Len(callbacks[c]) : callbacks[c][i] = config
      <4>1. \E i \in 1 .. Len(callbacks'[c]) : callbacks'[c][i] = config'
        BY <3>2, <3>3, <3>5
      <4> QED
        BY <3>3, <3>4, <4>1 DEF OnItsWay
    <3>6. CASE fetched[c] = config
      <4>1. \E i \in 1 .. Len(callbacks'[c]) : callbacks'[c][i] = config'
        BY <3>2, <3>3, <3>6
      <4> QED
        BY <3>3, <3>4, <4>1 DEF OnItsWay
    <3> QED
      BY <3>3, <3>4, <3>5, <3>6 DEF OnItsWay, Known
  <2>4. CASE DeliverCallback(c)
    <3>1. /\ callbacks[c] # << >> /\ callbacks'[c] = Tail(callbacks[c])
          /\ Overwrite(c, Head(callbacks[c]))
          /\ UNCHANGED << config, epoch, listeners, toNotify, life, connection, connectedTo, fetched >>
      BY <1>1, <2>4 DEF DeliverCallback
    <3>2. /\ Head(callbacks[c]) = callbacks[c][1] /\ Head(callbacks[c]) \in Config
          /\ Len(callbacks'[c]) = Len(callbacks[c]) - 1 /\ Len(callbacks[c]) \in Nat
          /\ \A i \in 1 .. Len(callbacks'[c]) : callbacks'[c][i] = callbacks[c][i + 1]
      BY <1>1, <3>1, HeadTailProperties, LenProperties
    <3>3. Binder(c) \in listeners /\ (Known(c) \/ OnItsWay(c)) /\ Binder(c)' = Binder(c)
      BY <1>3, <3>1 DEF SyncInv, Binder, Listening, ServiceAlive
    <3>4. Known(c) => Known(c)'
      BY <3>1, <3>2, NewestGrows DEF Known
    <3>5. CASE Binder(c) \in toNotify \/ (connection[c] = "registering" /\ fetched[c] = config)
      BY <3>1, <3>3, <3>5 DEF OnItsWay
    <3>6. ASSUME NEW i \in 1 .. Len(callbacks[c]), callbacks[c][i] = config
          PROVE  Known(c)' \/ OnItsWay(c)'
      <4>1. CASE i = 1
        BY <3>1, <3>2, <3>6, <4>1, NewestGrows DEF Known
      <4>2. CASE i # 1
        <5>1. i - 1 \in 1 .. Len(callbacks'[c]) /\ (i - 1) + 1 = i
          BY <3>2, <4>2
        <5>2. callbacks'[c][i - 1] = config'
          BY <3>1, <3>2, <3>6, <5>1
        <5> QED
          BY <5>1, <5>2 DEF OnItsWay
      <4> QED
        BY <4>1, <4>2
    <3> QED
      BY <3>1, <3>3, <3>4, <3>5, <3>6 DEF OnItsWay
  <2> QED
    BY <2>1, <2>2, <2>3, <2>4 DEF ClientStep, Refresh
<1> QED
  BY <1>2, <1>3, OthersKeepSync DEF SyncInv

(* So a client that listens is registered, and the configuration in force  *)
(* is known to it or on its way.                                           *)
THEOREM SyncInvariant == Spec => []SyncInv
<1>1. Init => SyncInv
  BY DEF Init, SyncInv, Listening
<1>2. Types /\ SyncInv /\ [Next]_vars => SyncInv'
  <2> SUFFICES ASSUME Types, SyncInv, [Next]_vars PROVE SyncInv'
    OBVIOUS
  <2>1. CASE ServiceDies
    <3>1. \A c \in Client : connectedTo'[c] # epoch'
      <4>1. epoch \in Int /\ \A c \in Client : connectedTo[c] \in Int /\ connectedTo[c] <= epoch
        BY DEF Types, TypeOK
      <4> QED
        BY <2>1, <4>1 DEF ServiceDies, clientVars
    <3> QED
      BY <3>1 DEF SyncInv, Listening, ServiceAlive
  <2>2. CASE UNCHANGED vars
    BY <2>2 DEF vars, serviceVars, clientVars, SyncInv, Listening, ServiceAlive, Binder, Known, OnItsWay
  <2> QED
    BY <2>1, <2>2, WorkerKeepsSync, ClientKeepsSync DEF Next
<1> QED
  BY <1>1, <1>2, SyncTypes, PTL DEF Spec

(* A client that believes itself connected is registered, whatever dies    *)
(* (RefreshConnection, RemoveListener).                                    *)
THEOREM SyncConnectedIsRegistered == Spec => []ConnectedIsRegistered
<1>1. SyncInv => ConnectedIsRegistered
  BY DEF SyncInv, Listening, ConnectedIsRegistered, Connected
<1> QED
  BY <1>1, SyncInvariant, PTL

(* The safety half of EveryChangeIsSeen: a connected client with nothing   *)
(* on its way has held the configuration in force, or a newer one.         *)
SettledIsCurrent == \A c \in Client : Settled(c) => ~Older(newest[c], config)

(* So a change is not lost once its callbacks have all been taken          *)
(* (NotifyListeners, onConfigChanged, RefreshConnection).                  *)
THEOREM SyncSettledIsCurrent == Spec => []SettledIsCurrent
<1>1. Types /\ SyncInv => SettledIsCurrent
  <2> SUFFICES ASSUME Types, SyncInv, NEW c \in Client, Settled(c) PROVE Known(c)
    BY DEF SettledIsCurrent, Known
  <2>1. toNotify = {} /\ Len(callbacks[c]) = 0 /\ connection[c] = "up" /\ Listening(c)
    BY EmptySeq DEF Settled, Connected, Listening
  <2> QED
    BY <2>1 DEF SyncInv, OnItsWay
<1> QED
  BY <1>1, SyncTypes, SyncInvariant, PTL

-----------------------------------------------------------------------------
(* The fan-out of external records: the service's list                     *)

(* A set of numbers has a least one.                                       *)
LEMMA Least ==
  ASSUME NEW T, T \subseteq Nat, T # {}
  PROVE  \E n \in T : \A m \in T : n <= m
<1> DEFINE R == OpToRel(<, Nat)
<1>1. R = { ss \in Nat \X Nat : ss[1] < ss[2] }
  BY Zenon DEF OpToRel
<1>2. IsWellFoundedOn(R, Nat)
  BY NatLessThanWellFounded
<1> HIDE DEF R
<1>3. \E x \in T : \A y \in T : ~(<< y, x >> \in R)
  BY <1>2, WFMin
<1>4. ASSUME NEW x \in Nat, NEW y \in Nat, y < x
      PROVE  << y, x >> \in R
  <2>1. << y, x >> \in Nat \X Nat /\ << y, x >>[1] = y /\ << y, x >>[2] = x
    OBVIOUS
  <2> DEFINE p == << y, x >>
  <2>2. p \in Nat \X Nat /\ p[1] < p[2]
    BY <1>4, <2>1
  <2> HIDE DEF p
  <2>3. p \in R
    BY <1>1, <2>2
  <2> QED
    BY <2>3 DEF p
<1>5. PICK n \in T : \A y \in T : ~(<< y, n >> \in R)
  BY <1>3
<1>6. ASSUME NEW m \in T PROVE n <= m
  <2>1. m \in Nat /\ n \in Nat
    OBVIOUS
  <2>2. ~(<< m, n >> \in R)
    BY <1>5
  <2>3. ~(m < n)
    BY <1>4, <2>1, <2>2, Zenon
  <2> QED
    BY <2>1, <2>3
<1> QED
  BY <1>5, <1>6

(* The limits are positive numbers.                                        *)
LEMMA FanoutNumbers ==
  /\ MaxReaders \in Nat \ {0} /\ Capacity \in Nat \ {0}
  /\ MaxRecords \in Nat \ {0} /\ MaxOpens \in Nat \ {0}
BY FanoutLimits

(* A list that is full has an oldest entry, which makes room               *)
(* (openExternalStateStream: external_queues_.erase(begin())).             *)
LEMMA RoomIsMade ==
  ASSUME FanoutTypeOK, NEW list, list \subseteq entries
  PROVE  /\ MakeRoom(list) \subseteq list /\ IsFiniteSet(MakeRoom(list))
         /\ Cardinality(MakeRoom(list)) \in Nat /\ Cardinality(MakeRoom(list)) < MaxReaders
<1>1. /\ IsFiniteSet(list) /\ Cardinality(list) \in Nat /\ Cardinality(list) <= MaxReaders
      /\ list \subseteq Entry /\ opens \in Nat
  <2>1. IsFiniteSet(list) /\ Cardinality(list) <= Cardinality(entries)
    BY FS_Subset DEF FanoutTypeOK
  <2>2. Cardinality(list) \in Nat /\ Cardinality(entries) \in Nat /\ MaxReaders \in Nat
    BY <2>1, FS_CardinalityType, FanoutNumbers DEF FanoutTypeOK
  <2> QED
    BY <2>1, <2>2 DEF FanoutTypeOK
<1>2. CASE Cardinality(list) = MaxReaders
  <2>1. list # {}
    BY <1>2, FS_EmptySet, FanoutNumbers
  <2> DEFINE numbers == { e.queue : e \in list }
  <2>2. \A e \in list : e.queue \in Nat
    BY <1>1 DEF Entry
  <2>3. numbers \subseteq Nat /\ numbers # {}
    BY <2>1, <2>2
  <2>4. PICK n \in numbers : \A m \in numbers : n <= m
    BY <2>3, Least
  <2>5. \E e \in list : \A other \in list : e.queue <= other.queue
    BY <2>4
  <2>6. Oldest(list) \in list
    BY <2>5 DEF Oldest
  <2>7. /\ IsFiniteSet(list \ { Oldest(list) })
        /\ Cardinality(list \ { Oldest(list) }) = Cardinality(list) - 1
    BY <1>1, <2>6, FS_RemoveElement
  <2> QED
    BY <1>1, <1>2, <2>7, FanoutNumbers DEF MakeRoom
<1>3. CASE Cardinality(list) # MaxReaders
  BY <1>1, <1>3, FanoutNumbers DEF MakeRoom
<1> QED
  BY <1>2, <1>3

(* The service opens a queue in a list that has room for it.               *)
LEMMA OpenTypes ==
  ASSUME FanoutTypeOK, NEW r \in Reader, OpenExternalStateStream(r)
  PROVE  FanoutTypeOK'
<1> DEFINE kept == MakeRoom(OthersEntries(pid[r]))
           new == [ owner |-> pid[r], queue |-> opens + 1, pending |-> FALSE ]
<1>1. /\ entries' = kept \union { new } /\ opens' = opens + 1 /\ opens < MaxOpens
      /\ UNCHANGED << published, fmq, pid, pids, holeSeen >>
      /\ stream' = [ stream EXCEPT ![r] = opens + 1 ] /\ lastRead' = [ lastRead EXCEPT ![r] = 0 ]
  BY DEF OpenExternalStateStream
<1>2. opens \in Nat /\ MaxOpens \in Nat /\ pids \in Nat /\ pid[r] \in 1 .. pids
  BY FanoutNumbers DEF FanoutTypeOK
<1>3. /\ kept \subseteq entries /\ IsFiniteSet(kept)
      /\ Cardinality(kept) \in Nat /\ Cardinality(kept) < MaxReaders
  BY RoomIsMade DEF OthersEntries
<1>4. new \in Entry'
  BY <1>1, <1>2 DEF Entry
<1>5. Entry \subseteq Entry'
  BY <1>1, <1>2 DEF Entry
<1> HIDE DEF kept, new
<1>6. entries' \subseteq Entry'
  BY <1>1, <1>3, <1>4, <1>5 DEF FanoutTypeOK
<1>7. IsFiniteSet(entries') /\ Cardinality(entries') <= MaxReaders
  <2>1. /\ IsFiniteSet(kept \union { new })
        /\ Cardinality(kept \union { new }) \in { Cardinality(kept), Cardinality(kept) + 1 }
    BY <1>3, FS_AddElement
  <2> QED
    BY <1>1, <1>3, <2>1, FanoutNumbers
<1>8. /\ stream' \in [ Reader -> 0 .. opens' ] /\ lastRead' \in [ Reader -> 0 .. published' ]
      /\ opens' \in 0 .. MaxOpens
  BY <1>1, <1>2, FanoutNumbers DEF FanoutTypeOK
<1>9. Record' = Record
  BY <1>1 DEF Record
<1> QED
  BY <1>1, <1>6, <1>7, <1>8, <1>9 DEF FanoutTypeOK

(* A record is written into the queues that have room for it, and every    *)
(* entry is kept (PublishExternalState).                                   *)
LEMMA WrittenType ==
  ASSUME FanoutTypeOK, NEW disc \in BOOLEAN, NEW q \in 1 .. MaxOpens
  PROVE  /\ Written(q, disc) \in Seq([ n : 1 .. published + 1, disc : BOOLEAN ])
         /\ Len(Written(q, disc)) <= Capacity
<1> DEFINE R == [ n : 1 .. published + 1, disc : BOOLEAN ]
           serving == { e \in entries : e.queue = q /\ HasRoom(e) }
           new == [ n |-> published + 1, disc |-> disc \/ \E e \in serving : e.pending ]
<1>1. published \in Nat /\ fmq[q] \in Seq(Record) /\ Len(fmq[q]) <= Capacity
  <2>1. fmq \in [ 1 .. MaxOpens -> Seq(Record) ] /\ Len(fmq[q]) <= Capacity
    BY DEF FanoutTypeOK
  <2>2. published \in Nat
    BY FanoutNumbers DEF FanoutTypeOK
  <2> QED
    BY <2>1, <2>2
<1>2. Record \subseteq R /\ new \in R
  BY <1>1 DEF Record
<1>3. Written(q, disc) = IF serving = {} THEN fmq[q] ELSE Append(fmq[q], new)
  BY Zenon DEF Written
<1>4. serving # {} => Len(fmq[q]) < Capacity
  BY DEF HasRoom
<1> HIDE DEF R, serving, new
<1>5. fmq[q] \in Seq(R)
  BY <1>1, <1>2
<1>6. Written(q, disc) \in Seq(R) /\ Len(Written(q, disc)) <= Capacity
  <2>1. Append(fmq[q], new) \in Seq(R) /\ Len(Append(fmq[q], new)) = Len(fmq[q]) + 1
    BY <1>2, <1>5, AppendProperties
  <2>2. Len(fmq[q]) \in Nat
    BY <1>5
  <2> QED
    BY <1>1, <1>3, <1>4, <1>5, <2>1, <2>2, FanoutNumbers
<1> QED
  BY <1>6 DEF R

(* Publishing keeps the types.                                             *)
LEMMA PublishTypes ==
  ASSUME FanoutTypeOK, NEW disc \in BOOLEAN, PublishExternalState(disc)
  PROVE  FanoutTypeOK'
<1>1. /\ published < MaxRecords /\ published' = published + 1
      /\ fmq' = [ q \in DOMAIN fmq |-> Written(q, disc) ]
      /\ entries' = { [ e EXCEPT !.pending = ~HasRoom(e) ] : e \in entries }
      /\ UNCHANGED << opens, pid, pids, stream, lastRead, holeSeen >>
  BY DEF PublishExternalState, readerVars
<1>2. published \in Nat /\ MaxRecords \in Nat /\ DOMAIN fmq = 1 .. MaxOpens
  BY FanoutNumbers DEF FanoutTypeOK
<1>3. Record' = [ n : 1 .. published + 1, disc : BOOLEAN ]
  BY <1>1 DEF Record
<1>4. fmq' \in [ 1 .. MaxOpens -> Seq(Record') ] /\ \A q \in 1 .. MaxOpens : Len(fmq'[q]) <= Capacity
  BY <1>1, <1>2, <1>3, WrittenType
<1>5. entries' \subseteq Entry'
  <2>1. Entry' = Entry
    BY <1>1 DEF Entry
  <2>2. ASSUME NEW e \in entries PROVE [ e EXCEPT !.pending = ~HasRoom(e) ] \in Entry
    <3>1. e \in Entry /\ (~HasRoom(e)) \in BOOLEAN
      BY DEF FanoutTypeOK, HasRoom
    <3> DEFINE b == ~HasRoom(e)
    <3> HIDE DEF b
    <3>2. [ e EXCEPT !.pending = b ] \in Entry
      BY <3>1 DEF Entry, b
    <3> QED
      BY <3>2 DEF b
  <2> QED
    BY <1>1, <2>1, <2>2
<1>6. IsFiniteSet(entries') /\ Cardinality(entries') <= MaxReaders
  <2> DEFINE f == [ e \in entries |-> [ e EXCEPT !.pending = ~HasRoom(e) ] ]
  <2>1. f \in Surjection(entries, entries')
    BY <1>1 DEF Surjection
  <2> HIDE DEF f
  <2>2. IsFiniteSet(entries') /\ Cardinality(entries') <= Cardinality(entries)
    BY <2>1, FS_Surjection DEF FanoutTypeOK
  <2> QED
    BY <2>2, FS_CardinalityType, FanoutNumbers DEF FanoutTypeOK
<1>7. published' \in 0 .. MaxRecords /\ lastRead' \in [ Reader -> 0 .. published' ]
  BY <1>1, <1>2 DEF FanoutTypeOK
<1> QED
  BY <1>1, <1>4, <1>5, <1>6, <1>7 DEF FanoutTypeOK

(* So do the readers, who empty their queues, die and come back.           *)
LEMMA ReaderTypes ==
  ASSUME FanoutTypeOK, NEW r \in Reader, DrainExternalStates(r) \/ ReaderDies(r)
  PROVE  FanoutTypeOK'
<1>1. CASE DrainExternalStates(r)
  <2>1. /\ stream[r] \in 1 .. MaxOpens /\ UNCHANGED << entries, opens, published, pid, pids, stream >>
        /\ fmq' = [ fmq EXCEPT ![stream[r]] = << >> ] /\ fmq[stream[r]] # << >>
        /\ lastRead' = [ lastRead EXCEPT ![r] = Last(fmq[stream[r]]).n ]
        /\ holeSeen' \in BOOLEAN
    BY <1>1, FanoutNumbers DEF DrainExternalStates, FanoutTypeOK, publisherVars
  <2>2. Record' = Record /\ Entry' = Entry
    BY <2>1 DEF Record, Entry
  <2>3. Last(fmq[stream[r]]).n \in 0 .. published
    <3>1. fmq[stream[r]] \in Seq(Record) /\ fmq[stream[r]] # << >>
      BY <2>1 DEF FanoutTypeOK
    <3>2. Last(fmq[stream[r]]) \in Record
      BY <3>1 DEF Last
    <3> QED
      BY <3>2 DEF Record, FanoutTypeOK
  <2>4. lastRead' \in [ Reader -> 0 .. published ]
    BY <2>1, <2>3 DEF FanoutTypeOK
  <2>5. fmq' \in [ 1 .. MaxOpens -> Seq(Record) ] /\ \A q \in 1 .. MaxOpens : Len(fmq'[q]) <= Capacity
    BY <2>1, FanoutNumbers DEF FanoutTypeOK
  <2> QED
    BY <2>1, <2>2, <2>4, <2>5 DEF FanoutTypeOK
<1>2. CASE ReaderDies(r)
  <2>1. /\ pids' = pids + 1 /\ pid' = [ pid EXCEPT ![r] = pids + 1 ]
        /\ stream' = [ stream EXCEPT ![r] = 0 ] /\ lastRead' = [ lastRead EXCEPT ![r] = 0 ]
        /\ UNCHANGED << entries, opens, published, fmq, holeSeen >>
    BY <1>2 DEF ReaderDies, publisherVars
  <2>2. pids \in Nat /\ published \in Nat /\ opens \in Nat
    BY DEF FanoutTypeOK
  <2>3. Record' = Record /\ Entry \subseteq Entry'
    BY <2>1, <2>2 DEF Record, Entry
  <2>4. pids' \in Nat /\ pid' \in [ Reader -> 1 .. pids' ]
    BY <2>1, <2>2 DEF FanoutTypeOK
  <2>5. IsInjective(pid')
    <3>1. DOMAIN pid' = Reader /\ DOMAIN pid = Reader
      BY <2>1 DEF FanoutTypeOK
    <3>2. \A a \in Reader : pid[a] \in 1 .. pids /\ pid'[a] = IF a = r THEN pids + 1 ELSE pid[a]
      BY <2>1 DEF FanoutTypeOK
    <3>3. \A a, b \in Reader : pid[a] = pid[b] => a = b
      BY <3>1 DEF FanoutTypeOK, IsInjective
    <3>4. ASSUME NEW a \in Reader, NEW b \in Reader, pid'[a] = pid'[b] PROVE a = b
      BY <2>2, <3>2, <3>3, <3>4
    <3> QED
      BY <3>1, <3>4 DEF IsInjective
  <2>6. stream' \in [ Reader -> 0 .. opens ] /\ lastRead' \in [ Reader -> 0 .. published ]
    BY <2>1, <2>2 DEF FanoutTypeOK
  <2> QED
    BY <2>1, <2>3, <2>4, <2>5, <2>6 DEF FanoutTypeOK
<1> QED
  BY <1>1, <1>2

(* The list and the queues keep their limits.                              *)
THEOREM FanoutTypes == FanoutSpec => []FanoutTypeOK
<1>1. FanoutInit => FanoutTypeOK
  <2> SUFFICES ASSUME FanoutInit PROVE FanoutTypeOK
    OBVIOUS
  <2>1. Cardinality(Reader) \in Nat
    BY FS_CardinalityType, FanoutReaders
  <2>2. IsFiniteSet({}) /\ Cardinality({}) = 0
    BY FS_EmptySet
  <2>3. fmq \in [ 1 .. MaxOpens -> Seq(Record) ] /\ \A q \in 1 .. MaxOpens : Len(fmq[q]) <= Capacity
    BY FanoutNumbers DEF FanoutInit
  <2>4. pid \in [ Reader -> 1 .. pids ] /\ IsInjective(pid) /\ pids \in Nat
    BY <2>1 DEF FanoutInit
  <2>5. stream \in [ Reader -> 0 .. opens ] /\ lastRead \in [ Reader -> 0 .. published ]
    BY DEF FanoutInit
  <2>6. entries \subseteq Entry /\ IsFiniteSet(entries) /\ Cardinality(entries) <= MaxReaders
    BY <2>2, FanoutNumbers DEF FanoutInit
  <2>7. opens \in 0 .. MaxOpens /\ published \in 0 .. MaxRecords
    <3>1. opens = 0 /\ published = 0
      BY DEF FanoutInit
    <3> QED
      BY <3>1, FanoutNumbers
  <2>8. holeSeen \in BOOLEAN
    BY DEF FanoutInit
  <2> QED
    BY <2>3, <2>4, <2>5, <2>6, <2>7, <2>8 DEF FanoutTypeOK
<1>2. FanoutTypeOK /\ [FanoutNext]_fanoutVars => FanoutTypeOK'
  <2> SUFFICES ASSUME FanoutTypeOK, [FanoutNext]_fanoutVars PROVE FanoutTypeOK'
    OBVIOUS
  <2>1. CASE UNCHANGED fanoutVars
    BY <2>1 DEF fanoutVars, publisherVars, readerVars, FanoutTypeOK, Record, Entry
  <2> QED
    BY <2>1, OpenTypes, PublishTypes, ReaderTypes DEF FanoutNext
<1> QED
  BY <1>1, <1>2, PTL DEF FanoutSpec

-----------------------------------------------------------------------------
(* The fan-out of external records: what the readers get                   *)

(* The last record that was put in a reader's stream.                      *)
Newest(r) ==
  IF fmq[stream[r]] = << >> THEN lastRead[r] ELSE Last(fmq[stream[r]]).n

(* A queue is one reader's.  What a reader finds in its own has no hole    *)
(* that is not flagged, and neither will it with the next record: the last *)
(* one was the last published, or the entry knows of the loss.             *)
FanoutInv ==
  /\ \A q \in 1 .. MaxOpens : q > opens => fmq[q] = << >>
  /\ \A r1, r2 \in Reader : stream[r1] = stream[r2] /\ stream[r1] # 0 => r1 = r2
  /\ ~holeSeen
  /\ \A r \in Reader : stream[r] # 0 =>
       /\ ~Unflagged(r)
       /\ \/ Newest(r) \in { 0, published }
          \/ \A e \in entries : e.queue = stream[r] => e.pending

(* A process that opens a stream anew leaves its older queues; nobody      *)
(* else's entry is touched, but for the oldest (openExternalStateStream).  *)
LEMMA OpenServes ==
  ASSUME FanoutTypeOK, ServedThroughCurrentQueue, NEW r \in Reader, OpenExternalStateStream(r)
  PROVE  ServedThroughCurrentQueue'
<1>1. /\ entries' = MakeRoom(OthersEntries(pid[r]))
                    \union { [ owner |-> pid[r], queue |-> opens + 1, pending |-> FALSE ] }
      /\ stream' = [ stream EXCEPT ![r] = opens + 1 ] /\ UNCHANGED pid
  BY DEF OpenExternalStateStream
<1>2. MakeRoom(OthersEntries(pid[r])) \subseteq OthersEntries(pid[r])
  BY RoomIsMade DEF OthersEntries
<1>3. /\ DOMAIN stream = Reader
      /\ \A r1, r2 \in Reader : pid[r1] = pid[r2] => r1 = r2
  BY DEF FanoutTypeOK, IsInjective
<1>4. ASSUME NEW e \in entries', NEW r1 \in Reader, e.owner = pid[r1], stream'[r1] # 0
      PROVE  e.queue = stream'[r1]
  <2>1. CASE e \in OthersEntries(pid[r])
    <3>1. e \in entries /\ e.owner # pid[r]
      BY <2>1 DEF OthersEntries
    <3>2. r1 # r /\ stream'[r1] = stream[r1]
      BY <1>1, <1>3, <1>4, <3>1
    <3> QED
      BY <1>4, <3>1, <3>2 DEF ServedThroughCurrentQueue
  <2>2. CASE e = [ owner |-> pid[r], queue |-> opens + 1, pending |-> FALSE ]
    BY <1>1, <1>3, <1>4, <2>2
  <2> QED
    BY <1>1, <1>2, <2>1, <2>2
<1> QED
  BY <1>1, <1>4 DEF ServedThroughCurrentQueue

(* Publishing, draining and dying change nobody's entry for another's.     *)
LEMMA OthersServe ==
  ASSUME FanoutTypeOK, ServedThroughCurrentQueue, NEW r \in Reader, NEW disc \in BOOLEAN,
         PublishExternalState(disc) \/ DrainExternalStates(r) \/ ReaderDies(r)
  PROVE  ServedThroughCurrentQueue'
<1>1. CASE PublishExternalState(disc)
  <2>1. /\ entries' = { [ e EXCEPT !.pending = ~HasRoom(e) ] : e \in entries }
        /\ UNCHANGED << pid, stream >>
    BY <1>1 DEF PublishExternalState, readerVars
  <2>2. ASSUME NEW e \in entries'
        PROVE  \E old \in entries : e.owner = old.owner /\ e.queue = old.queue
    <3>1. PICK old \in entries : e = [ old EXCEPT !.pending = ~HasRoom(old) ]
      BY <2>1
    <3> DEFINE b == ~HasRoom(old)
    <3>2. old \in Entry /\ e = [ old EXCEPT !.pending = b ]
      BY <3>1 DEF FanoutTypeOK
    <3> HIDE DEF b
    <3>3. e.owner = old.owner /\ e.queue = old.queue
      BY <3>2 DEF Entry
    <3> QED
      BY <3>3
  <2> QED
    BY <2>1, <2>2 DEF ServedThroughCurrentQueue
<1>2. CASE DrainExternalStates(r)
  BY <1>2 DEF DrainExternalStates, publisherVars, ServedThroughCurrentQueue
<1>3. CASE ReaderDies(r)
  <2>1. /\ pid' = [ pid EXCEPT ![r] = pids + 1 ] /\ stream' = [ stream EXCEPT ![r] = 0 ]
        /\ UNCHANGED entries
    BY <1>3 DEF ReaderDies, publisherVars
  <2>2. \A r1 \in Reader : r1 # r => pid'[r1] = pid[r1] /\ stream'[r1] = stream[r1]
    BY <2>1 DEF FanoutTypeOK
  <2>3. stream'[r] = 0
    BY <2>1 DEF FanoutTypeOK
  <2> QED
    BY <2>1, <2>2, <2>3 DEF ServedThroughCurrentQueue
<1> QED
  BY <1>1, <1>2, <1>3

(* A living process is served through exactly the queue it is draining     *)
(* (openExternalStateStream replaces the caller's older entry).            *)
THEOREM ReadersAreServed == FanoutSpec => []ServedThroughCurrentQueue
<1>1. FanoutInit => ServedThroughCurrentQueue
  BY DEF FanoutInit, ServedThroughCurrentQueue
<1>2. FanoutTypeOK /\ ServedThroughCurrentQueue /\ [FanoutNext]_fanoutVars
        => ServedThroughCurrentQueue'
  <2> SUFFICES ASSUME FanoutTypeOK, ServedThroughCurrentQueue, [FanoutNext]_fanoutVars
               PROVE  ServedThroughCurrentQueue'
    OBVIOUS
  <2>1. CASE \E disc \in BOOLEAN : PublishExternalState(disc)
    <3>1. CASE Reader = {}
      BY <3>1 DEF ServedThroughCurrentQueue
    <3> QED
      BY <2>1, <3>1, OthersServe
  <2>2. CASE UNCHANGED fanoutVars
    BY <2>2 DEF fanoutVars, publisherVars, readerVars, ServedThroughCurrentQueue
  <2> QED
    BY <2>1, <2>2, OpenServes, OthersServe DEF FanoutNext
<1> QED
  BY <1>1, <1>2, FanoutTypes, PTL DEF FanoutSpec

(* A stream that is opened is empty, and owes its reader nothing           *)
(* (openExternalStateStream).                                              *)
LEMMA OpenLosesNothing ==
  ASSUME FanoutTypeOK, FanoutInv, NEW r \in Reader, OpenExternalStateStream(r)
  PROVE  FanoutInv'
<1>1. /\ opens < MaxOpens /\ opens' = opens + 1 /\ UNCHANGED << published, fmq, holeSeen >>
      /\ entries' = MakeRoom(OthersEntries(pid[r]))
                    \union { [ owner |-> pid[r], queue |-> opens + 1, pending |-> FALSE ] }
      /\ stream' = [ stream EXCEPT ![r] = opens + 1 ] /\ lastRead' = [ lastRead EXCEPT ![r] = 0 ]
  BY DEF OpenExternalStateStream
<1>2. opens \in Nat /\ MaxOpens \in Nat /\ opens + 1 \in 1 .. MaxOpens
  BY <1>1, FanoutNumbers DEF FanoutTypeOK
<1>3. /\ stream'[r] = opens + 1 /\ lastRead'[r] = 0
      /\ \A r1 \in Reader : /\ stream[r1] \in 0 .. opens
                            /\ r1 # r => stream'[r1] = stream[r1] /\ lastRead'[r1] = lastRead[r1]
  BY <1>1 DEF FanoutTypeOK
<1>4. fmq[opens + 1] = << >>
  BY <1>2 DEF FanoutInv
<1>5. \A q \in 1 .. MaxOpens : q > opens' => fmq'[q] = << >>
  BY <1>1, <1>2 DEF FanoutInv
<1>6. \A r1, r2 \in Reader : stream'[r1] = stream'[r2] /\ stream'[r1] # 0 => r1 = r2
  BY <1>2, <1>3 DEF FanoutInv
<1>7. ~Unflagged(r)' /\ Newest(r)' = 0
  BY <1>1, <1>3, <1>4 DEF Unflagged, Newest
<1>8. ASSUME NEW r1 \in Reader \ {r}, stream[r1] # 0
      PROVE  /\ ~Unflagged(r1)'
             /\ \/ Newest(r1)' \in { 0, published }
                \/ \A e \in entries' : e.queue = stream'[r1] => e.pending
  <2>1. Unflagged(r1)' = Unflagged(r1) /\ Newest(r1)' = Newest(r1)
    BY <1>1, <1>3 DEF Unflagged, Newest
  <2>2. ASSUME NEW e \in entries', e.queue = stream'[r1] PROVE e \in entries
    <3>1. MakeRoom(OthersEntries(pid[r])) \subseteq entries
      BY RoomIsMade DEF OthersEntries
    <3>2. e.queue \in 0 .. opens
      BY <1>3, <2>2
    <3> QED
      BY <1>1, <1>2, <3>1, <3>2
  <2> QED
    BY <1>3, <1>8, <2>1, <2>2 DEF FanoutInv
<1> QED
  BY <1>1, <1>3, <1>5, <1>6, <1>7, <1>8 DEF FanoutInv

(* A record that finds no room is remembered by the entry; one that finds  *)
(* room carries the flag if the entry remembers any (PublishExternalState).*)
LEMMA PublishLosesNothing ==
  ASSUME FanoutTypeOK, FanoutInv, NEW disc \in BOOLEAN, PublishExternalState(disc)
  PROVE  FanoutInv'
<1>1. /\ published' = published + 1
      /\ fmq' = [ q \in DOMAIN fmq |-> Written(q, disc) ]
      /\ entries' = { [ e EXCEPT !.pending = ~HasRoom(e) ] : e \in entries }
      /\ UNCHANGED << opens, stream, lastRead, holeSeen >>
  BY DEF PublishExternalState, readerVars
<1>2. /\ published \in Nat /\ opens \in Nat /\ MaxOpens \in Nat /\ opens <= MaxOpens
      /\ DOMAIN fmq = 1 .. MaxOpens
  BY FanoutNumbers DEF FanoutTypeOK
<1>3. \A e \in entries : e.queue \in 1 .. opens
  BY DEF FanoutTypeOK, Entry
<1>4. \A q \in 1 .. MaxOpens : q > opens' => fmq'[q] = << >>
  <2>1. ASSUME NEW q \in 1 .. MaxOpens, q > opens PROVE Written(q, disc) = << >>
    <3>1. { e \in entries : e.queue = q /\ HasRoom(e) } = {}
      BY <1>2, <1>3, <2>1
    <3> QED
      BY <2>1, <3>1 DEF Written, FanoutInv
  <2> QED
    BY <1>1, <1>2, <2>1
<1>5. ASSUME NEW r \in Reader, stream[r] # 0
      PROVE  /\ ~Unflagged(r)'
             /\ \/ Newest(r)' \in { 0, published' }
                \/ \A e \in entries' : e.queue = stream'[r] => e.pending
  <2> DEFINE q == stream[r]
             serving == { e \in entries : e.queue = q /\ HasRoom(e) }
             flag == disc \/ \E e \in serving : e.pending
             new == [ n |-> published + 1, disc |-> flag ]
  <2>1. q \in 1 .. MaxOpens /\ fmq[q] \in Seq(Record) /\ lastRead[r] \in 0 .. published
    BY <1>2, <1>5 DEF FanoutTypeOK
  <2>2. fmq'[q] = IF serving = {} THEN fmq[q] ELSE Append(fmq[q], new)
    BY <1>1, <1>2, <2>1 DEF Written
  <2>3. ASSUME NEW e \in entries', e.queue = q
        PROVE  \E old \in entries : old.queue = q /\ e.pending = ~HasRoom(old)
    <3>1. PICK old \in entries : e = [ old EXCEPT !.pending = ~HasRoom(old) ]
      BY <1>1, <2>3
    <3> DEFINE b == ~HasRoom(old)
    <3>2. old \in Entry /\ e = [ old EXCEPT !.pending = b ]
      BY <3>1 DEF FanoutTypeOK
    <3> HIDE DEF b
    <3>3. e.queue = old.queue /\ e.pending = b
      BY <3>2 DEF Entry
    <3> QED
      BY <2>3, <3>3, Zenon DEF b
  <2>4. /\ ~Unflagged(r)
        /\ Newest(r) \in { 0, published } \/ \A e \in entries : e.queue = q => e.pending
    BY <1>5 DEF FanoutInv
  <2>5. CASE serving = {}
    <3>1. Unflagged(r)' = Unflagged(r)
      BY <1>1, <2>2, <2>5 DEF Unflagged
    <3>2. \A e \in entries' : e.queue = q => e.pending
      BY <2>3, <2>5, Zenon
    <3> QED
      BY <1>1, <2>4, <3>1, <3>2
  <2>6. CASE serving # {}
    <3> HIDE DEF new, serving
    <3>1. fmq'[q] = Append(fmq[q], new) /\ new.n = published + 1
      BY <2>2, <2>6 DEF new
    <3>2. /\ Len(fmq'[q]) = Len(fmq[q]) + 1 /\ fmq'[q][Len(fmq[q]) + 1] = new
          /\ DOMAIN fmq'[q] = 1 .. Len(fmq[q]) + 1 /\ fmq'[q] # << >>
          /\ \A i \in 1 .. Len(fmq[q]) : fmq'[q][i] = fmq[q][i]
          /\ Len(fmq[q]) \in Nat /\ DOMAIN fmq[q] = 1 .. Len(fmq[q])
      <4> DEFINE before == fmq[q]
                 R == Record \union { new }
      <4>1. before \in Seq(R) /\ new \in R /\ fmq'[q] = Append(before, new)
        BY <2>1, <3>1
      <4> HIDE DEF before, R, q
      <4>2. Append(before, new) # << >>
        BY <4>1, AppendProperties
      <4> QED
        BY <4>1, <4>2 DEF before
    <3>3. Newest(r)' = published'
      BY <1>1, <3>1, <3>2 DEF Newest, Last
    <3>4. Newest(r) \in { 0, published } \/ new.disc
      <4>1. PICK e \in entries : e.queue = q /\ e \in serving
        BY <2>6 DEF serving
      <4>2. CASE e.pending
        BY <4>1, <4>2 DEF new
      <4>3. CASE ~e.pending
        BY <2>4, <4>1, <4>3
      <4> QED
        BY <4>2, <4>3
    <3>5. ~Unflagged(r)'
      <4> DEFINE before(i) == IF i = 1 THEN lastRead[r] ELSE fmq[q][i - 1].n
                 beforeNow(i) == IF i = 1 THEN lastRead[r] ELSE fmq'[q][i - 1].n
      <4>1. \A i \in 1 .. Len(fmq[q]) :
              before(i) = 0 \/ fmq[q][i].n = before(i) + 1 \/ fmq[q][i].disc
        BY <2>4, <3>2 DEF Unflagged
      <4>2. ASSUME NEW i \in 1 .. Len(fmq[q]) + 1
            PROVE  beforeNow(i) = 0 \/ fmq'[q][i].n = beforeNow(i) + 1 \/ fmq'[q][i].disc
        <5>1. CASE i \in 1 .. Len(fmq[q])
          <6>1. beforeNow(i) = before(i) /\ fmq'[q][i] = fmq[q][i]
            BY <3>2, <5>1
          <6> QED
            BY <4>1, <5>1, <6>1
        <5>2. CASE i = Len(fmq[q]) + 1
          <6>1. beforeNow(i) = Newest(r)
            <7>1. CASE fmq[q] = << >>
              BY <3>2, <5>2, <7>1 DEF Newest
            <7>2. CASE fmq[q] # << >>
              <8>1. Len(fmq[q]) \in 1 .. Len(fmq[q]) /\ i # 1 /\ i - 1 = Len(fmq[q])
                BY <2>1, <5>2, <7>2
              <8> QED
                BY <3>2, <7>2, <8>1 DEF Newest, Last
            <7> QED
              BY <7>1, <7>2
          <6>2. fmq'[q][i] = new
            BY <3>2, <5>2
          <6> HIDE DEF beforeNow
          <6> QED
            BY <3>1, <3>4, <6>1, <6>2
        <5> QED
          BY <3>2, <5>1, <5>2
      <4>3. stream'[r] = q /\ lastRead'[r] = lastRead[r]
        BY <1>1
      <4> HIDE DEF before, q
      <4> QED
        BY <3>2, <4>2, <4>3 DEF Unflagged
    <3> QED
      BY <3>3, <3>5
  <2> QED
    BY <2>5, <2>6
<1> QED
  BY <1>1, <1>4, <1>5 DEF FanoutInv

(* A reader that takes everything there was remembers the last of it       *)
(* (DrainExternalStates).                                                  *)
LEMMA DrainLosesNothing ==
  ASSUME FanoutTypeOK, FanoutInv, NEW r \in Reader, DrainExternalStates(r)
  PROVE  FanoutInv'
<1>1. /\ stream[r] # 0 /\ fmq[stream[r]] # << >>
      /\ lastRead' = [ lastRead EXCEPT ![r] = Last(fmq[stream[r]]).n ]
      /\ holeSeen' = (holeSeen \/ Unflagged(r))
      /\ fmq' = [ fmq EXCEPT ![stream[r]] = << >> ]
      /\ UNCHANGED << entries, opens, published, stream >>
  BY DEF DrainExternalStates, publisherVars
<1>2. /\ DOMAIN fmq = 1 .. MaxOpens /\ DOMAIN lastRead = Reader /\ stream[r] \in 1 .. MaxOpens
      /\ \A r1 \in Reader : stream[r1] \in 0 .. MaxOpens
  BY <1>1, FanoutNumbers DEF FanoutTypeOK
<1>3. ~holeSeen'
  BY <1>1 DEF FanoutInv
<1>4. fmq'[stream[r]] = << >> /\ \A q \in 1 .. MaxOpens : q # stream[r] => fmq'[q] = fmq[q]
  BY <1>1, <1>2
<1>5. ~Unflagged(r)' /\ Newest(r)' = Newest(r)
  BY <1>1, <1>2, <1>4 DEF Unflagged, Newest
<1>6. ASSUME NEW r1 \in Reader \ {r}, stream[r1] # 0
      PROVE  Unflagged(r1)' = Unflagged(r1) /\ Newest(r1)' = Newest(r1)
  <2>1. stream[r1] # stream[r] /\ stream[r1] \in 1 .. MaxOpens
    BY <1>1, <1>2, <1>6, FanoutNumbers DEF FanoutInv
  <2>2. fmq'[stream[r1]] = fmq[stream[r1]] /\ lastRead'[r1] = lastRead[r1]
    BY <1>1, <1>2, <1>4, <2>1
  <2> QED
    BY <1>1, <2>2 DEF Unflagged, Newest
<1>7. \A q \in 1 .. MaxOpens : q > opens' => fmq'[q] = << >>
  BY <1>1, <1>4 DEF FanoutInv
<1> QED
  BY <1>1, <1>3, <1>5, <1>6, <1>7 DEF FanoutInv

(* A reader that dies reads no more; the others do not notice.             *)
LEMMA DyingLosesNothing ==
  ASSUME FanoutTypeOK, FanoutInv, NEW r \in Reader, ReaderDies(r)
  PROVE  FanoutInv'
<1>1. /\ stream' = [ stream EXCEPT ![r] = 0 ] /\ lastRead' = [ lastRead EXCEPT ![r] = 0 ]
      /\ UNCHANGED << entries, opens, published, fmq, holeSeen >>
  BY DEF ReaderDies, publisherVars
<1>2. /\ stream'[r] = 0
      /\ \A r1 \in Reader \ {r} : stream'[r1] = stream[r1] /\ lastRead'[r1] = lastRead[r1]
  BY <1>1 DEF FanoutTypeOK
<1>3. \A r1 \in Reader \ {r} : Unflagged(r1)' = Unflagged(r1) /\ Newest(r1)' = Newest(r1)
  BY <1>1, <1>2 DEF Unflagged, Newest
<1> QED
  BY <1>1, <1>2, <1>3 DEF FanoutInv

(* No reader ever takes a record that follows a lost one without being     *)
(* told, however full its queue was and whenever it drains                 *)
(* (pending_discontinuity in PublishExternalState).                        *)
THEOREM LossesAreFlagged == FanoutSpec => []NoSilentLoss
<1>1. FanoutInit => FanoutInv
  BY DEF FanoutInit, FanoutInv
<1>2. FanoutTypeOK /\ FanoutInv /\ [FanoutNext]_fanoutVars => FanoutInv'
  <2> SUFFICES ASSUME FanoutTypeOK, FanoutInv, [FanoutNext]_fanoutVars PROVE FanoutInv'
    OBVIOUS
  <2>1. CASE UNCHANGED fanoutVars
    BY <2>1 DEF fanoutVars, publisherVars, readerVars, FanoutInv, Unflagged, Newest
  <2> QED
    BY <2>1, OpenLosesNothing, PublishLosesNothing, DrainLosesNothing, DyingLosesNothing
       DEF FanoutNext
<1>3. FanoutInv => NoSilentLoss
  BY DEF FanoutInv, NoSilentLoss
<1> QED
  BY <1>1, <1>2, <1>3, FanoutTypes, PTL DEF FanoutSpec

=============================================================================
