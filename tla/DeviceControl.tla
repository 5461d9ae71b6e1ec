---------------------------- MODULE DeviceControl ----------------------------
(***************************************************************************)
(* What the control worker does with a host's request, from its header to  *)
(* the answer: DeviceControlHandler.cpp and the handlers of the display    *)
(* topology, the simulation, the encoders and the power, radio and Wi-Fi   *)
(* services, between HostControlChannel.cpp and the state they command.    *)
(*                                                                         *)
(* One worker serves one host at a time.  The power, radio and Wi-Fi       *)
(* handlers are alike: each keeps a proxy of a service in another process, *)
(* which may die between any two steps and be started again.  Nothing      *)
(* links to its death, so that a proxy may seem alive until a call fails.  *)
(* The time of the authority lease is ControlLease's: here it is held,     *)
(* running since the host left, or gone.                                   *)
(*                                                                         *)
(* A behaviour keeps to the areas chosen at its start, with at most one of *)
(* the three services among them: they share nothing but the worker.       *)
(***************************************************************************)
EXTENDS ControlFormats, DisplayTopology

CONSTANTS
  AreaSets,           \* the areas a host may use in one behaviour
  Payloads,           \* per command: the payloads a host may send
  OddPayloads,        \* per command: payloads with something wrong
  Contents,           \* per query: what the state queried may hold
  MaxInstances        \* model bound: lives of a service

\* What the owners of the states queried keep to.  An encoder's configuration
\* is complete.  Strings are shorter than a text FHC1 can carry, lists no longer
\* than the capabilities say, numbers no longer than a request's.  SMS events and
\* what the HALs publish are cut to what fits, or checked, by the code itself.
ASSUME ContentsAreKept ==
  /\ \A x \in Contents["SetVideoEncoderConfig"] : x.known /\ x.generationFits
  /\ \A x \in Contents["SetAudioEncoderConfig"] : x.known /\ x.bitrate # 0 /\ x.codec # 0
  /\ \A x \in Contents["GetRadioProfile"] : x \in Seq(0 .. 1024) /\ Len(x) <= 10
  /\ Contents["ListRadioCells"] \subseteq 0 .. 32
  /\ \A x \in Contents["ListRadioCalls"] : x \in Seq(0 .. 20) /\ Len(x) <= 8
  /\ \A x \in Contents["ListRadioSmsEvents"] : x \in Seq(Nat)
  /\ \A x \in Contents["GetWifiProfile"] :
       x.country = 2 /\ x.accessPoints <= 64 /\ ParseMacAddress(x.station)
  /\ \A x \in Contents["GetWifiSnapshot"] :
       x.ssid <= 32 /\ (x.connected => ParseMacAddress(x.bssid))
  /\ \A x \in Contents["ListWifiAccessPoints"] :
       /\ Len(x) \in Nat /\ Len(x) <= 64
       /\ \A i \in DOMAIN x : WriteAccessPointRecord(x[i])
  /\ \A x \in Contents["ListSensors"] \union Contents["GetSensorSnapshot"] : x \in Seq(Nat)
  /\ Contents["GetGnssSnapshot"] \subseteq Nat

ListedDisplays ==
  [ id : Nat, port : Nat, width : Nat, height : Nat, dpi : Nat, active : Nat,
    rates : Seq(Nat), name : Seq(STRING) ]

DisplayRecords == [ size : Nat, rates : Nat, name : Nat, zero : BOOLEAN, display : ListedDisplays ]

\* The bytes of a list of displays: a header, then records, one behind the other.
\* One that is as long as its numbers of rates and of name bytes make it has room
\* for just these, and no record lies behind one that ends where the payload does.
IsDisplayPayload(p) ==
  /\ p = [ size |-> p.size, zero |-> p.zero, count |-> p.count, records |-> p.records ]
  /\ p.size \in Nat /\ p.size <= MaxPayload /\ p.zero \in BOOLEAN /\ p.count \in Nat
  /\ p.records \in Seq(DisplayRecords)
  /\ \A i \in DOMAIN p.records :
       LET r == p.records[i] IN
       r.size = Aligned(36 + 4 * r.rates + r.name) =>
         r.rates = Len(r.display.rates) /\ r.name = Len(r.display.name)
  /\ \A n \in 0 .. Len(p.records) :
       p.size = 8 + Total([ i \in 1 .. n |-> p.records[i].size ]) => n = Len(p.records)

ASSUME DisplaysAreListed ==
  \A p \in Payloads["ReplaceDisplayTopology"] \union OddPayloads["ReplaceDisplayTopology"] :
    IsDisplayPayload(p)

VARIABLES
  areas,              \* the areas of this behaviour
  connected,          \* is a host connected?
  authority,          \* the authority lease: "none", "held", "running"
  phase,              \* where the worker is
  request, response,  \* what it works on
  untouched,          \* nothing was asked for so far (parsers keep nothing,
                      \* so odd requests only come then)
  config,             \* SimulationStateService::config_
  service,            \* the life of the service that is up; 0: none
  lives,              \* how many lives it has had
  proxy,              \* service_: the life the handler's proxy is of; 0: none
  excuse,             \* history: has the service been down or refused a call
                      \* since the last internal error was answered?
  answered,           \* history: the state that the answers, and the expiries
                      \* of the lease, amount to
  mine                \* history: areas this connection was answered for

simulationVars == << config >>
serviceVars == << service, lives, proxy, excuse >>
hostVars == << areas, connected, authority, untouched >>
historyVars == << answered, mine >>
workerVars == << phase, request, response >>
vars == << topologyVars, simulationVars, serviceVars, hostVars, historyVars, workerVars >>

Remote == { "power", "radio", "wifi" }

-----------------------------------------------------------------------------
(* DeviceControlHandler: which handler has a command.  The topology, audio *)
(* and video handlers have one each.                                       *)

Sets ==
  [ topology |-> { "ReplaceDisplayTopology" },
    audio |-> { "SetAudioEncoderConfig" },
    video |-> { "SetVideoEncoderConfig" },
    simulation |-> { "SetMotionConfig", "SetEnvironmentConfig", "SetGnssConfig",
      "PushExternalPoseBatch", "PushExternalGnssBatch",
      "ResetSensorSimulation", "ResetGnssSimulation" },
    power |-> { "SetPowerControl", "ReleasePowerControl" },
    radio |-> { "SetRadioRegistration", "SetRadioSignal", "ReplaceRadioCells", "SetSimState",
      "InjectIncomingCall", "SetRadioCallState", "InjectIncomingSms", "ReleaseRadioControl",
      "PushRadioSampleBatch" },
    wifi |-> { "SetWifiEnabled", "ReplaceWifiAccessPoints", "SetWifiConnection", "SetWifiLink",
      "ReleaseWifiControl", "PushWifiSampleBatch" } ]

Gets ==
  [ topology |-> {}, audio |-> {}, video |-> {},
    simulation |-> { "GetSensorSimulationConfig", "ListSensors", "GetSensorSnapshot",
      "GetGnssConfig", "GetGnssCapabilities", "GetGnssSnapshot" },
    power |-> { "GetPowerSnapshot", "GetPowerCapabilities" },
    radio |-> { "GetRadioProfile", "GetRadioSnapshot", "ListRadioCells", "ListRadioCalls",
      "ListRadioSmsEvents", "GetRadioCapabilities" },
    wifi |-> { "GetWifiProfile", "GetWifiSnapshot", "ListWifiAccessPoints",
      "GetWifiCapabilities" } ]

CommandsOf(area) == Sets[area] \union Gets[area]

ASSUME AreasAreKnown == UNION AreaSets \subseteq DOMAIN Sets

\* What a parser starts from: a payload has a size, and a count in its place.
ASSUME PayloadsAreSized ==
  \A area \in UNION AreaSets : \A c \in CommandsOf(area) : \A p \in Payloads[c] \union OddPayloads[c] :
    p.size \in Nat /\ p.count \in Nat

\* The layouts that FHC1.md gives: requests of one size, and lists of records.
FixedRequests ==
  [ SetAudioEncoderConfig |-> 16, SetVideoEncoderConfig |-> 48,
    SetMotionConfig |-> 24, SetEnvironmentConfig |-> 24, SetGnssConfig |-> 56,
    SetPowerControl |-> 24,
    SetRadioRegistration |-> 24, SetRadioSignal |-> 32, SetSimState |-> 16, SetRadioCallState |-> 24,
    SetWifiEnabled |-> 16, SetWifiConnection |-> 16, SetWifiLink |-> 32 ]

ListRequests ==
  [ PushExternalPoseBatch |-> [ header |-> 8, record |-> 56 ],
    PushExternalGnssBatch |-> [ header |-> 8, record |-> 56 ],
    ReplaceRadioCells |-> [ header |-> 16, record |-> 60 ],
    ReplaceWifiAccessPoints |-> [ header |-> 16, record |-> 72 ],
    PushWifiSampleBatch |-> [ header |-> 16, record |-> 32 ] ]

\* A payload with room for just the records it counts has just these.
ASSUME RecordsAreListed ==
  \A area \in UNION AreaSets : \A c \in CommandsOf(area) \cap DOMAIN ListRequests :
    \A p \in Payloads[c] \union OddPayloads[c] :
      p.size = ListRequests[c].header + p.count * ListRequests[c].record => Len(p.records) = p.count

\* Answered from constants, whether the service is up or not.
Capabilities == { "GetPowerCapabilities", "GetRadioCapabilities", "GetWifiCapabilities" }

Unknown == "GenericError"

\* The radio has no state a batch of samples could set.
Unsupported == { "PushRadioSampleBatch" }

Handling(area) ==
  /\ phase = "received" /\ request.id # 0 /\ IsRequestRoute(request.header.route)
  /\ request.command \in CommandsOf(area) \ Unsupported

Reply(r) == response' = r /\ phase' = "answered" /\ UNCHANGED request

Refusal(why) == SerializeControlErrorResponse(why)

\* A request that reaches no handler, or that the handler will not have.
Refuse ==
  /\ phase = "received"
  /\ \/ request.id = 0 /\ Reply(Refusal("invalid id"))
     \/ /\ request.id # 0
        /\ \/ ~IsRequestRoute(request.header.route)
           \/ \A area \in areas : request.command \notin CommandsOf(area)
           \/ request.command \in Unsupported
        /\ Reply(Refusal("unsupported"))
  /\ UNCHANGED << topologyVars, simulationVars, serviceVars, hostVars, historyVars >>

-----------------------------------------------------------------------------
(* DisplayTopologyControlHandler over the controller and the state service *)

HandleTopology ==
  /\ Handling("topology")
  /\ LET verdict == ParseReplaceDisplayTopologyRequest(request.payload)
         asked == ParsedDisplays(request.payload)
         result == ReplaceResult(asked)
     IN \/ /\ ~verdict.ok
           /\ Reply(Refusal("malformed"))
           /\ UNCHANGED << topologyVars, answered >>
        \/ /\ verdict.ok
           /\ ReplaceExternalDisplays(asked)
           /\ Reply(SerializeReplaceDisplayTopologyResponse(result))
           /\ answered' = IF result \in { "applied", "unchanged" }
                          THEN [ answered EXCEPT !.displays = Sorted(asked) ] ELSE answered
  /\ UNCHANGED << simulationVars, serviceVars, hostVars, mine >>

\* The listeners are told before the answer goes out.
TellTopology ==
  /\ phase \in { "answered", "expired topology" }
  /\ \E l \in Listener : TellListener(l)
  /\ UNCHANGED << simulationVars, serviceVars, hostVars, historyVars, workerVars >>

OthersMove ==
  /\ "topology" \in areas
  /\ \E l \in Listener : ListenerStep(l)
  /\ UNCHANGED << simulationVars, serviceVars, hostVars, historyVars, workerVars >>

-----------------------------------------------------------------------------
(* The encoders' handlers: what Apply finds and makes of it is the         *)
(* backend's and the audio session's business.                             *)

HandleEncoder ==
  \/ /\ Handling("video")
     /\ \/ /\ ~ParseVideoEncoderConfigRequest(request.payload).ok
           /\ Reply(Refusal("malformed"))
        \/ /\ ParseVideoEncoderConfigRequest(request.payload).ok
           /\ \/ Reply(Refusal("internal"))
              \/ \E state \in Contents["SetVideoEncoderConfig"] :
                   Reply(SerializeVideoEncoderConfigResponse(state))
  \/ /\ Handling("audio")
     /\ \/ /\ ~ParseAudioEncoderConfigRequest(request.payload).ok
           /\ Reply(Refusal("malformed"))
        \/ /\ ParseAudioEncoderConfigRequest(request.payload).ok
           /\ \/ Reply(Refusal("internal"))
              \/ \E state \in Contents["SetAudioEncoderConfig"] :
                   Reply(SerializeAudioEncoderConfigResponse(state))

HandleEncoders ==
  HandleEncoder /\ UNCHANGED << topologyVars, simulationVars, serviceVars, hostVars, historyVars >>

-----------------------------------------------------------------------------
(* SimulationController: what becomes of the configuration.  Motion is a   *)
(* source and a profile, GNSS a source, whether it is on, and an anchor.   *)
(* All three kinds share the duration of the transition.                   *)

DefaultConfig ==
  [ motion |-> << 0, 0 >>, environment |-> << 200 >>, gnss |-> << 0, TRUE, "Tokyo" >>, transition |-> 1000 ]

ValidTransition(v) == v.transition <= 60000

ValidConfig(part, v) ==
  /\ ValidTransition(v)
  /\ CASE part = "motion" -> v.value[1] <= 1 /\ v.value[2] <= 3
       [] part = "environment" -> v.value[1] \in 0 .. 100000
       [] part = "gnss" -> v.value[1] <= 1 /\ v.value[3] # "off the map"

\* The part of the configuration a request is about, and what it becomes.
With(c, part, v) == [ c EXCEPT ![part] = v.value, !.transition = v.transition ]

\* Compares what the request is mostly about.
SameConfig_ValueOnly(part, v) == config[part] = v.value

SameConfig(part, v) == With(config, part, v) = config

SetConfig(part, v) ==
  LET result == IF ~ValidConfig(part, v) THEN "invalid"
                ELSE IF SameConfig(part, v) THEN "unchanged" ELSE "applied"
  IN  /\ config' = IF result = "applied" THEN With(config, part, v) ELSE config
      /\ answered' = IF result = "invalid" THEN answered
                     ELSE [ answered EXCEPT !.config = With(@, part, v) ]
      /\ Reply(SerializeSimulationUpdateResponse(result))

ResetSensors(c) ==
  [ DefaultConfig EXCEPT !.gnss = c.gnss ]

ResetGnss(c) ==
  [ c EXCEPT !.gnss = DefaultConfig.gnss, !.transition = DefaultConfig.transition ]

Reset(c) == IF request.command = "ResetGnssSimulation" THEN ResetGnss(c) ELSE ResetSensors(c)

ResetConfig ==
  /\ config' = Reset(config)
  /\ answered' = [ answered EXCEPT !.config = Reset(@) ]
  /\ Reply(SerializeSimulationUpdateResponse("applied"))

\* Gives up if only one of the sources is external.
Autonomous_BothOnly(c) ==
  IF c.motion[1] = 1 /\ c.gnss[1] = 1
  THEN [ c EXCEPT !.motion[1] = 0, !.gnss[1] = 0 ] ELSE c

Autonomous(c) == [ c EXCEPT !.motion[1] = 0, !.gnss[1] = 0 ]

\* A batch stops at the first record that cannot be published.
PublishExternalStates ==
  \E applied \in 0 .. request.payload.count :
    Reply(SerializeSimulationUpdateResponse(
            IF applied = request.payload.count THEN "applied" ELSE "invalid"))

SimulationPart ==
  [ SetMotionConfig |-> "motion", SetEnvironmentConfig |-> "environment", SetGnssConfig |-> "gnss" ]

SimulationParse(p) ==
  CASE request.command = "SetMotionConfig" -> ParseMotionConfigRequest(p)
    [] request.command = "SetEnvironmentConfig" -> ParseEnvironmentConfigRequest(p)
    [] request.command = "SetGnssConfig" -> ParseGnssConfigRequest(p)
    [] request.command = "PushExternalPoseBatch" -> ParseExternalPoseBatch(p)
    [] request.command = "PushExternalGnssBatch" -> ParseExternalGnssBatch(p)
    [] OTHER -> IsEmpty(p)

\* What the HALs may have published: publishSensorCatalog and its kind.
Published(query, x) ==
  CASE query = "ListSensors" -> Len(x) \in 0 .. 128 /\ \A i \in DOMAIN x : x[i] \in 1 .. 128
    [] query = "GetSensorSnapshot" -> Len(x) <= 128 /\ \A i \in DOMAIN x : x[i] <= 16
    [] query = "GetGnssSnapshot" -> x <= 64

SimulationReply ==
  CASE request.command = "GetSensorSimulationConfig" -> { SerializeSensorConfigResponse }
    [] request.command = "GetGnssConfig" -> { SerializeGnssConfigResponse }
    [] request.command = "GetGnssCapabilities" -> { SerializeGnssCapabilitiesResponse }
    [] OTHER -> LET held == { x \in Contents[request.command] : Published(request.command, x) } IN
         CASE request.command = "ListSensors" -> { SerializeSensorCatalogResponse(x) : x \in held }
           [] request.command = "GetSensorSnapshot" -> { SerializeSensorSnapshotResponse(x) : x \in held }
           [] request.command = "GetGnssSnapshot" -> { SerializeGnssSnapshotResponse(x) : x \in held }

HandleSimulation ==
  /\ Handling("simulation")
  /\ \/ ~SimulationParse(request.payload).ok /\ Reply(Refusal("malformed"))
          /\ UNCHANGED << config, answered >>
     \/ /\ SimulationParse(request.payload).ok
        /\ \/ /\ request.command \in DOMAIN SimulationPart
              /\ SetConfig(SimulationPart[request.command], request.payload.values)
           \/ request.command \in { "ResetSensorSimulation", "ResetGnssSimulation" } /\ ResetConfig
           \/ /\ request.command \in { "PushExternalPoseBatch", "PushExternalGnssBatch" }
              /\ PublishExternalStates /\ UNCHANGED << config, answered >>
           \/ /\ request.command \in Gets.simulation
              /\ \E r \in SimulationReply : Reply(r)
              /\ UNCHANGED << config, answered >>
  /\ UNCHANGED << topologyVars, serviceVars, hostVars, mine >>

-----------------------------------------------------------------------------
(* The power, radio and Wi-Fi handlers.                                    *)

PowerParse(p) ==
  IF request.command = "SetPowerControl" THEN ParseManualPowerRequest(p) ELSE IsEmpty(p)

RadioParse(p) ==
  CASE request.command = "SetRadioRegistration" -> ParseRegistrationRequest(p)
    [] request.command = "SetRadioSignal" -> ParseSignalRequest(p)
    [] request.command = "ReplaceRadioCells" -> ParseCellsRequest(p)
    [] request.command = "SetSimState" -> ParseSimStateRequest(p)
    [] request.command = "InjectIncomingCall" -> ParseIncomingCallRequest(p)
    [] request.command = "SetRadioCallState" -> ParseCallStateRequest(p)
    [] request.command = "InjectIncomingSms" -> ParseIncomingSmsRequest(p)
    [] OTHER -> IsEmpty(p)

WifiParse(p) ==
  CASE request.command = "SetWifiEnabled" -> ParseEnabledRequest(p)
    [] request.command = "ReplaceWifiAccessPoints" -> ParseAccessPointsRequest(p)
    [] request.command = "SetWifiConnection" -> ParseConnectionRequest(p)
    [] request.command = "SetWifiLink" -> ParseLinkRequest(p)
    [] request.command = "PushWifiSampleBatch" -> ParseSamplesRequest(p)
    [] OTHER -> IsEmpty(p)

RemoteParse(p) ==
  IF request.command \in CommandsOf("power") THEN PowerParse(p)
  ELSE IF request.command \in CommandsOf("radio") THEN RadioParse(p) ELSE WifiParse(p)

InternalFromService ==
  response.kind = "internal" /\ \E area \in Remote : request.command \in CommandsOf(area)

Results == { "applied", "unchanged", "invalid" }

PowerReply ==
  IF request.command = "GetPowerSnapshot" THEN { SerializePowerSnapshotResponse }
  ELSE { SerializePowerUpdateResponse(result) : result \in Results }

RadioReply ==
  CASE request.command = "GetRadioSnapshot" -> { SerializeRadioSnapshotResponse }
    [] request.command = "GetRadioProfile" ->
         { SerializeRadioProfileResponse(x) : x \in Contents["GetRadioProfile"] }
    [] request.command = "ListRadioCells" ->
         { SerializeRadioCellsResponse(x) : x \in Contents["ListRadioCells"] }
    [] request.command = "ListRadioCalls" ->
         { SerializeRadioCallsResponse(x) : x \in Contents["ListRadioCalls"] }
    [] request.command = "ListRadioSmsEvents" ->
         { SerializeRadioSmsEventsResponse(x) : x \in Contents["ListRadioSmsEvents"] }
    [] OTHER -> { SerializeRadioUpdateResponse(result) : result \in Results }

WifiReply ==
  CASE request.command = "GetWifiProfile" ->
         { SerializeWifiProfileResponse(x) : x \in Contents["GetWifiProfile"] }
    [] request.command = "GetWifiSnapshot" ->
         { SerializeWifiSnapshotResponse(x) : x \in Contents["GetWifiSnapshot"] }
    [] request.command = "ListWifiAccessPoints" ->
         { SerializeWifiAccessPointsResponse(x) : x \in Contents["ListWifiAccessPoints"] }
    [] OTHER -> { SerializeWifiUpdateResponse(result) : result \in Results }

CapabilitiesReply ==
  CASE request.command = "GetPowerCapabilities" -> SerializePowerCapabilitiesResponse
    [] request.command = "GetRadioCapabilities" -> SerializeRadioCapabilitiesResponse
    [] request.command = "GetWifiCapabilities" -> SerializeWifiCapabilitiesResponse

RemoteReply ==
  IF request.command \in CommandsOf("power") THEN PowerReply
  ELSE IF request.command \in CommandsOf("radio") THEN RadioReply ELSE WifiReply

\* The proxy kept, if it seems alive; else whatever is registered now.
GetService ==
  IF proxy # 0 /\ proxy = service THEN { proxy }
  ELSE { service } \union ({ proxy } \ { 0 })

\* Only clears the proxy when the service is known to be down.
ForgetService_WhenDown == proxy' = IF service = 0 THEN 0 ELSE proxy

ForgetService == proxy' = 0

HandleRemote ==
  /\ \E area \in Remote : Handling(area)
  /\ LET parsed == RemoteParse(request.payload) IN
     \/ /\ request.command \in Capabilities
        /\ Reply(IF request.payload.size = 0 THEN CapabilitiesReply ELSE Refusal("malformed"))
        /\ UNCHANGED proxy
     \/ /\ request.command \notin Capabilities
        /\ proxy' \in GetService
        /\ \/ proxy' = 0 /\ Reply(Refusal("internal"))
           \/ proxy' # 0 /\ ~parsed.ok /\ Reply(Refusal("malformed"))
           \/ proxy' # 0 /\ parsed.ok /\ phase' = "calling" /\ UNCHANGED << request, response >>
  /\ UNCHANGED << topologyVars, simulationVars, service, lives, excuse, hostVars, historyVars >>

\* The profile takes a second call, for the number of access points.
CallAgain == phase = "calling" /\ request.command = "GetWifiProfile"

CallRemote ==
  /\ phase \in { "calling", "calling again" }
  /\ \/ /\ proxy = service
        /\ excuse' = FALSE
        /\ IF CallAgain THEN phase' = "calling again" /\ UNCHANGED << request, response >>
           ELSE \E r \in RemoteReply : Reply(r)
        /\ UNCHANGED proxy
     \/ \* The service is dead, or will not.
        /\ excuse' = (excuse \/ proxy = service)
        /\ ForgetService
        /\ Reply(Refusal("internal"))
  /\ UNCHANGED << topologyVars, simulationVars, service, lives, hostVars, historyVars >>

ServiceDies ==
  /\ service # 0
  /\ service' = 0 /\ excuse' = TRUE
  /\ UNCHANGED << lives, proxy >>
  /\ UNCHANGED << topologyVars, simulationVars, hostVars, historyVars, workerVars >>

ServiceStarts ==
  /\ areas \cap Remote # {} /\ service = 0 /\ lives < MaxInstances
  /\ lives' = lives + 1 /\ service' = lives'
  /\ UNCHANGED << proxy, excuse >>
  /\ UNCHANGED << topologyVars, simulationVars, hostVars, historyVars, workerVars >>

-----------------------------------------------------------------------------
(* The channel: requests come in, answers go out, and the host comes and   *)
(* goes.                                                                   *)

NoRequest == [ command |-> "none" ]

Header(size) ==
  [ magic |-> TRUE, version |-> Version, size |-> 24, zero |-> TRUE,
    route |-> [ plane |-> "FHC1", kind |-> "request", flags |-> FALSE ], payload |-> size ]

\* Headers with one field changed.
OddHeaders(h) ==
  { [ h EXCEPT !.magic = FALSE ], [ h EXCEPT !.version = 2 ], [ h EXCEPT !.size = 28 ],
    [ h EXCEPT !.zero = FALSE ], [ h EXCEPT !.payload = MaxPayload + 1 ],
    [ h EXCEPT !.route.plane = "other" ], [ h EXCEPT !.route.flags = TRUE ] } \union
  { [ h EXCEPT !.route.kind = kind ] : kind \in { "response", "event", "error", "other" } }

PlainRequests ==
  UNION { { [ command |-> c, id |-> 1, header |-> Header(p.size), payload |-> p ] :
            p \in Payloads[c] } : c \in UNION { CommandsOf(area) : area \in areas } }

\* One request with one thing odd about it.
OddlySent(r) ==
  { [ r EXCEPT !.payload = p, !.header = Header(p.size) ] : p \in OddPayloads[r.command] }
  \union { [ r EXCEPT !.header = h ] : h \in OddHeaders(r.header) }
  \union { [ r EXCEPT !.id = 0 ], [ r EXCEPT !.command = Unknown ] }

OddRequests == UNION { OddlySent(r) : r \in PlainRequests }

Lost(lease) == IF lease = "held" THEN "running" ELSE lease

Disconnect(lease) ==
  /\ connected' = FALSE
  /\ authority' = Lost(lease)
  /\ mine' = {}

ReceiveRequest ==
  /\ phase = "idle" /\ connected
  /\ \E r \in PlainRequests \union (IF untouched THEN OddRequests ELSE {}) :
       /\ untouched' = FALSE
       /\ \/ /\ ParseControlPacketHeader(r.header)
             /\ request' = r /\ phase' = "received"
             /\ UNCHANGED << connected, authority, mine >>
          \/ /\ ~ParseControlPacketHeader(r.header)
             /\ Disconnect(authority)
             /\ UNCHANGED << request, phase >>
  /\ UNCHANGED << topologyVars, simulationVars, serviceVars, areas, answered, response >>

\* What was done has been done whether or not the answer arrives.
SendAnswer ==
  /\ phase = "answered" /\ toTell = {}
  /\ LET consistent == response.ok /\ response.header = response.size
         lease == IF consistent /\ response.renews THEN "held" ELSE authority
     IN \/ /\ consistent /\ SerializeControlPacketHeader(response)
           /\ authority' = lease
           /\ mine' = IF response.kind \in { "applied", "unchanged" }
                      THEN mine \union { area \in areas : request.command \in CommandsOf(area) }
                      ELSE mine
           /\ UNCHANGED connected
        \/ Disconnect(lease)
  /\ excuse' = IF InternalFromService THEN service = 0 ELSE excuse
  /\ phase' = "idle" /\ request' = NoRequest /\ response' = NoResponse
  /\ UNCHANGED << topologyVars, simulationVars, service, lives, proxy, areas, untouched, answered >>

HostComes ==
  /\ phase = "idle" /\ ~connected
  /\ connected' = TRUE
  /\ UNCHANGED << topologyVars, simulationVars, serviceVars, areas, authority, untouched >>
  /\ UNCHANGED << historyVars, workerVars >>

HostGoes ==
  /\ phase = "idle" /\ connected
  /\ Disconnect(authority)
  /\ UNCHANGED << topologyVars, simulationVars, serviceVars, areas, untouched, answered, workerVars >>

-----------------------------------------------------------------------------
(* OnAuthorityLeaseExpired: one handler after the other, with a host       *)
(* connected again or not.  The encoders' handlers do nothing.             *)

ExpireTopology ==
  /\ phase = "idle" /\ authority = "running"
  /\ authority' = "none"
  /\ ReplaceExternalDisplays(<< >>)
  /\ answered' =
       [ answered EXCEPT
           !.displays = IF "topology" \in mine THEN @ ELSE << >>,
           !.config = IF "simulation" \in mine THEN @
                      ELSE [ @ EXCEPT !.motion[1] = 0, !.gnss[1] = 0 ] ]
  /\ phase' = "expired topology"
  /\ UNCHANGED << simulationVars, serviceVars, areas, connected, untouched, mine, request, response >>

ExpireSimulation ==
  /\ phase = "expired topology" /\ toTell = {}
  /\ config' = Autonomous(config)
  /\ phase' = "expired simulation"
  /\ UNCHANGED << topologyVars, serviceVars, hostVars, historyVars, request, response >>

\* A service that is not there is not waited for.
ExpireRemote ==
  /\ phase = "expired simulation"
  /\ \/ areas \cap Remote = {} /\ phase' = "idle" /\ UNCHANGED proxy
     \/ /\ areas \cap Remote # {}
        /\ proxy' \in GetService
        /\ phase' = IF proxy' = 0 THEN "idle" ELSE "releasing"
  /\ UNCHANGED << topologyVars, simulationVars, service, lives, excuse, hostVars, historyVars >>
  /\ UNCHANGED << request, response >>

ReleaseRemote ==
  /\ phase = "releasing"
  /\ \/ proxy = service /\ UNCHANGED proxy
     \/ ForgetService
  /\ phase' = "idle"
  /\ UNCHANGED << topologyVars, simulationVars, service, lives, excuse, hostVars, historyVars >>
  /\ UNCHANGED << request, response >>

-----------------------------------------------------------------------------
Init ==
  /\ TopologyInit
  /\ areas \in AreaSets
  /\ connected = FALSE /\ authority = "none" /\ untouched = TRUE
  /\ phase = "idle" /\ request = NoRequest /\ response = NoResponse
  /\ config = DefaultConfig
  /\ service \in (IF areas \cap Remote = {} THEN { 0 } ELSE { 0, 1 })
  /\ lives = service /\ proxy = 0 /\ excuse = (service = 0)
  /\ answered = [ displays |-> << >>, config |-> DefaultConfig ]
  /\ mine = {}

Handle == Refuse \/ HandleTopology \/ HandleEncoders \/ HandleSimulation \/ HandleRemote

Worker ==
  \/ ReceiveRequest \/ Handle \/ CallRemote \/ TellTopology \/ SendAnswer
  \/ ExpireTopology \/ ExpireSimulation \/ ExpireRemote \/ ReleaseRemote

Next == Worker \/ OthersMove \/ ServiceDies \/ ServiceStarts \/ HostComes \/ HostGoes

Spec == Init /\ [][Next]_vars

-----------------------------------------------------------------------------
(* Properties.  ListenersHear, of DisplayTopology, is checked here too.    *)

TypeOK ==
  /\ TopologyTypeOK
  /\ areas \in AreaSets /\ connected \in BOOLEAN /\ authority \in { "none", "held", "running" }
  /\ phase \in { "idle", "received", "calling", "calling again", "answered",
                 "expired topology", "expired simulation", "releasing" }
  /\ { service, proxy } \subseteq 0 .. lives /\ lives \in 0 .. MaxInstances

(* Between requests the displays and the simulation are what the answers   *)
(* said: an update that was answered as applied or unchanged is in force   *)
(* in full, until a later one, or until the lease of a host that has gone  *)
(* expires - and never is it taken back from the host that was answered,   *)
(* while it is still connected, by a lease left over from before.          *)
AnswersAreTrue == phase = "idle" => displays = answered.displays /\ config = answered.config

(* An internal error from the power, radio or Wi-Fi handler means that the *)
(* service was down or refused a call, and each time accounts for one such *)
(* answer: a handler never goes on failing over a service that is back.    *)
InternalMeansDown ==
  phase = "answered" /\ InternalFromService => excuse

ParsersVerdict ==
  LET p == request.payload IN
  CASE Handling("topology") -> ParseReplaceDisplayTopologyRequest(p)
    [] Handling("video") -> ParseVideoEncoderConfigRequest(p)
    [] Handling("audio") -> ParseAudioEncoderConfigRequest(p)
    [] Handling("simulation") -> SimulationParse(p)
    [] OTHER -> RemoteParse(p)

\* A parser never looks past the payload it was given.
ParsersReadInside ==
  (\E area \in areas : Handling(area)) => ParsersVerdict.read <= request.payload.size

\* The payload is a request of this command to the last byte.
IsWhole(command, p) ==
  CASE command = "ReplaceDisplayTopology" ->
         SerializeReplaceDisplayTopologyRequest(ParsedDisplays(p)) = [ ok |-> TRUE, payload |-> p ]
    [] command \in DOMAIN FixedRequests -> p.size = FixedRequests[command]
    [] command \in DOMAIN ListRequests ->
         /\ p.count = Len(p.records)
         /\ p.size = ListRequests[command].header + Len(p.records) * ListRequests[command].record
    [] command = "InjectIncomingCall" -> p.size = 12 + p.count
    [] command = "InjectIncomingSms" -> p.size = 16 + p.count + p.body
    [] OTHER -> p.size = 0

(* A parser never looks past the payload it was given, and takes it only   *)
(* if it accounts for every byte: it has the layout that FHC1.md gives the *)
(* command, with as many records as it counts, and for the display         *)
(* topology it is exactly what the code itself would have written.         *)
RequestsAreSound ==
  /\ ParsersReadInside
  /\ (\E area \in areas : Handling(area)) /\ ParsersVerdict.ok =>
       IsWhole(request.command, request.payload)

(* Whatever the queried state may hold, there is an answer, it fits the    *)
(* protocol's limit and the 16-bit size that announces it, and its size is *)
(* the one in its header: the channel never gives up a host over it.       *)
Fits(r) ==
  /\ r.ok /\ r.size <= MaxPayload /\ SerializeControlPacketHeader(r)
  /\ r.declared \in { 0, r.size }

ResponsesFit == phase = "answered" => Fits(response)
=============================================================================
