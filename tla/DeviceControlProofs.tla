------------------------ MODULE DeviceControlProofs -------------------------
(***************************************************************************)
(* Proofs about DisplayTopology and DeviceControl, for any areas,          *)
(* payloads, contents, listeners and lives of the services.                *)
(***************************************************************************)
EXTENDS DeviceControl, WellFoundedInduction, TLAPS

-----------------------------------------------------------------------------
(* The topology and its listeners *)

HearingInv == TopologyTypeOK /\ ListenersHear

(* Nobody is registered at the start. *)
LEMMA HearingInit == TopologyInit => HearingInv
  BY DEF TopologyInit, HearingInv, TopologyTypeOK, ListenersHear

(* Replacing the displays copies every listener into the worker's round,   *)
(* those whose registration is under way included (ReplaceExternalDisplays *)
(* of DisplayTopologyStateService).                                        *)
LEMMA ReplaceKeepsHearing ==
  ASSUME HearingInv, NEW ds, ReplaceExternalDisplays(ds)
  PROVE  HearingInv'
<1>1. CASE ReplaceResult(ds) = "applied"
  <2>1. /\ toTell' = listeners /\ told' = {} /\ UNCHANGED << listeners, dead >>
        /\ joining' = [ l \in Listener |-> IF joining[l] = "none" THEN "none" ELSE "stale" ]
    BY <1>1 DEF ReplaceExternalDisplays, Replaced
  <2> QED
    BY <2>1 DEF HearingInv, TopologyTypeOK, ListenersHear
<1>2. CASE ReplaceResult(ds) # "applied"
  BY <1>2 DEF ReplaceExternalDisplays, Replaced, topologyVars, HearingInv, TopologyTypeOK,
              ListenersHear
<1> QED
  BY <1>1, <1>2

(* A call that fails takes the listener off the list, one that succeeds    *)
(* has told it (NotifyListeners).                                          *)
LEMMA TellKeepsHearing ==
  ASSUME HearingInv, NEW l \in Listener, TellListener(l)
  PROVE  HearingInv'
<1>1. \/ told' = told \union { l } /\ UNCHANGED listeners
      \/ listeners' = listeners \ { l } /\ UNCHANGED told
  BY DEF TellListener
<1> QED
  BY <1>1 DEF TellListener, HearingInv, TopologyTypeOK, ListenersHear

(* A registration that copied its snapshot before a change ends without    *)
(* telling its listener anything current; the worker's round still has it, *)
(* or has told it already (registerListener, unregisterListener).          *)
LEMMA ListenerStepKeepsHearing ==
  ASSUME HearingInv, NEW l \in Listener, ListenerStep(l)
  PROVE  HearingInv'
<1> USE DEF HearingInv, TopologyTypeOK, ListenersHear
<1>1. CASE RegisterListener(l)
  BY <1>1 DEF RegisterListener
<1>2. CASE RegistrationCallback(l)
  <2>1. /\ joining' = [ joining EXCEPT ![l] = "none" ]
        /\ UNCHANGED << displays, toTell, dead >>
        /\ \/ /\ told' = IF joining[l] = "current" THEN told \union { l } ELSE told
              /\ UNCHANGED listeners
           \/ listeners' = listeners \ { l } /\ UNCHANGED told
    BY <1>2 DEF RegistrationCallback
  <2>2. TopologyTypeOK'
    BY <2>1
  <2>3. ASSUME NEW k \in listeners'
        PROVE  k \in told' \/ k \in toTell' \/ joining'[k] = "current"
    BY <2>1, <2>3
  <2> QED
    BY <2>2, <2>3
<1>3. CASE UnregisterListener(l)
  BY <1>3 DEF UnregisterListener
<1>4. CASE ListenerDies(l)
  BY <1>4 DEF ListenerDies
<1> QED
  BY <1>1, <1>2, <1>3, <1>4 DEF ListenerStep

(* Whoever is registered with the topology state service has been sent the *)
(* displays as they are, or is about to be called with them.               *)
THEOREM EveryListenerHears == TopologySpec => []ListenersHear
<1>1. HearingInv /\ [TopologyNext]_topologyVars => HearingInv'
  <2> SUFFICES ASSUME HearingInv, [TopologyNext]_topologyVars PROVE HearingInv'
    OBVIOUS
  <2>1. CASE WorkerReplaces
    BY <2>1, ReplaceKeepsHearing DEF WorkerReplaces
  <2>2. CASE \E l \in Listener : TellListener(l) \/ ListenerStep(l)
    BY <2>2, TellKeepsHearing, ListenerStepKeepsHearing
  <2>3. CASE UNCHANGED topologyVars
    BY <2>3 DEF topologyVars, HearingInv, TopologyTypeOK, ListenersHear
  <2> QED
    BY <2>1, <2>2, <2>3 DEF TopologyNext
<1>2. HearingInv => ListenersHear
  BY DEF HearingInv
<1> QED
  BY <1>1, <1>2, HearingInit, PTL DEF TopologySpec

-----------------------------------------------------------------------------
(* The displays                                                            *)

(* Whatever the worker does with a request or an expiry, the listeners of  *)
(* the topology hear of it: its steps on the topology are those above, and *)
(* no other handler touches it (DisplayTopologyControlHandler,             *)
(* OnAuthorityLeaseExpired).                                               *)
THEOREM HostsDisplaysAreHeardOf == Spec => []ListenersHear
<1>1. Init => HearingInv
  BY HearingInit DEF Init
<1>2. HearingInv /\ [Next]_vars => HearingInv'
  <2> SUFFICES ASSUME HearingInv, [Next]_vars PROVE HearingInv'
    OBVIOUS
  <2>1. CASE UNCHANGED topologyVars
    BY <2>1 DEF topologyVars, HearingInv, TopologyTypeOK, ListenersHear
  <2>2. CASE HandleTopology
    <3>1. \/ UNCHANGED topologyVars
          \/ ReplaceExternalDisplays(ParsedDisplays(request.payload))
      BY <2>2 DEF HandleTopology
    <3> QED
      BY <3>1, <2>1, ReplaceKeepsHearing
  <2>3. CASE TellTopology
    BY <2>3, TellKeepsHearing DEF TellTopology
  <2>4. CASE OthersMove
    BY <2>4, ListenerStepKeepsHearing DEF OthersMove
  <2>5. CASE ExpireTopology
    BY <2>5, ReplaceKeepsHearing DEF ExpireTopology
  <2>6. CASE Refuse \/ HandleEncoders \/ HandleSimulation \/ HandleRemote
    BY <2>6, <2>1 DEF Refuse, HandleEncoders, HandleSimulation, HandleRemote
  <2>7. CASE \/ ReceiveRequest \/ CallRemote \/ SendAnswer
             \/ ExpireSimulation \/ ExpireRemote \/ ReleaseRemote
    BY <2>7, <2>1 DEF ReceiveRequest, CallRemote, SendAnswer, ExpireSimulation, ExpireRemote,
                      ReleaseRemote
  <2>8. CASE ServiceDies \/ ServiceStarts \/ HostComes \/ HostGoes \/ UNCHANGED vars
    BY <2>8, <2>1 DEF ServiceDies, ServiceStarts, HostComes, HostGoes, vars
  <2> QED
    BY <2>2, <2>3, <2>4, <2>5, <2>6, <2>7, <2>8 DEF Next, Worker, Handle
<1>3. HearingInv => ListenersHear
  BY DEF HearingInv
<1> QED
  BY <1>1, <1>2, <1>3, PTL DEF Spec

-----------------------------------------------------------------------------
(* The services                                                            *)

(* What an internal error rests on: a service that is down, and a proxy of *)
(* one that is, account for a failure still to come.                       *)
ExcuseInv ==
  /\ service = 0 => excuse
  /\ proxy \notin { 0, service } => excuse
  /\ phase \in { "calling", "calling again" } => proxy # 0
  /\ phase = "answered" /\ InternalFromService => excuse /\ proxy = 0

(* Fetching the proxy gives none only while the service is down, and a     *)
(* stale one only if it was kept (GetService of the three handlers).       *)
LEMMA GetServiceExcuse ==
  ASSUME ExcuseInv, NEW p \in GetService
  PROVE  (p = 0 => service = 0) /\ (p \notin { 0, service } => excuse)
BY DEF GetService, ExcuseInv

(* A command of an area in this process is no remote service's.            *)
LEMMA LocalAreas ==
  ASSUME NEW area \in { "topology", "audio", "video", "simulation" },
         NEW command \in CommandsOf(area), NEW remote \in Remote
  PROVE  command \notin CommandsOf(remote)
<1>1. CASE remote = "power"
  BY <1>1 DEF CommandsOf, Sets, Gets
<1>2. CASE remote = "radio"
  BY <1>2 DEF CommandsOf, Sets, Gets
<1>3. CASE remote = "wifi"
  BY <1>3 DEF CommandsOf, Sets, Gets
<1> QED
  BY <1>1, <1>2, <1>3 DEF Remote

(* What a call that comes back is answered with is no internal error       *)
(* (the serializers of the three areas).                                   *)
LEMMA RepliesAreNoErrors ==
  ASSUME NEW r \in RemoteReply PROVE r.kind # "internal"
<1>1. ASSUME NEW size, NEW declared
      PROVE  Response(size, declared).kind = "reply" /\ NoResponse.kind = "reply"
  BY DEF Response, NoResponse
<1>2. ASSUME NEW size PROVE PrepareResponse(size).kind = "reply"
  BY <1>1 DEF PrepareResponse
<1>3. ASSUME NEW size, NEW declared, NEW result \in Results
      PROVE  Renewing(Response(size, declared), result).kind # "internal"
  BY <1>3 DEF Renewing, Response, Results
<1>4. CASE r \in PowerReply
  BY <1>1, <1>3, <1>4 DEF PowerReply, SerializePowerSnapshotResponse, SerializePowerUpdateResponse
<1>5. CASE r \in RadioReply
  BY <1>1, <1>2, <1>3, <1>5 DEF RadioReply, SerializeRadioSnapshotResponse,
    SerializeRadioProfileResponse, SerializeRadioCellsResponse, SerializeRadioCallsResponse,
    SerializeRadioSmsEventsResponse, SerializeRadioUpdateResponse
<1>6. CASE r \in WifiReply
  BY <1>1, <1>2, <1>3, <1>6 DEF WifiReply, SerializeWifiProfileResponse,
    SerializeWifiSnapshotResponse, SerializeWifiAccessPointsResponse, SerializeWifiUpdateResponse
<1> QED
  BY <1>4, <1>5, <1>6 DEF RemoteReply

(* The three handlers' own steps: an internal error is answered when no    *)
(* service was found, when the call failed over a proxy of a dead one, or  *)
(* when the service refused.  First the part before the call ...           *)
LEMMA HandleRemoteKeepsExcuse ==
  ASSUME ExcuseInv, HandleRemote PROVE ExcuseInv'
<1>1. UNCHANGED << service, excuse >>
  BY DEF HandleRemote
<1>2. CASE request.command \in Capabilities
  <2>1. UNCHANGED proxy /\ phase' = "answered" /\ response'.kind # "internal"
    BY <1>2 DEF HandleRemote, Reply, CapabilitiesReply, Capabilities, Refusal,
       SerializeControlErrorResponse, SerializePowerCapabilitiesResponse,
       SerializeRadioCapabilitiesResponse, SerializeWifiCapabilitiesResponse, PrepareResponse,
       Response, NoResponse
  <2> QED
    BY <1>1, <2>1 DEF ExcuseInv, InternalFromService
<1>3. CASE request.command \notin Capabilities
  <2>1. proxy' \in GetService
    BY <1>3 DEF HandleRemote
  <2>2. (proxy' = 0 => excuse') /\ (proxy' \notin { 0, service' } => excuse')
    BY <1>1, <2>1, GetServiceExcuse DEF ExcuseInv
  <2>3. \/ phase' = "answered" /\ proxy' = 0
        \/ phase' = "answered" /\ response'.kind # "internal"
        \/ phase' = "calling" /\ proxy' # 0
    BY <1>3 DEF HandleRemote, Reply, Refusal, SerializeControlErrorResponse, Response
  <2> QED
    BY <1>1, <2>2, <2>3 DEF ExcuseInv, InternalFromService
<1> QED
  BY <1>2, <1>3

(* ... and then the call and what follows it: a reply, or a proxy forgotten. *)
LEMMA CallRemoteKeepsExcuse ==
  ASSUME ExcuseInv, CallRemote PROVE ExcuseInv'
<1>1. proxy # 0 /\ service' = service
  BY DEF ExcuseInv, CallRemote
<1>2. CASE /\ proxy = service /\ UNCHANGED proxy
           /\ \/ CallAgain /\ phase' = "calling again"
              \/ \E r \in RemoteReply : Reply(r)
  <2>1. phase' = "answered" => response'.kind # "internal"
    BY <1>2, RepliesAreNoErrors DEF Reply
  <2> QED
    BY <1>1, <1>2, <2>1 DEF ExcuseInv, InternalFromService
<1>3. CASE excuse' = (excuse \/ proxy = service) /\ proxy' = 0 /\ phase' = "answered"
  <2>1. excuse'
    BY <1>1, <1>3 DEF ExcuseInv
  <2> QED
    BY <1>3, <2>1 DEF ExcuseInv
<1> QED
  BY <1>2, <1>3 DEF CallRemote, ForgetService, Reply

(* The answers of the other handlers are not of a remote area, or no       *)
(* internal errors.                                                        *)
LEMMA OthersKeepExcuse ==
  ASSUME ExcuseInv, Refuse \/ HandleTopology \/ HandleEncoders \/ HandleSimulation
  PROVE  ExcuseInv'
<1>1. UNCHANGED << service, excuse, proxy, request >> /\ phase' = "answered"
  BY DEF Refuse, HandleTopology, HandleEncoders, HandleEncoder, HandleSimulation, SetConfig,
         ResetConfig, PublishExternalStates, Reply, serviceVars
<1>2. ~InternalFromService'
  <2>1. CASE Refuse
    BY <2>1 DEF Refuse, Reply, Refusal, SerializeControlErrorResponse, Response,
                InternalFromService
  <2>2. CASE HandleTopology \/ HandleEncoders \/ HandleSimulation
    <3>1. PICK area \in { "topology", "audio", "video", "simulation" } :
            request.command \in CommandsOf(area)
      BY <2>2 DEF HandleTopology, HandleEncoders, HandleEncoder, HandleSimulation, Handling
    <3> QED
      BY <1>1, <3>1, LocalAreas DEF InternalFromService
  <2> QED
    BY <2>1, <2>2
<1> QED
  BY <1>1, <1>2 DEF ExcuseInv

(* After an expiry each handler calls a service it can get, and forgets it *)
(* if the call fails (OnAuthorityLeaseExpired).                            *)
LEMMA ExpiryKeepsExcuse ==
  ASSUME ExcuseInv, ExpireTopology \/ ExpireSimulation \/ ExpireRemote \/ ReleaseRemote
  PROVE  ExcuseInv'
<1>1. CASE ExpireTopology \/ ExpireSimulation
  BY <1>1 DEF ExpireTopology, ExpireSimulation, ExcuseInv, serviceVars
<1>2. CASE ExpireRemote
  <2>1. CASE UNCHANGED proxy /\ phase' = "idle"
    BY <1>2, <2>1 DEF ExpireRemote, ExcuseInv
  <2>2. CASE proxy' \in GetService /\ phase' \in { "idle", "releasing" }
    BY <1>2, <2>2, GetServiceExcuse DEF ExpireRemote, ExcuseInv
  <2> QED
    BY <1>2, <2>1, <2>2 DEF ExpireRemote
<1>3. CASE ReleaseRemote
  BY <1>3 DEF ReleaseRemote, ForgetService, ExcuseInv
<1> QED
  BY <1>1, <1>2, <1>3

(* A service that dies excuses what fails from then on; one that starts    *)
(* finds the excuse of its absence.  An answer given uses it up.           *)
LEMMA RestKeepsExcuse ==
  ASSUME ExcuseInv,
         \/ ReceiveRequest \/ TellTopology \/ SendAnswer \/ OthersMove
         \/ ServiceDies \/ ServiceStarts \/ HostComes \/ HostGoes \/ UNCHANGED vars
  PROVE  ExcuseInv'
<1>1. CASE ReceiveRequest
  BY <1>1 DEF ReceiveRequest, ExcuseInv, serviceVars
<1>2. CASE SendAnswer
  BY <1>2 DEF SendAnswer, ExcuseInv
<1>3. CASE ServiceDies \/ ServiceStarts
  BY <1>3 DEF ServiceDies, ServiceStarts, ExcuseInv, InternalFromService, workerVars
<1>4. CASE TellTopology \/ OthersMove \/ HostComes \/ HostGoes \/ UNCHANGED vars
  BY <1>4 DEF TellTopology, OthersMove, HostComes, HostGoes, vars, ExcuseInv,
              InternalFromService, workerVars, serviceVars
<1> QED
  BY <1>1, <1>2, <1>3, <1>4

(* A power, radio or Wi-Fi request is answered with an internal error only *)
(* if the service was down, or refused a call, since the last such answer: *)
(* a stale proxy costs one request and is then forgotten.                  *)
THEOREM InternalErrorsAreExcused == Spec => []InternalMeansDown
<1>1. Init => ExcuseInv
  BY DEF Init, ExcuseInv
<1>2. ExcuseInv /\ [Next]_vars => ExcuseInv'
  BY HandleRemoteKeepsExcuse, CallRemoteKeepsExcuse, OthersKeepExcuse, ExpiryKeepsExcuse,
     RestKeepsExcuse DEF Next, Worker, Handle
<1>3. ExcuseInv => InternalMeansDown
  BY DEF ExcuseInv, InternalMeansDown
<1> QED
  BY <1>1, <1>2, <1>3, PTL DEF Spec
-----------------------------------------------------------------------------
(* The answers *)

(* The displays are a list, whatever was asked for.                        *)
IsList(s) == \E n \in Nat : s = [ i \in 1 .. n |-> s[i] ]

(* An update's answer renews the authority.                                *)
Renews(r) == r.kind \in { "applied", "unchanged" } => r.renews

(* What was answered is in force.  While a lease expires the displays go   *)
(* first, so that the configuration still has to follow.  A lease can only *)
(* run out while the host connected, if any, has had no update answered.   *)
AnswersInv ==
  /\ answered = [ displays |-> displays,
                  config |-> IF phase = "expired topology" THEN Autonomous(config) ELSE config ]
  /\ IsList(displays)
  /\ phase = "answered" => Renews(response)
  /\ authority = "running" => mine = {}
  /\ phase = "received" /\ request.command = "ReplaceDisplayTopology" =>
       IsList(ParsedDisplays(request.payload))

(* Two lists that agree are one (the comparison of the displays by size    *)
(* and element in ReplaceExternalDisplays).                                *)
LEMMA ListsAreEqual ==
  ASSUME NEW s, NEW t, IsList(s), IsList(t), Len(s) = Len(t), \A i \in DOMAIN s : s[i] = t[i]
  PROVE  s = t
<1>1. PICK n \in Nat : s = [ i \in 1 .. n |-> s[i] ]
  BY DEF IsList
<1>2. PICK m \in Nat : t = [ i \in 1 .. m |-> t[i] ]
  BY DEF IsList
<1>3. DOMAIN s = 1 .. n /\ DOMAIN t = 1 .. m
  BY <1>1, <1>2
<1>4. Len(s) = n /\ Len(t) = m
  BY <1>3
<1> QED
  BY <1>1, <1>2, <1>4

(* Sorting keeps a list one.                                               *)
LEMMA SortedIsList ==
  ASSUME NEW ds, IsList(ds)
  PROVE  IsList(Sorted(ds))
<1>1. PICK n \in Nat : ds = [ i \in 1 .. n |-> ds[i] ]
  BY DEF IsList
<1>2. DOMAIN ds = 1 .. n
  BY <1>1
<1>3. Sorted(ds) = [ i \in 1 .. n |-> Sorted(ds)[i] ]
  BY <1>2 DEF Sorted
<1> QED
  BY <1>3 DEF IsList

(* Whatever ReplaceExternalDisplays answers as applied or unchanged, the   *)
(* displays are then the sorted list it was given.                         *)
LEMMA ReplacedAreAsked ==
  ASSUME IsList(displays), NEW ds, IsList(ds), ReplaceExternalDisplays(ds)
  PROVE  /\ IsList(displays')
         /\ ReplaceResult(ds) \in { "applied", "unchanged" } => displays' = Sorted(ds)
         /\ ReplaceResult(ds) \notin { "applied", "unchanged" } => displays' = displays
<1>1. IsList(Sorted(ds))
  BY SortedIsList
<1>2. CASE ReplaceResult(ds) = "applied"
  BY <1>1, <1>2 DEF ReplaceExternalDisplays, Replaced
<1>3. CASE ReplaceResult(ds) # "applied"
  <2>1. UNCHANGED displays
    BY <1>3 DEF ReplaceExternalDisplays, Replaced, topologyVars
  <2>2. CASE ReplaceResult(ds) = "unchanged"
    <3>1. Rejection(Sorted(ds)) # "unchanged"
      BY DEF Rejection, RejectionAt
    <3>2. Unchanged(Sorted(ds))
      BY <2>2, <3>1 DEF ReplaceResult
    <3>3. Sorted(ds) = displays
      BY <1>1, <3>2, ListsAreEqual DEF Unchanged, SameDisplay
    <3> QED
      BY <2>1, <2>2, <3>3
  <2> QED
    BY <1>3, <2>1, <2>2
<1> QED
  BY <1>2, <1>3

(* No displays can always be asked for (OnAuthorityLeaseExpired).          *)
LEMMA NoDisplaysAreAccepted ==
  /\ IsList(<< >>) /\ Sorted(<< >>) = << >>
  /\ ReplaceResult(<< >>) \in { "applied", "unchanged" }
<1>1. IsList(<< >>)
  <2>1. << >> = [ i \in 1 .. 0 |-> << >>[i] ]
    OBVIOUS
  <2> QED
    BY <2>1 DEF IsList
<1>2. Sorted(<< >>) = << >> /\ Rejection(<< >>) = "none"
  BY DEF Sorted, Rejection
<1> QED
  BY <1>1, <1>2 DEF ReplaceResult

(* The answers to updates renew the authority, whoever makes them ...      *)
LEMMA UpdatesRenew ==
  ASSUME NEW size, NEW declared, NEW result
  PROVE  /\ Renews(Renewing(Response(size, declared), result))
         /\ Response(size, declared).kind = "reply" /\ NoResponse.kind = "reply"
<1>1. Response(size, declared).kind = "reply" /\ NoResponse.kind = "reply"
  BY DEF Response, NoResponse
<1> DEFINE r == Renewing(Response(size, declared), result)
<1>2. r.kind = result /\ r.renews = (result \in { "applied", "unchanged" })
  BY Zenon DEF Renewing, Response
<1> HIDE DEF r
<1>3. Renews(r)
  BY <1>2 DEF Renews
<1> QED
  BY <1>1, <1>3 DEF r

(* ... in another process, which the handler passes on, ...                *)
LEMMA RemoteRepliesRenew ==
  ASSUME NEW r \in RemoteReply PROVE Renews(r)
<1>1. ASSUME NEW size, NEW declared PROVE Renews(Response(size, declared)) /\ Renews(NoResponse)
  BY UpdatesRenew DEF Renews
<1>2. ASSUME NEW size PROVE Renews(PrepareResponse(size))
  BY <1>1 DEF PrepareResponse
<1>3. ASSUME NEW size, NEW declared, NEW result PROVE Renews(Renewing(Response(size, declared), result))
  BY UpdatesRenew
<1>4. CASE r \in PowerReply
  BY <1>1, <1>3, <1>4 DEF PowerReply, SerializePowerSnapshotResponse, SerializePowerUpdateResponse
<1>5. CASE r \in RadioReply
  BY <1>1, <1>2, <1>3, <1>5 DEF RadioReply, SerializeRadioSnapshotResponse,
    SerializeRadioProfileResponse, SerializeRadioCellsResponse, SerializeRadioCallsResponse,
    SerializeRadioSmsEventsResponse, SerializeRadioUpdateResponse
<1>6. CASE r \in WifiReply
  BY <1>1, <1>2, <1>3, <1>6 DEF WifiReply, SerializeWifiProfileResponse,
    SerializeWifiSnapshotResponse, SerializeWifiAccessPointsResponse, SerializeWifiUpdateResponse
<1> QED
  BY <1>4, <1>5, <1>6 DEF RemoteReply

(* ... and no other answer claims an update.                               *)
LEMMA RefusalsRenewNothing ==
  ASSUME NEW why \in { "invalid id", "unsupported", "malformed", "internal" }
  PROVE  Renews(Refusal(why))
<1>1. Refusal(why).kind = why
  BY DEF Refusal, SerializeControlErrorResponse, Response
<1> QED
  BY <1>1 DEF Renews

(* A query of the simulation is answered with what is held.                *)
LEMMA SimulationRepliesRenew ==
  ASSUME NEW r \in SimulationReply, request.command \in Gets.simulation PROVE Renews(r)
<1>1. ASSUME NEW size, NEW declared PROVE Renews(Response(size, declared)) /\ Renews(NoResponse)
  BY UpdatesRenew DEF Renews
<1>2. ASSUME NEW size PROVE Renews(PrepareList(size))
  BY <1>1 DEF PrepareList
<1>3. request.command \in { "GetSensorSimulationConfig", "ListSensors", "GetSensorSnapshot",
                            "GetGnssConfig", "GetGnssCapabilities", "GetGnssSnapshot" }
  BY DEF Gets
<1> QED
  BY <1>1, <1>2, <1>3 DEF SimulationReply, SerializeSensorConfigResponse,
    SerializeGnssConfigResponse, SerializeGnssCapabilitiesResponse,
    SerializeSensorCatalogResponse, SerializeSensorSnapshotResponse,
    SerializeGnssSnapshotResponse

(* The records of a list of displays give a list.                          *)
LEMMA ParsedIsList ==
  ASSUME NEW p \in Payloads["ReplaceDisplayTopology"] \union OddPayloads["ReplaceDisplayTopology"]
  PROVE  IsList(ParsedDisplays(p))
<1>1. p.records \in Seq(DisplayRecords)
  BY DisplaysAreListed DEF IsDisplayPayload
<1>2. Len(p.records) \in Nat /\ DOMAIN p.records = 1 .. Len(p.records)
  BY <1>1
<1> QED
  BY <1>2 DEF IsList, ParsedDisplays

(* The payload a parser is given is one of those its command can carry:    *)
(* only what is unlike them is odd about an odd request.                   *)
LEMMA PayloadsAreKept ==
  ASSUME NEW asked \in PlainRequests \union OddRequests, asked.command # Unknown
  PROVE  asked.payload \in Payloads[asked.command] \union OddPayloads[asked.command]
<1>1. ASSUME NEW q \in PlainRequests
      PROVE  /\ DOMAIN q = { "command", "id", "header", "payload" }
             /\ q = [ f \in DOMAIN q |-> q[f] ]
             /\ q.payload \in Payloads[q.command]
  BY <1>1 DEF PlainRequests
<1>2. ASSUME NEW q \in PlainRequests, NEW p \in OddPayloads[q.command],
             asked = [ q EXCEPT !.payload = p, !.header = Header(p.size) ]
      PROVE  asked.payload \in OddPayloads[asked.command]
  BY <1>1, <1>2
<1>3. ASSUME NEW q \in PlainRequests, NEW h,
             asked = [ q EXCEPT !.header = h ] \/ asked = [ q EXCEPT !.id = 0 ]
      PROVE  asked.payload \in Payloads[asked.command]
  BY <1>1, <1>3
<1>4. ASSUME NEW q \in PlainRequests, asked = [ q EXCEPT !.command = Unknown ] PROVE FALSE
  BY <1>1, <1>4
<1>5. CASE asked \in PlainRequests
  BY <1>1, <1>5
<1>6. CASE asked \in OddRequests
  <2>1. PICK q \in PlainRequests : asked \in OddlySent(q)
    BY <1>6 DEF OddRequests
  <2>2. \/ \E p \in OddPayloads[q.command] :
             asked = [ q EXCEPT !.payload = p, !.header = Header(p.size) ]
        \/ \E h \in OddHeaders(q.header) : asked = [ q EXCEPT !.header = h ]
        \/ asked = [ q EXCEPT !.id = 0 ] \/ asked = [ q EXCEPT !.command = Unknown ]
    BY <2>1 DEF OddlySent
  <2> QED
    BY <1>2, <1>3, <1>4, <2>2
<1> QED
  BY <1>5, <1>6

(* So what a host sends for the display topology is made of such records.  *)
LEMMA RequestsAreListed ==
  ASSUME NEW asked \in PlainRequests \union OddRequests,
         asked.command = "ReplaceDisplayTopology"
  PROVE  IsList(ParsedDisplays(asked.payload))
<1>1. asked.command # Unknown
  BY DEF Unknown
<1> QED
  BY <1>1, PayloadsAreKept, ParsedIsList

(* The handlers' answers to the rest of the protocol leave what was        *)
(* answered alone.                                                         *)
LEMMA AnswersStand ==
  ASSUME AnswersInv, UNCHANGED << displays, config, answered, authority, mine >>,
         phase # "expired topology", phase' # "expired topology",
         phase' = "answered" => Renews(response'),
         phase' # "received"
  PROVE  AnswersInv'
BY DEF AnswersInv

(* A new list of displays is answered for as it is put in force.           *)
LEMMA TopologyAnswers ==
  ASSUME AnswersInv, HandleTopology PROVE AnswersInv'
<1> DEFINE asked == ParsedDisplays(request.payload)
<1>1. /\ phase = "received" /\ request.command = "ReplaceDisplayTopology"
      /\ phase' = "answered" /\ UNCHANGED << config, authority, mine >>
  BY DEF HandleTopology, Handling, CommandsOf, Sets, Gets, Reply, simulationVars, hostVars
<1>2. IsList(asked) /\ IsList(displays)
      /\ answered = [ displays |-> displays, config |-> config ]
      /\ (authority = "running" => mine = {})
  BY <1>1 DEF AnswersInv
<1>3. \/ /\ response' = Refusal("malformed") /\ UNCHANGED << displays, answered >>
      \/ /\ ReplaceExternalDisplays(asked)
         /\ response' = SerializeReplaceDisplayTopologyResponse(ReplaceResult(asked))
         /\ answered' = IF ReplaceResult(asked) \in { "applied", "unchanged" }
                        THEN [ answered EXCEPT !.displays = Sorted(asked) ] ELSE answered
  BY DEF HandleTopology, Reply, topologyVars
<1> HIDE DEF asked
<1>4. CASE response' = Refusal("malformed") /\ UNCHANGED << displays, answered >>
  BY <1>1, <1>4, RefusalsRenewNothing, AnswersStand
<1>5. CASE /\ ReplaceExternalDisplays(asked)
           /\ response' = SerializeReplaceDisplayTopologyResponse(ReplaceResult(asked))
           /\ answered' = IF ReplaceResult(asked) \in { "applied", "unchanged" }
                          THEN [ answered EXCEPT !.displays = Sorted(asked) ] ELSE answered
  <2>1. Renews(response')
    BY <1>5, UpdatesRenew DEF SerializeReplaceDisplayTopologyResponse
  <2>2. IsList(displays') /\ answered' = [ displays |-> displays', config |-> config ]
    BY <1>2, <1>5, ReplacedAreAsked
  <2> QED
    BY <1>1, <1>2, <2>1, <2>2 DEF AnswersInv
<1> QED
  BY <1>3, <1>4, <1>5

(* A part of the configuration is answered for as it is put in force, or   *)
(* found to be the same already.                                           *)
LEMMA SimulationAnswers ==
  ASSUME AnswersInv, HandleSimulation PROVE AnswersInv'
<1>1. phase = "received" /\ phase' = "answered" /\ UNCHANGED << displays, authority, mine >>
  BY DEF HandleSimulation, Handling, Reply, SetConfig, ResetConfig, PublishExternalStates,
         topologyVars, hostVars
<1>2. IsList(displays) /\ answered = [ displays |-> displays, config |-> config ]
      /\ (authority = "running" => mine = {})
  BY <1>1 DEF AnswersInv
<1>3. ASSUME answered' = [ displays |-> displays, config |-> config' ], Renews(response')
      PROVE  AnswersInv'
  BY <1>1, <1>2, <1>3 DEF AnswersInv
<1>4. ASSUME NEW part, NEW v, SetConfig(part, v) PROVE AnswersInv'
  <2> DEFINE result == IF ~ValidConfig(part, v) THEN "invalid"
                       ELSE IF SameConfig(part, v) THEN "unchanged" ELSE "applied"
             new == With(config, part, v)
  <2>1. /\ config' = IF result = "applied" THEN new ELSE config
        /\ answered' = IF result = "invalid" THEN answered
                       ELSE [ answered EXCEPT !.config = With(@, part, v) ]
        /\ response' = SerializeSimulationUpdateResponse(result)
    BY <1>4 DEF SetConfig, Reply
  <2>2. result = "unchanged" => config = new
    BY DEF SameConfig
  <2>3. result \in { "invalid", "unchanged", "applied" }
    OBVIOUS
  <2>4. [ answered EXCEPT !.config = With(@, part, v) ] = [ displays |-> displays, config |-> new ]
    BY <1>2
  <2> HIDE DEF result, new
  <2>5. Renews(response')
    BY <2>1, UpdatesRenew DEF SerializeSimulationUpdateResponse
  <2>6. answered' = [ displays |-> displays, config |-> config' ]
    BY <1>2, <2>1, <2>2, <2>3, <2>4
  <2> QED
    BY <1>3, <2>5, <2>6
<1>5. CASE ResetConfig
  <2>1. /\ config' = Reset(config) /\ answered' = [ answered EXCEPT !.config = Reset(@) ]
        /\ response' = SerializeSimulationUpdateResponse("applied")
    BY <1>5 DEF ResetConfig, Reply
  <2>2. [ answered EXCEPT !.config = Reset(@) ] = [ displays |-> displays, config |-> Reset(config) ]
    BY <1>2
  <2>3. Renews(response')
    BY <2>1, UpdatesRenew DEF SerializeSimulationUpdateResponse
  <2> QED
    BY <1>3, <2>1, <2>2, <2>3
<1>6. CASE UNCHANGED << config, answered >> /\ Renews(response')
  BY <1>2, <1>3, <1>6
<1>7. PublishExternalStates => Renews(response')
  BY UpdatesRenew DEF PublishExternalStates, Reply, SerializeSimulationUpdateResponse
<1>8. ASSUME request.command \in Gets.simulation, NEW r \in SimulationReply, Reply(r)
      PROVE  Renews(response')
  BY <1>8, SimulationRepliesRenew DEF Reply
<1>9. Reply(Refusal("malformed")) => Renews(response')
  BY RefusalsRenewNothing DEF Reply
<1>10. \/ Reply(Refusal("malformed")) /\ UNCHANGED << config, answered >>
       \/ \E part, v : SetConfig(part, v)
       \/ ResetConfig
       \/ PublishExternalStates /\ UNCHANGED << config, answered >>
       \/ /\ request.command \in Gets.simulation /\ UNCHANGED << config, answered >>
          /\ \E r \in SimulationReply : Reply(r)
  BY DEF HandleSimulation
<1> QED
  BY <1>4, <1>5, <1>6, <1>7, <1>8, <1>9, <1>10

(* The other handlers' requests change neither.                            *)
LEMMA OtherAnswers ==
  ASSUME AnswersInv, Refuse \/ HandleEncoders \/ HandleRemote \/ CallRemote
  PROVE  AnswersInv'
<1>1. /\ UNCHANGED << displays, config, answered, authority, mine >>
      /\ phase \in { "received", "calling", "calling again" }
      /\ phase' \in { "answered", "calling", "calling again" }
  BY DEF Refuse, HandleEncoders, HandleEncoder, HandleRemote, CallRemote, Handling, Reply,
         topologyVars, simulationVars, hostVars, historyVars
<1>2. ASSUME NEW why \in { "invalid id", "unsupported", "malformed", "internal" },
             Reply(Refusal(why))
      PROVE  Renews(response')
  BY <1>2, RefusalsRenewNothing DEF Reply
<1>3. \A size, declared : Renews(Response(size, declared)) /\ Renews(NoResponse)
  BY UpdatesRenew DEF Renews
<1>4. ASSUME Refuse PROVE Renews(response')
  BY <1>2, <1>4 DEF Refuse
<1>5. ASSUME HandleEncoders PROVE Renews(response')
  <2>1. \A state : /\ Renews(SerializeVideoEncoderConfigResponse(state))
                   /\ Renews(SerializeAudioEncoderConfigResponse(state))
    BY <1>3 DEF SerializeVideoEncoderConfigResponse, SerializeAudioEncoderConfigResponse
  <2>2. ASSUME NEW state, \/ Reply(SerializeVideoEncoderConfigResponse(state))
                          \/ Reply(SerializeAudioEncoderConfigResponse(state))
        PROVE  Renews(response')
    BY <2>1, <2>2 DEF Reply
  <2> QED
    BY <1>2, <1>5, <2>2 DEF HandleEncoders, HandleEncoder
<1>6. ASSUME HandleRemote, phase' = "answered" PROVE Renews(response')
  <2>1. request.command \in Capabilities => Renews(CapabilitiesReply)
    BY <1>3 DEF Capabilities, CapabilitiesReply, SerializePowerCapabilitiesResponse,
       SerializeRadioCapabilitiesResponse, SerializeWifiCapabilitiesResponse, PrepareResponse
  <2>2. request.command \in Capabilities /\ Reply(CapabilitiesReply) => Renews(response')
    BY <2>1 DEF Reply
  <2>3. \/ request.command \in Capabilities /\ Reply(CapabilitiesReply)
        \/ Reply(Refusal("malformed")) \/ Reply(Refusal("internal")) \/ phase' = "calling"
    BY <1>6 DEF HandleRemote
  <2> QED
    BY <1>2, <1>6, <2>2, <2>3
<1>7. ASSUME CallRemote, phase' = "answered" PROVE Renews(response')
  <2>1. \/ phase' = "calling again" \/ Reply(Refusal("internal"))
        \/ \E r \in RemoteReply : Reply(r)
    BY <1>7 DEF CallRemote
  <2>2. ASSUME NEW r \in RemoteReply, Reply(r) PROVE Renews(response')
    BY <2>2, RemoteRepliesRenew DEF Reply
  <2> QED
    BY <1>2, <1>7, <2>1, <2>2
<1>8. phase' = "answered" => Renews(response')
  <2>1. CASE Refuse \/ HandleEncoders
    BY <1>4, <1>5, <2>1
  <2> QED
    BY <1>6, <1>7, <2>1
<1> QED
  BY <1>1, <1>8, AnswersStand
(* What does not touch the displays, the configuration, the answer at hand *)
(* or the lease disturbs none of this (the listeners and the services).    *)
LEMMA NothingToAnswer ==
  ASSUME AnswersInv,
         UNCHANGED << displays, config, answered, authority, mine, phase, request, response >>
  PROVE  AnswersInv'
BY DEF AnswersInv, Autonomous, Renews, IsList, ParsedDisplays

(* The channel: a host that leaves takes its areas with it, and the lease  *)
(* it held runs from then on; only an update's answer makes an area a      *)
(* host's, and that answer renews the lease (HostControlChannel::Run).     *)
LEMMA ChannelAnswers ==
  ASSUME AnswersInv, ReceiveRequest \/ SendAnswer \/ HostComes \/ HostGoes
  PROVE  AnswersInv'
<1>1. CASE ReceiveRequest
  <2>1. UNCHANGED << displays, config, answered, response >> /\ phase = "idle"
    BY <1>1 DEF ReceiveRequest, topologyVars, simulationVars
  <2>2. PICK asked \in PlainRequests \union OddRequests :
          \/ request' = asked /\ phase' = "received" /\ UNCHANGED << connected, authority, mine >>
          \/ Disconnect(authority) /\ UNCHANGED << request, phase >>
    BY <1>1 DEF ReceiveRequest
  <2>3. CASE request' = asked /\ phase' = "received" /\ UNCHANGED << connected, authority, mine >>
    <3>1. asked.command = "ReplaceDisplayTopology" => IsList(ParsedDisplays(asked.payload))
      BY RequestsAreListed
    <3>2. (request.command = "ReplaceDisplayTopology" =>
             IsList(ParsedDisplays(request.payload)))'
      BY <2>3, <3>1 DEF IsList, ParsedDisplays
    <3> QED
      BY <2>1, <2>3, <3>2 DEF AnswersInv, IsList
  <2>4. CASE Disconnect(authority) /\ UNCHANGED << request, phase >>
    BY <2>1, <2>4 DEF Disconnect, AnswersInv, IsList
  <2> QED
    BY <2>2, <2>3, <2>4
<1>2. CASE SendAnswer
  <2>1. /\ UNCHANGED << displays, config, answered >>
        /\ phase = "answered" /\ phase' = "idle" /\ Renews(response)
    BY <1>2 DEF SendAnswer, topologyVars, simulationVars, AnswersInv
  <2>2. authority' = "running" => mine' = {}
    <3>1. CASE mine' = {}
      BY <3>1
    <3>2. CASE mine' # {}
      <4>1. /\ authority' = IF response.renews THEN "held" ELSE authority
            /\ mine' = mine \/ response.kind \in { "applied", "unchanged" }
        BY <1>2, <3>2 DEF SendAnswer, Disconnect
      <4> QED
        BY <2>1, <3>2, <4>1 DEF Renews, AnswersInv
    <3> QED
      BY <3>1, <3>2
  <2> QED
    BY <2>1, <2>2 DEF AnswersInv, IsList
<1>3. CASE HostComes
  BY <1>3, NothingToAnswer DEF HostComes, topologyVars, simulationVars, historyVars, workerVars
<1>4. CASE HostGoes
  BY <1>4 DEF HostGoes, Disconnect, topologyVars, simulationVars, workerVars, AnswersInv,
              IsList
<1> QED
  BY <1>1, <1>2, <1>3, <1>4

(* A lease only expires over a host that was answered for nothing: what it *)
(* takes back, the displays first and then the external sources, was asked *)
(* for by one that has gone (OnAuthorityLeaseExpired).                     *)
LEMMA ExpiryAnswers ==
  ASSUME AnswersInv, ExpireTopology \/ ExpireSimulation \/ ExpireRemote \/ ReleaseRemote
  PROVE  AnswersInv'
<1>1. CASE ExpireTopology
  <2>1. /\ phase = "idle" /\ authority = "running" /\ authority' = "none"
        /\ phase' = "expired topology" /\ UNCHANGED << config, mine >>
        /\ ReplaceExternalDisplays(<< >>)
    BY <1>1 DEF ExpireTopology, simulationVars
  <2>2. /\ answered = [ displays |-> displays, config |-> config ]
        /\ mine = {} /\ IsList(displays)
    BY <2>1 DEF AnswersInv
  <2>3. displays' = << >> /\ IsList(<< >>)
    BY <2>1, <2>2, NoDisplaysAreAccepted, ReplacedAreAsked
  <2>4. answered' = [ displays |-> << >>, config |-> Autonomous(config) ]
    BY <1>1, <2>2 DEF ExpireTopology, Autonomous
  <2> QED
    BY <2>1, <2>3, <2>4 DEF AnswersInv, Autonomous
<1>2. CASE ExpireSimulation
  BY <1>2 DEF ExpireSimulation, topologyVars, hostVars, historyVars, AnswersInv, IsList
<1>3. CASE ExpireRemote \/ ReleaseRemote
  BY <1>3, AnswersStand DEF ExpireRemote, ReleaseRemote, topologyVars, simulationVars, hostVars,
                            historyVars
<1> QED
  BY <1>1, <1>2, <1>3

(* The listeners of the topology change nothing of the displays.           *)
LEMMA ListenersOnlyHear ==
  ASSUME NEW l \in Listener, TellListener(l) \/ ListenerStep(l) PROVE UNCHANGED displays
BY DEF TellListener, ListenerStep, RegisterListener, RegistrationCallback, UnregisterListener,
       ListenerDies

(* Between requests the displays and the simulation are what the answers   *)
(* said, until the lease of a host that has gone expires: an update that   *)
(* was answered as applied or unchanged is in force, and never taken back  *)
(* from the host that asked for it while it stays connected.               *)
THEOREM UpdatesAreInForce == Spec => []AnswersAreTrue
<1>1. Init => AnswersInv
  <2>1. Init => /\ displays = << >> /\ config = DefaultConfig /\ phase = "idle" /\ mine = {}
                /\ answered = [ displays |-> << >>, config |-> DefaultConfig ]
    BY DEF Init, TopologyInit
  <2> QED
    BY <2>1, NoDisplaysAreAccepted DEF AnswersInv
<1>2. AnswersInv /\ [Next]_vars => AnswersInv'
  <2> SUFFICES ASSUME AnswersInv, [Next]_vars PROVE AnswersInv'
    OBVIOUS
  <2>1. CASE HandleTopology
    BY <2>1, TopologyAnswers
  <2>2. CASE HandleSimulation
    BY <2>2, SimulationAnswers
  <2>3. CASE Refuse \/ HandleEncoders \/ HandleRemote \/ CallRemote
    BY <2>3, OtherAnswers
  <2>4. CASE ReceiveRequest \/ SendAnswer \/ HostComes \/ HostGoes
    BY <2>4, ChannelAnswers
  <2>5. CASE ExpireTopology \/ ExpireSimulation \/ ExpireRemote \/ ReleaseRemote
    BY <2>5, ExpiryAnswers
  <2>6. CASE TellTopology \/ OthersMove
    BY <2>6, NothingToAnswer, ListenersOnlyHear
       DEF TellTopology, OthersMove, simulationVars, hostVars, historyVars, workerVars
  <2>7. CASE ServiceDies \/ ServiceStarts \/ UNCHANGED vars
    BY <2>7, NothingToAnswer DEF ServiceDies, ServiceStarts, vars, topologyVars, simulationVars,
                                 hostVars, historyVars, workerVars
  <2> QED
    BY <2>1, <2>2, <2>3, <2>4, <2>5, <2>6, <2>7 DEF Next, Worker, Handle
<1>3. AnswersInv => AnswersAreTrue
  BY DEF AnswersInv, AnswersAreTrue
<1> QED
  BY <1>1, <1>2, <1>3, PTL DEF Spec

-----------------------------------------------------------------------------
(* The sizes of the answers *)

(* A set of numbers has a least one.                                       *)
LEMMA Least ==
  ASSUME NEW T, T \subseteq Nat, T # {}
  PROVE  \E n \in T : \A m \in T : n <= m
<1> DEFINE R == OpToRel(<, Nat)
<1>1. R = { ss \in Nat \X Nat : ss[1] < ss[2] }
  BY Zenon DEF OpToRel
<1>2. IsWellFoundedOn(R, Nat)
  BY NatLessThanWellFounded
<1> HIDE DEF R
<1>3. \E x \in T : \A y \in T : ~(<< y, x >> \in R)
  BY <1>2, WFMin
<1>4. ASSUME NEW x \in Nat, NEW y \in Nat, y < x
      PROVE  << y, x >> \in R
  <2>1. << y, x >> \in Nat \X Nat /\ << y, x >>[1] = y /\ << y, x >>[2] = x
    OBVIOUS
  <2> DEFINE p == << y, x >>
  <2>2. p \in Nat \X Nat /\ p[1] < p[2]
    BY <1>4, <2>1
  <2> HIDE DEF p
  <2>3. p \in R
    BY <1>1, <2>2
  <2> QED
    BY <2>3 DEF p
<1>5. PICK n \in T : \A y \in T : ~(<< y, n >> \in R)
  BY <1>3
<1>6. ASSUME NEW m \in T PROVE n <= m
  <2>1. m \in Nat /\ n \in Nat
    OBVIOUS
  <2>2. ~(<< m, n >> \in R)
    BY <1>5
  <2>3. ~(m < n)
    BY <1>4, <2>1, <2>2, Zenon
  <2> QED
    BY <2>1, <2>3
<1> QED
  BY <1>5, <1>6

(* The sum of the first n sizes, for every n.                              *)
Running(sizes, sum) ==
  /\ sum \in [ 0 .. Len(sizes) -> Nat ] /\ sum[0] = 0
  /\ \A n \in 1 .. Len(sizes) : sum[n] = sum[n - 1] + sizes[n]

(* There is always such a running sum: a first length that none reaches    *)
(* has a predecessor that one does.                                        *)
LEMMA RunningSumExists ==
  ASSUME NEW sizes \in Seq(Nat)
  PROVE  \E sum : Running(sizes, sum)
<1> DEFINE Reached(n) ==
             \E sum \in [ 0 .. n -> Nat ] :
               sum[0] = 0 /\ \A i \in 1 .. n : sum[i] = sum[i - 1] + sizes[i]
           T == { n \in 0 .. Len(sizes) : ~Reached(n) }
<1>1. Len(sizes) \in Nat
  OBVIOUS
<1>2. ASSUME T # {} PROVE FALSE
  <2>1. PICK n \in T : \A m \in T : n <= m
    <3>1. T \subseteq Nat
      BY <1>1
    <3> HIDE DEF T
    <3> QED
      BY <1>2, <3>1, Least
  <2>2. n \in 0 .. Len(sizes) /\ ~Reached(n)
    BY <2>1
  <2>3. Reached(0)
    <3> DEFINE none == [ i \in 0 .. 0 |-> 0 ]
    <3>1. none \in [ 0 .. 0 -> Nat ] /\ none[0] = 0 /\ 1 .. 0 = {}
      OBVIOUS
    <3> HIDE DEF none
    <3> QED
      BY <3>1
  <2> HIDE DEF Reached
  <2>4. n # 0 /\ n - 1 \in 0 .. Len(sizes)
    <3> HIDE DEF T
    <3>1. n # 0
      BY <2>2, <2>3
    <3> QED
      BY <1>1, <2>2, <3>1
  <2>5. Reached(n - 1)
    BY <1>1, <2>1, <2>2, <2>4
  <2>6. PICK sum \in [ 0 .. n - 1 -> Nat ] :
          sum[0] = 0 /\ \A i \in 1 .. n - 1 : sum[i] = sum[i - 1] + sizes[i]
    BY <2>5 DEF Reached
  <2> DEFINE more == [ i \in 0 .. n |-> IF i = n THEN sum[n - 1] + sizes[n] ELSE sum[i] ]
  <2>7. n \in 1 .. Len(sizes) /\ n \in Nat /\ sizes[n] \in Nat
    BY <1>1, <2>2, <2>4
  <2>8. more \in [ 0 .. n -> Nat ] /\ more[0] = 0
    BY <2>6, <2>7
  <2>9. ASSUME NEW i \in 1 .. n PROVE more[i] = more[i - 1] + sizes[i]
    BY <2>6, <2>7, <2>9
  <2>10. Reached(n)
    <3> HIDE DEF more
    <3> QED
      BY <2>8, <2>9 DEF Reached
  <2> QED
    BY <2>2, <2>10
<1> HIDE DEF Reached
<1>3. Reached(Len(sizes))
  BY <1>1, <1>2
<1> QED
  BY <1>3 DEF Running, Reached

(* The total is where it ends, since there is no other.                    *)
LEMMA TotalIs ==
  ASSUME NEW sizes \in Seq(Nat), NEW sum, Running(sizes, sum)
  PROVE  Total(sizes) = sum[Len(sizes)]
<1> DEFINE Sum(f) == f = [ n \in 0 .. Len(sizes) |->
                             IF n = 0 THEN 0 ELSE f[n - 1] + sizes[n] ]
<1>1. Len(sizes) \in Nat
  OBVIOUS
<1>2. Sum(sum)
  <2>1. sum = [ n \in 0 .. Len(sizes) |-> sum[n] ]
    BY DEF Running
  <2>2. \A n \in 0 .. Len(sizes) : sum[n] = IF n = 0 THEN 0 ELSE sum[n - 1] + sizes[n]
    BY <1>1 DEF Running
  <2> QED
    BY <2>1, <2>2
<1>3. ASSUME NEW f, Sum(f) PROVE f = sum
  <2>1. f = [ n \in 0 .. Len(sizes) |-> f[n] ]
    BY <1>3
  <2>2. f[0] = 0 /\ \A n \in 1 .. Len(sizes) : f[n] = f[n - 1] + sizes[n]
    BY <1>1, <1>3
  <2> DEFINE T == { n \in 0 .. Len(sizes) : f[n] # sum[n] }
  <2>3. ASSUME T # {} PROVE FALSE
    <3>1. PICK n \in T : \A m \in T : n <= m
      <4>1. T \subseteq Nat
        BY <1>1
      <4> HIDE DEF T
      <4> QED
        BY <2>3, <4>1, Least
    <3>2. n \in 1 .. Len(sizes)
      BY <1>1, <2>2, <3>1 DEF Running
    <3>3. n - 1 \in 0 .. Len(sizes) /\ n - 1 \notin T
      BY <1>1, <3>1, <3>2
    <3>4. f[n - 1] = sum[n - 1]
      BY <3>3
    <3> QED
      BY <2>2, <3>1, <3>2, <3>4 DEF Running
  <2>4. sum = [ n \in 0 .. Len(sizes) |-> sum[n] ]
    BY DEF Running
  <2>5. \A n \in 0 .. Len(sizes) : f[n] = sum[n]
    BY <2>3
  <2> QED
    BY <2>1, <2>4, <2>5
<1>4. Total(sizes) = (CHOOSE f : Sum(f))[Len(sizes)]
  BY DEF Total
<1> HIDE DEF Sum
<1>5. (CHOOSE f : Sum(f)) = sum
  BY <1>2, <1>3
<1> QED
  BY <1>4, <1>5

(* A list of sizes with a largest one takes at most that much each.        *)
LEMMA TotalIsBounded ==
  ASSUME NEW sizes \in Seq(Nat), NEW most \in Nat, \A i \in 1 .. Len(sizes) : sizes[i] <= most
  PROVE  Total(sizes) \in 0 .. most * Len(sizes)
<1>1. PICK sum : Running(sizes, sum)
  BY RunningSumExists
<1> DEFINE T == { n \in 0 .. Len(sizes) : sum[n] > most * n }
<1>2. Len(sizes) \in Nat
  OBVIOUS
<1>3. ASSUME T # {} PROVE FALSE
  <2>1. PICK n \in T : \A m \in T : n <= m
    <3>1. T \subseteq Nat
      BY <1>2
    <3> HIDE DEF T
    <3> QED
      BY <1>3, <3>1, Least
  <2>2. n \in 0 .. Len(sizes) /\ sum[n] > most * n
    BY <2>1
  <2>3. n # 0
    <3>1. most * 0 = 0
      OBVIOUS
    <3> QED
      BY <1>1, <2>2, <3>1 DEF Running
  <2>4. n - 1 \in 0 .. Len(sizes) /\ n - 1 \notin T /\ n \in 1 .. Len(sizes)
    BY <1>2, <2>1, <2>2, <2>3
  <2>5. sum[n - 1] \in Nat /\ sum[n] = sum[n - 1] + sizes[n] /\ sizes[n] \in Nat /\ sizes[n] <= most
    <3>1. n - 1 \in 0 .. Len(sizes) /\ n \in 1 .. Len(sizes)
      BY <2>4
    <3> HIDE DEF T
    <3>2. sum[n - 1] \in Nat /\ sum[n] = sum[n - 1] + sizes[n]
      BY <1>1, <3>1 DEF Running
    <3>3. sizes[n] \in Nat
      BY <1>2, <3>1
    <3> QED
      BY <3>1, <3>2, <3>3
  <2>6. sum[n - 1] <= most * (n - 1)
    <3>1. ~(sum[n - 1] > most * (n - 1))
      BY <2>4
    <3>2. most * (n - 1) \in Nat
      BY <1>2, <2>4
    <3> HIDE DEF T
    <3> QED
      BY <2>5, <3>1, <3>2
  <2>7. most * n = most * (n - 1) + most
    BY <1>2, <2>2
  <2>8. most * (n - 1) \in Nat
    BY <1>2, <2>4
  <2> DEFINE before == most * (n - 1)
  <2> HIDE DEF before
  <2>9. sum[n] <= before + most
    BY <2>5, <2>6, <2>8 DEF before
  <2> QED
    BY <2>2, <2>5, <2>7, <2>8, <2>9 DEF before
<1>4. Len(sizes) \in 0 .. Len(sizes) /\ sum[Len(sizes)] \in Nat
  BY <1>1, <1>2 DEF Running
<1>5. ~(sum[Len(sizes)] > most * Len(sizes))
  BY <1>3, <1>4
<1>6. most * Len(sizes) \in Nat
  BY <1>2
<1>7. sum[Len(sizes)] <= most * Len(sizes)
  <2> HIDE DEF T
  <2> QED
    BY <1>4, <1>5, <1>6
<1> QED
  BY <1>1, <1>4, <1>6, <1>7, TotalIs

(* The two limits on a size: the protocol's and its field's.               *)
LEMMA Limits ==
  /\ MaxPayload \in Nat /\ 65535 < MaxPayload
  /\ \A n \in Nat : n <= 65535 => U16(n) = n
BY DEF MaxPayload, U16

(* A response of a size the protocol allows fits, ...                      *)
LEMMA ResponseFits ==
  ASSUME NEW size \in Nat, size <= MaxPayload, NEW declared \in { 0, size }
  PROVE  Fits(Response(size, declared))
<1> DEFINE r == Response(size, declared)
<1>1. r.ok /\ r.size = size /\ r.header = size /\ r.declared = declared
  BY Zenon DEF Response
<1> HIDE DEF r
<1>2. r.size <= MaxPayload /\ r.header \in 0 .. MaxPayload /\ r.header = r.size
  BY <1>1, Limits
<1>3. Fits(r)
  BY <1>1, <1>2, Zenon DEF Fits, SerializeControlPacketHeader
<1> QED
  BY <1>3 DEF r

(* ... whatever it is the result of, ...                                   *)
LEMMA RenewingFits ==
  ASSUME NEW size \in Nat, size <= MaxPayload, NEW declared \in { 0, size }, NEW result
  PROVE  Fits(Renewing(Response(size, declared), result))
<1> DEFINE r == Renewing(Response(size, declared), result)
<1>1. r.ok /\ r.size = size /\ r.header = size /\ r.declared = declared
  BY Zenon DEF Renewing, Response
<1> HIDE DEF r
<1>2. r.size <= MaxPayload /\ r.header \in 0 .. MaxPayload /\ r.header = r.size
  BY <1>1, Limits
<1>3. Fits(r)
  BY <1>1, <1>2, Zenon DEF Fits, SerializeControlPacketHeader
<1> QED
  BY <1>3 DEF r

(* ... and so does one whose 16-bit field can say its size (PrepareResponse *)
(* of the radio and Wi-Fi protocols, and of the others).                   *)
LEMMA PreparedFits ==
  ASSUME NEW size \in Nat, size <= 65535
  PROVE  /\ Fits(PrepareResponse(size)) /\ Fits(PrepareList(size))
         /\ Fits(Response(size, U16(size)))
<1>1. size <= MaxPayload /\ U16(size) = size
  BY Limits
<1>2. Fits(Response(size, size)) /\ Fits(Response(size, 0))
  BY <1>1, ResponseFits
<1>3. PrepareResponse(size) = Response(size, U16(size))
  BY DEF PrepareResponse
<1>4. PrepareList(size) = Response(size, 0)
  BY <1>1 DEF PrepareList
<1> QED
  BY <1>1, <1>2, <1>3, <1>4

(* A total of that many sizes of at most that much.                        *)
LEMMA Sized ==
  ASSUME NEW most \in Nat, NEW longest \in Nat, NEW sizes \in Seq(0 .. most),
         Len(sizes) <= longest
  PROVE  /\ Len(sizes) \in Nat
         /\ Total(sizes) \in Nat /\ Total(sizes) <= most * longest
<1>1. sizes \in Seq(Nat) /\ Len(sizes) \in 0 .. longest /\ \A i \in 1 .. Len(sizes) : sizes[i] <= most
  OBVIOUS
<1>2. Total(sizes) \in 0 .. most * Len(sizes)
  BY <1>1, TotalIsBounded
<1>3. most * Len(sizes) \in Nat /\ most * longest \in Nat /\ most * Len(sizes) <= most * longest
  BY <1>1
<1> QED
  BY <1>1, <1>2, <1>3

(* The newest events that fit are found by going back from the last until  *)
(* one does not (SerializeRadioSmsEventsResponse).                         *)
LEMMA SmsFit ==
  ASSUME NEW events \in Seq(Nat)
  PROVE  Fits(SerializeRadioSmsEventsResponse(events))
<1> DEFINE T == { n \in 0 .. Len(events) : n = Len(events) \/ ~(SmsSize(events, n + 1) <= 65535) }
<1>1. Len(events) \in Nat
  OBVIOUS
<1>2. ASSUME NEW n \in 0 .. Len(events) PROVE SmsSize(events, n) \in Nat
  <2>1. SubSeq(events, Len(events) - n + 1, Len(events)) \in Seq(Nat)
    BY <1>1
  <2>2. PICK sum : Running(SubSeq(events, Len(events) - n + 1, Len(events)), sum)
    BY <2>1, RunningSumExists
  <2>3. Total(SubSeq(events, Len(events) - n + 1, Len(events))) \in Nat
    <3> DEFINE s == SubSeq(events, Len(events) - n + 1, Len(events))
    <3>1. s \in Seq(Nat) /\ Len(s) \in 0 .. Len(s)
      BY <2>1
    <3> HIDE DEF s
    <3>2. Total(s) = sum[Len(s)]
      BY <2>2, <3>1, TotalIs DEF s
    <3> QED
      BY <2>2, <3>1, <3>2 DEF Running, s
  <2> QED
    BY <2>3 DEF SmsSize
<1>3. SmsSize(events, 0) <= 65535
  <2>1. SubSeq(events, Len(events) + 1, Len(events)) = << >>
    BY <1>1
  <2> DEFINE none == [ n \in 0 .. 0 |-> 0 ]
  <2>2. none \in [ 0 .. 0 -> Nat ] /\ none[0] = 0 /\ 1 .. 0 = {}
    OBVIOUS
  <2> HIDE DEF none
  <2>3. << >> \in Seq(Nat) /\ Len(<< >>) = 0
    OBVIOUS
  <2>4. Total(<< >>) = 0
    BY <2>2, <2>3, TotalIs DEF Running
  <2>5. Len(events) - 0 + 1 = Len(events) + 1
    BY <1>1
  <2>6. SmsSize(events, 0) = 16 + Total(<< >>) + 32 * 0
    BY <2>1, <2>5, Zenon DEF SmsSize
  <2> QED
    BY <2>4, <2>6
<1>4. PICK n \in T : \A m \in T : n <= m
  <2>1. T \subseteq Nat /\ Len(events) \in T
    BY <1>1
  <2> HIDE DEF T
  <2> QED
    BY <2>1, Least
<1>5. n \in 0 .. Len(events) /\ (n < Len(events) => SmsSize(events, n + 1) > 65535)
  <2>1. n < Len(events) => n + 1 \in 0 .. Len(events)
    BY <1>1
  <2> QED
    BY <1>2, <1>4, <2>1
<1>6. SmsSize(events, n) <= 65535
  <2>1. CASE n = 0
    BY <1>3, <2>1
  <2>2. CASE n # 0
    <3>1. n - 1 \in 0 .. Len(events) /\ n - 1 # Len(events) /\ ~(n <= n - 1)
      BY <1>1, <1>5, <2>2
    <3> HIDE DEF T
    <3>2. n - 1 \notin T
      BY <1>4, <3>1
    <3> USE DEF T
    <3>3. SmsSize(events, (n - 1) + 1) <= 65535
      BY <3>1, <3>2
    <3>4. (n - 1) + 1 = n
      BY <1>5
    <3> QED
      BY <3>3, <3>4
  <2> QED
    BY <2>1, <2>2
<1> HIDE DEF T
<1>7. /\ SmsKept(events) \in 0 .. Len(events)
      /\ SmsSize(events, SmsKept(events)) <= 65535
  BY <1>5, <1>6 DEF SmsKept
<1> DEFINE size == SmsSize(events, SmsKept(events))
<1>8. size \in Nat /\ size <= 65535
  BY <1>2, <1>7
<1> HIDE DEF size
<1>9. ~(size > MaxPayload)
  BY <1>8, Limits
<1>10. SerializeRadioSmsEventsResponse(events) = Response(size, U16(size))
  BY <1>9, Zenon DEF SerializeRadioSmsEventsResponse, size
<1> QED
  BY <1>8, <1>10, PreparedFits

(* What lies in an interval lies between its ends.                         *)
LEMMA Between ==
  ASSUME NEW low \in Int, NEW high \in Int, NEW n \in low .. high
  PROVE  n \in Int /\ low <= n /\ n <= high
OBVIOUS

(* The answers of a size of their own, whatever they say.                  *)
LEMMA FixedAnswersFit ==
  /\ \A why : Fits(Refusal(why))
  /\ \A result : /\ Fits(SerializeReplaceDisplayTopologyResponse(result))
                 /\ Fits(SerializeSimulationUpdateResponse(result))
                 /\ Fits(SerializePowerUpdateResponse(result))
                 /\ Fits(SerializeRadioUpdateResponse(result))
                 /\ Fits(SerializeWifiUpdateResponse(result))
  /\ Fits(SerializePowerSnapshotResponse) /\ Fits(SerializePowerCapabilitiesResponse)
  /\ Fits(SerializeRadioSnapshotResponse) /\ Fits(SerializeRadioCapabilitiesResponse)
  /\ Fits(SerializeWifiCapabilitiesResponse) /\ Fits(SerializeSensorConfigResponse)
  /\ Fits(SerializeGnssConfigResponse) /\ Fits(SerializeGnssCapabilitiesResponse)
<1>1. ASSUME NEW why PROVE Fits(Refusal(why))
  <2> DEFINE r == Refusal(why)
  <2>1. r.ok /\ r.size = 8 /\ r.header = 8 /\ r.declared = 0
    BY Zenon DEF Refusal, SerializeControlErrorResponse, Response
  <2> HIDE DEF r
  <2>2. r.size <= MaxPayload /\ r.header \in 0 .. MaxPayload /\ r.header = r.size
    BY <2>1, Limits
  <2>3. Fits(r)
    BY <2>1, <2>2, Zenon DEF Fits, SerializeControlPacketHeader
  <2> QED
    BY <2>3 DEF r
<1>2. ASSUME NEW size \in 0 .. 200, NEW declared \in { 0, size }, NEW result
      PROVE  /\ Fits(Response(size, declared)) /\ Fits(Renewing(Response(size, declared), result))
             /\ Fits(PrepareResponse(size))
  BY Limits, ResponseFits, RenewingFits, PreparedFits
<1>3. /\ \A result : /\ Fits(SerializeReplaceDisplayTopologyResponse(result))
                     /\ Fits(SerializeSimulationUpdateResponse(result))
                     /\ Fits(SerializePowerUpdateResponse(result))
                     /\ Fits(SerializeRadioUpdateResponse(result))
                     /\ Fits(SerializeWifiUpdateResponse(result))
  BY <1>2 DEF SerializeReplaceDisplayTopologyResponse, SerializeSimulationUpdateResponse,
    SerializePowerUpdateResponse, SerializeRadioUpdateResponse, SerializeWifiUpdateResponse
<1>4. /\ Fits(SerializePowerSnapshotResponse) /\ Fits(SerializePowerCapabilitiesResponse)
      /\ Fits(SerializeSensorConfigResponse)
      /\ Fits(SerializeGnssConfigResponse) /\ Fits(SerializeGnssCapabilitiesResponse)
  BY <1>2 DEF SerializePowerSnapshotResponse, SerializePowerCapabilitiesResponse,
    SerializeSensorConfigResponse, SerializeGnssConfigResponse, SerializeGnssCapabilitiesResponse
<1>5. /\ Fits(SerializeRadioSnapshotResponse) /\ Fits(SerializeRadioCapabilitiesResponse)
      /\ Fits(SerializeWifiCapabilitiesResponse)
  BY <1>2 DEF SerializeRadioSnapshotResponse, SerializeRadioCapabilitiesResponse,
    SerializeWifiCapabilitiesResponse
<1> QED
  BY <1>1, <1>3, <1>4, <1>5

(* The answers of the radio service: its strings, cells and calls are few  *)
(* and short, its messages are cut to what fits.                           *)
LEMMA RadioAnswersFit == ASSUME NEW r \in RadioReply PROVE Fits(r)
<1>1. ASSUME NEW x \in Contents["GetRadioProfile"] PROVE Fits(SerializeRadioProfileResponse(x))
  <2> DEFINE most == 1024
  <2>1. x \in Seq(0 .. most) /\ Len(x) <= 10
    BY ContentsAreKept
  <2>2. Total(x) \in Nat /\ Total(x) <= most * 10
    <3>1. most \in Nat /\ 10 \in Nat
      OBVIOUS
    <3> HIDE DEF most
    <3> QED
      BY <2>1, <3>1, Sized, Zenon
  <2> DEFINE size == 48 + Total(x)
  <2>3. size \in Nat /\ size <= 65535
    BY <2>2
  <2> HIDE DEF size
  <2>4. Fits(PrepareResponse(size))
    BY <2>3, PreparedFits
  <2> QED
    BY <2>4 DEF size, SerializeRadioProfileResponse
<1>2. ASSUME NEW x \in Contents["ListRadioCells"] PROVE Fits(SerializeRadioCellsResponse(x))
  <2> DEFINE size == 16 + x * 60
  <2>1. x \in 0 .. 32
    BY ContentsAreKept
  <2>2. size \in Nat /\ size <= 65535
    BY <2>1
  <2> HIDE DEF size
  <2>3. Fits(PrepareResponse(size))
    BY <2>2, PreparedFits
  <2> QED
    BY <2>3 DEF size, SerializeRadioCellsResponse
<1>3. ASSUME NEW x \in Contents["ListRadioCalls"] PROVE Fits(SerializeRadioCallsResponse(x))
  <2>1. x \in Seq(0 .. 20) /\ Len(x) <= 8
    BY ContentsAreKept
  <2>2. Len(x) \in Nat /\ Len(x) <= 8 /\ Total(x) \in Nat /\ Total(x) <= 20 * 8
    <3>1. 20 \in Nat /\ 8 \in Nat
      OBVIOUS
    <3> QED
      BY <2>1, <3>1, Sized, Zenon
  <2> DEFINE size == 16 + Total(x) + 24 * Len(x)
  <2>3. size \in Nat /\ size <= 65535
    BY <2>2
  <2> HIDE DEF size
  <2>4. ~(size > MaxPayload) /\ Fits(Response(size, U16(size)))
    BY <2>3, PreparedFits, Limits
  <2>5. SerializeRadioCallsResponse(x) = Response(size, U16(size))
    BY <2>4, Zenon DEF size, SerializeRadioCallsResponse
  <2> QED
    BY <2>4, <2>5
<1>4. ASSUME NEW x \in Contents["ListRadioSmsEvents"] PROVE Fits(SerializeRadioSmsEventsResponse(x))
  BY SmsFit, ContentsAreKept
<1> QED
  BY <1>1, <1>2, <1>3, <1>4, FixedAnswersFit DEF RadioReply

(* The answers of the Wi-Fi service: its addresses and its records are     *)
(* what the serializers take, and as few as they take.                     *)
LEMMA WifiAnswersFit == ASSUME NEW r \in WifiReply PROVE Fits(r)
<1>1. ASSUME NEW x \in Contents["GetWifiProfile"] PROVE Fits(SerializeWifiProfileResponse(x))
  <2>1. x.country = 2 /\ x.accessPoints <= 64 /\ ParseMacAddress(x.station)
    BY ContentsAreKept, Zenon
  <2>2. SerializeWifiProfileResponse(x) = PrepareResponse(48)
    BY <2>1, Zenon DEF SerializeWifiProfileResponse
  <2> QED
    BY <2>2, PreparedFits
<1>2. ASSUME NEW x \in Contents["GetWifiSnapshot"] PROVE Fits(SerializeWifiSnapshotResponse(x))
  <2>1. x.ssid <= 32 /\ (x.connected => ParseMacAddress(x.bssid))
    BY ContentsAreKept, Zenon
  <2>2. SerializeWifiSnapshotResponse(x) = PrepareResponse(96)
    BY <2>1, Zenon DEF SerializeWifiSnapshotResponse
  <2> QED
    BY <2>2, PreparedFits
<1>3. ASSUME NEW x \in Contents["ListWifiAccessPoints"]
      PROVE  Fits(SerializeWifiAccessPointsResponse(x))
  <2>1. Len(x) \in Nat /\ Len(x) <= 64 /\ \A i \in DOMAIN x : WriteAccessPointRecord(x[i])
    BY ContentsAreKept, Zenon
  <2>2. Len(x) <= 64 /\ \A y \in ToSet(x) : WriteAccessPointRecord(y)
    BY <2>1, Zenon DEF ToSet
  <2> DEFINE size == 16 + 72 * Len(x)
  <2>3. size \in Nat /\ size <= 65535
    BY <2>1
  <2>4. SerializeWifiAccessPointsResponse(x) = PrepareResponse(size)
    BY <2>2, Zenon DEF SerializeWifiAccessPointsResponse
  <2> HIDE DEF size
  <2> QED
    BY <2>3, <2>4, PreparedFits
<1> QED
  BY <1>1, <1>2, <1>3, FixedAnswersFit DEF WifiReply

(* The answers of the simulation: its service only lets the HALs publish   *)
(* so many sensors, values and satellites.                                 *)
LEMMA SimulationAnswersFit ==
  ASSUME NEW r \in SimulationReply, request.command \in Gets.simulation PROVE Fits(r)
<1>1. ASSUME NEW x \in Contents["ListSensors"], Published("ListSensors", x)
      PROVE  Fits(SerializeSensorCatalogResponse(x))
  <2>1. x \in Seq(Nat) /\ Len(x) <= 128 /\ \A i \in DOMAIN x : x[i] <= 128
    <3>1. x \in Seq(Nat)
      BY ContentsAreKept, Zenon
    <3>2. Len(x) \in 0 .. 128 /\ \A i \in DOMAIN x : x[i] \in 1 .. 128
      BY <1>1, Zenon DEF Published
    <3>3. 0 \in Int /\ 1 \in Int /\ 128 \in Int
      OBVIOUS
    <3> QED
      BY <3>1, <3>2, <3>3, Between, Zenon
  <2> DEFINE sizes == [ i \in DOMAIN x |-> 24 + Aligned(x[i]) ]
             most == 156
  <2>2. ASSUME NEW i \in DOMAIN x
        PROVE  24 + Aligned(x[i]) \in Nat /\ 24 + Aligned(x[i]) <= most
    BY <2>1 DEF Aligned
  <2>3. most \in Nat /\ 128 \in Nat
    OBVIOUS
  <2>4. Total(sizes) \in Nat /\ Total(sizes) <= most * 128
    <3> HIDE DEF most
    <3>1. sizes \in Seq(0 .. most) /\ Len(sizes) <= 128
      BY <2>1, <2>2, <2>3
    <3> HIDE DEF sizes
    <3> QED
      BY <2>3, <3>1, Sized, Zenon
  <2> DEFINE size == 16 + Total(sizes)
  <2>5. size \in Nat /\ size <= 65535
    <3> HIDE DEF sizes
    <3> QED
      BY <2>4
  <2>6. SerializeSensorCatalogResponse(x) = PrepareList(size)
    BY DEF SerializeSensorCatalogResponse
  <2> HIDE DEF size
  <2> QED
    BY <2>5, <2>6, PreparedFits
<1>2. ASSUME NEW x \in Contents["GetSensorSnapshot"], Published("GetSensorSnapshot", x)
      PROVE  Fits(SerializeSensorSnapshotResponse(x))
  <2>1. x \in Seq(Nat) /\ Len(x) <= 128 /\ \A i \in DOMAIN x : x[i] <= 16
    <3>1. x \in Seq(Nat)
      BY ContentsAreKept
    <3>2. Len(x) <= 128 /\ \A i \in DOMAIN x : x[i] <= 16
      BY <1>2, Zenon DEF Published
    <3> QED
      BY <3>1, <3>2, Zenon
  <2>2. \A n \in ToSet(x) : n <= 16
    BY <2>1, Zenon DEF ToSet
  <2> DEFINE sizes == [ i \in DOMAIN x |-> 24 + 4 * x[i] ]
             most == 88
  <2>3. most \in Nat /\ 128 \in Nat
    OBVIOUS
  <2>4. Total(sizes) \in Nat /\ Total(sizes) <= most * 128
    <3>1. ASSUME NEW i \in DOMAIN x
          PROVE  24 + 4 * x[i] \in Nat /\ 24 + 4 * x[i] <= most
      BY <2>1
    <3> HIDE DEF most
    <3>2. sizes \in Seq(0 .. most) /\ Len(sizes) <= 128
      BY <2>1, <2>3, <3>1
    <3> HIDE DEF sizes
    <3> QED
      BY <2>3, <3>2, Sized, Zenon
  <2> DEFINE size == 24 + Total(sizes)
  <2>5. size \in Nat /\ size <= 65535
    <3> HIDE DEF sizes
    <3> QED
      BY <2>4
  <2>6. SerializeSensorSnapshotResponse(x) = PrepareList(size)
    BY <2>2, Zenon DEF SerializeSensorSnapshotResponse
  <2> HIDE DEF size
  <2> QED
    BY <2>5, <2>6, PreparedFits
<1>3. ASSUME NEW x \in Contents["GetGnssSnapshot"], Published("GetGnssSnapshot", x)
      PROVE  Fits(SerializeGnssSnapshotResponse(x))
  <2> DEFINE size == 88 + 24 * x
  <2>1. x \in Nat /\ x <= 64
    BY <1>3, ContentsAreKept DEF Published
  <2>2. size \in Nat /\ size <= 65535
    BY <2>1
  <2> HIDE DEF size
  <2>3. Fits(PrepareList(size))
    BY <2>2, PreparedFits
  <2> QED
    BY <2>3 DEF size, SerializeGnssSnapshotResponse
<1>4. request.command \in { "GetSensorSimulationConfig", "ListSensors", "GetSensorSnapshot",
                            "GetGnssConfig", "GetGnssCapabilities", "GetGnssSnapshot" }
  BY DEF Gets
<1> QED
  BY <1>1, <1>2, <1>3, <1>4, FixedAnswersFit DEF SimulationReply

(* The encoders report a configuration that is complete, or refuse.        *)
LEMMA EncoderAnswersFit ==
  /\ \A state \in Contents["SetVideoEncoderConfig"] : Fits(SerializeVideoEncoderConfigResponse(state))
  /\ \A state \in Contents["SetAudioEncoderConfig"] : Fits(SerializeAudioEncoderConfigResponse(state))
<1>1. Fits(Response(32, 0)) /\ Fits(Response(20, 0))
  BY Limits, ResponseFits
<1>2. ASSUME NEW state \in Contents["SetVideoEncoderConfig"]
      PROVE  SerializeVideoEncoderConfigResponse(state) = Response(32, 0)
  BY ContentsAreKept, Zenon DEF SerializeVideoEncoderConfigResponse
<1>3. ASSUME NEW state \in Contents["SetAudioEncoderConfig"]
      PROVE  SerializeAudioEncoderConfigResponse(state) = Response(20, 0)
  BY ContentsAreKept, Zenon DEF SerializeAudioEncoderConfigResponse
<1> QED
  BY <1>1, <1>2, <1>3

(* Whatever the queried state may hold, and whatever a service answers,    *)
(* there is an answer that fits the protocol's limit and the 16-bit size   *)
(* that announces it: the channel never gives up a host over its own       *)
(* response (the Serialize*Response functions, HostControlChannel::Run).   *)
THEOREM AnswersFit == Spec => []ResponsesFit
<1>1. Init => ResponsesFit
  BY DEF Init, ResponsesFit
<1>2. ResponsesFit /\ [Next]_vars => ResponsesFit'
  <2> SUFFICES ASSUME ResponsesFit, [Next]_vars PROVE ResponsesFit'
    OBVIOUS
  <2>1. ASSUME NEW r, Fits(r), Reply(r) PROVE ResponsesFit'
    BY <2>1 DEF Reply, ResponsesFit
  <2>2. \A why : Fits(Refusal(why))
    BY FixedAnswersFit
  <2>3. CASE Refuse
    BY <2>1, <2>2, <2>3 DEF Refuse
  <2>4. CASE HandleTopology
    BY <2>1, <2>2, <2>4, FixedAnswersFit DEF HandleTopology
  <2>5. CASE HandleEncoders
    BY <2>1, <2>2, <2>5, EncoderAnswersFit DEF HandleEncoders, HandleEncoder
  <2>6. CASE HandleSimulation
    <3>1. CASE \E part, v : SetConfig(part, v)
      BY <2>1, <3>1, FixedAnswersFit DEF SetConfig
    <3>2. CASE ResetConfig \/ PublishExternalStates
      BY <2>1, <3>2, FixedAnswersFit DEF ResetConfig, PublishExternalStates
    <3>3. CASE request.command \in Gets.simulation /\ \E r \in SimulationReply : Reply(r)
      BY <2>1, <3>3, SimulationAnswersFit
    <3>4. CASE Reply(Refusal("malformed"))
      BY <2>1, <2>2, <3>4
    <3> QED
      BY <2>6, <3>1, <3>2, <3>3, <3>4, Zenon DEF HandleSimulation
  <2>7. CASE HandleRemote
    <3>1. ASSUME request.command \in Capabilities PROVE Fits(CapabilitiesReply)
      BY <3>1, FixedAnswersFit DEF Capabilities, CapabilitiesReply
    <3>2. CASE /\ request.command \in Capabilities
               /\ Reply(IF request.payload.size = 0 THEN CapabilitiesReply ELSE Refusal("malformed"))
      BY <2>1, <2>2, <3>1, <3>2
    <3>3. CASE Reply(Refusal("internal")) \/ Reply(Refusal("malformed"))
      BY <2>1, <2>2, <3>3
    <3>4. CASE phase' = "calling"
      BY <3>4 DEF ResponsesFit
    <3> QED
      BY <2>7, <3>2, <3>3, <3>4, Zenon DEF HandleRemote
  <2>8. CASE CallRemote
    <3>1. ASSUME NEW r \in RemoteReply PROVE Fits(r)
      BY <3>1, RadioAnswersFit, WifiAnswersFit, FixedAnswersFit DEF RemoteReply, PowerReply
    <3>2. CASE phase' = "calling again"
      BY <3>2 DEF ResponsesFit
    <3>3. CASE \E r \in RemoteReply : Reply(r)
      BY <2>1, <3>1, <3>3
    <3>4. CASE Reply(Refusal("internal"))
      BY <2>1, <2>2, <3>4
    <3> QED
      BY <2>8, <3>2, <3>3, <3>4, Zenon DEF CallRemote
  <2>9. CASE UNCHANGED workerVars
    BY <2>9 DEF workerVars, ResponsesFit
  <2>10. CASE phase' # "answered"
    BY <2>10 DEF ResponsesFit
  <2>11. CASE ReceiveRequest \/ SendAnswer \/ ExpireTopology \/ ExpireSimulation \/ ExpireRemote
              \/ ReleaseRemote
    <3>1. phase' # "answered"
      BY <2>11 DEF ReceiveRequest, SendAnswer, ExpireTopology, ExpireSimulation, ExpireRemote,
                   ReleaseRemote
    <3> QED
      BY <2>10, <3>1
  <2>12. CASE TellTopology \/ OthersMove \/ ServiceDies \/ ServiceStarts \/ HostComes \/ HostGoes
    BY <2>9, <2>12 DEF TellTopology, OthersMove, ServiceDies, ServiceStarts, HostComes, HostGoes
  <2>13. CASE UNCHANGED vars
    BY <2>9, <2>13 DEF vars
  <2> QED
    BY <2>3, <2>4, <2>5, <2>6, <2>7, <2>8, <2>11, <2>12, <2>13 DEF Next, Worker, Handle
<1> QED
  BY <1>1, <1>2, PTL DEF Spec
-----------------------------------------------------------------------------
(* The requests *)

(* What the worker has in hand came from a host that may use its area.     *)
RequestInv ==
  /\ areas \in AreaSets
  /\ phase = "received" => request \in PlainRequests \union OddRequests

(* A parser reads the header it found room for, and the rest only if the   *)
(* size is right.                                                          *)
Inside(verdict, p) == verdict.read <= p.size

(* Requests of one size: nothing is read of a payload of another.          *)
LEMMA FixedReadsInside ==
  ASSUME NEW p, p.size \in Nat, NEW size \in Nat, NEW fields
  PROVE  Inside(Fixed(p, size, fields), p) /\ Inside(IsEmpty(p), p)
<1>1. Fixed(p, size, fields).read = IF p.size = size THEN size ELSE 0
  BY Zenon DEF Fixed, Verdict
<1>2. IsEmpty(p).read = 0
  BY Zenon DEF IsEmpty, Verdict
<1> QED
  BY <1>1, <1>2 DEF Inside

(* Lists: the header, then as many records as the size has room for exactly. *)
LEMMA ListReadsInside ==
  ASSUME NEW p, p.size \in Nat, NEW header \in Nat, NEW record, NEW limits, NEW leased, NEW good
  PROVE  Inside(List(p, header, record, limits, leased, good), p)
<1> DEFINE framed == HasListHeader(p, header) /\ Records(p, header, record, limits)
                       /\ (leased => ValidLease(p.lease))
<1>1. List(p, header, record, limits, leased, good).read =
        IF framed THEN header + p.count * record ELSE IF p.size >= header THEN header ELSE 0
  BY Zenon DEF List, Verdict
<1>2. framed => p.size = header + p.count * record
  BY Zenon DEF Records
<1> HIDE DEF framed
<1>3. p.size <= p.size /\ 0 <= p.size /\ (p.size >= header => header <= p.size)
  OBVIOUS
<1> QED
  BY <1>1, <1>2, <1>3, Zenon DEF Inside

(* External states: likewise, behind a shorter header.                     *)
LEMMA BatchReadsInside ==
  ASSUME NEW p, p.size \in Nat
  PROVE  Inside(ParseExternalPoseBatch(p), p) /\ Inside(ParseExternalGnssBatch(p), p)
<1>1. Batch(p).read = IF ParseBatchHeader(p, 56) THEN 8 + p.count * 56
                      ELSE IF p.size >= 8 THEN 8 ELSE 0
  BY Zenon DEF Batch, Verdict
<1>2. ParseBatchHeader(p, 56) => p.size = 8 + p.count * 56
  BY Zenon DEF ParseBatchHeader, Records
<1>3. p.size <= p.size /\ 0 <= p.size /\ (p.size >= 8 => 8 <= p.size)
  OBVIOUS
<1>4. Inside(Batch(p), p)
  BY <1>1, <1>2, <1>3, Zenon DEF Inside
<1> QED
  BY <1>4 DEF ParseExternalPoseBatch, ParseExternalGnssBatch

(* Calls and messages: the header, then the texts once their lengths add up. *)
LEMMA TextsReadInside ==
  ASSUME NEW p, p.size \in Nat
  PROVE  Inside(ParseIncomingCallRequest(p), p) /\ Inside(ParseIncomingSmsRequest(p), p)
<1>1. Inside(List(p, 12, 1, 1 .. 20, FALSE, TRUE), p)
  BY ListReadsInside
<1>2. ParseIncomingCallRequest(p).read = List(p, 12, 1, 1 .. 20, FALSE, TRUE).read
  BY Zenon DEF ParseIncomingCallRequest, Verdict
<1> DEFINE framed == HasListHeader(p, 16) /\ p.count \in 1 .. 20 /\ p.body \in 1 .. 1024
                       /\ p.size = 16 + p.count + p.body
<1>3. ParseIncomingSmsRequest(p).read = IF framed THEN p.size ELSE IF p.size >= 16 THEN 16 ELSE 0
  BY Zenon DEF ParseIncomingSmsRequest, Verdict
<1> HIDE DEF framed
<1>4. p.size <= p.size /\ 0 <= p.size /\ (p.size >= 16 => 16 <= p.size)
  OBVIOUS
<1> QED
  BY <1>1, <1>2, <1>3, <1>4, Zenon DEF Inside

(* The loop over the displays: a record is only read where it has room,    *)
(* and whatever size it declares, the next begins within the payload       *)
(* (ParseReplaceDisplayTopologyRequest).                                   *)
ScanIsInside(p, s) ==
  /\ s = [ ok |-> s.ok, at |-> s.at, read |-> s.read ]
  /\ s.at \in Nat /\ s.at <= p.size /\ s.read \in Nat /\ s.read <= p.size

(* One turn of it.                                                         *)
LEMMA RecordReadsInside ==
  ASSUME NEW p, p.size \in Nat, NEW before, ScanIsInside(p, before), NEW r, r.size \in Nat
  PROVE  ScanIsInside(p, ScanRecord(p, before, r))
<1> DEFINE left == p.size - before.at
           after == ScanRecord(p, before, r)
<1>1. /\ before = [ ok |-> before.ok, at |-> before.at, read |-> before.read ]
      /\ before.at \in Nat /\ before.at <= p.size /\ before.read \in Nat /\ before.read <= p.size
  BY DEF ScanIsInside
<1>2. CASE ~before.ok \/ left < 36
  <2>1. after = [ before EXCEPT !.ok = FALSE ]
    BY <1>2, Zenon DEF ScanRecord
  <2>2. after = [ ok |-> FALSE, at |-> before.at, read |-> before.read ]
    BY <1>1, <2>1
  <2> HIDE DEF after
  <2>3. ScanIsInside(p, after)
    BY <1>1, <2>2 DEF ScanIsInside
  <2> QED
    BY <2>3 DEF after
<1>3. CASE ~(~before.ok \/ left < 36) /\ ~RecordFits(r, left)
  <2>1. after = [ before EXCEPT !.ok = FALSE, !.read = before.at + 36 ]
    BY <1>3, Zenon DEF ScanRecord
  <2>2. after = [ ok |-> FALSE, at |-> before.at, read |-> before.at + 36 ]
    BY <1>1, <2>1
  <2> HIDE DEF after
  <2>3. before.at + 36 <= p.size
    BY <1>1, <1>3
  <2>4. ScanIsInside(p, after)
    BY <1>1, <2>2, <2>3 DEF ScanIsInside
  <2> QED
    BY <2>4 DEF after
<1>4. CASE ~(~before.ok \/ left < 36) /\ RecordFits(r, left)
  <2> DEFINE ok == r.display.port <= 255 /\ r.zero /\ IsValidUtf8(r.display.name)
  <2>1. after = [ ok |-> ok, at |-> before.at + r.size, read |-> before.at + r.size ]
    BY <1>4, Zenon DEF ScanRecord
  <2>2. r.size <= left
    BY <1>4, Zenon DEF RecordFits
  <2> HIDE DEF after, ok
  <2>3. before.at + r.size \in Nat /\ before.at + r.size <= p.size
    BY <1>1, <2>2
  <2>4. ScanIsInside(p, after)
    BY <2>1, <2>3 DEF ScanIsInside
  <2> QED
    BY <2>4 DEF after
<1> QED
  BY <1>2, <1>3, <1>4, Zenon

(* Where the turns of the loop lead, one from the last.                    *)
Turns(p, scan) ==
  /\ scan[0] = ScanStart
  /\ \A i \in 1 .. p.count : scan[i] = ScanRecord(p, scan[i - 1], RecordAt(p, i))

(* The scan exists: it is where the last turn led.                         *)
LEMMA ScanRuns ==
  ASSUME NEW p, p.count \in Nat
  PROVE  \E scan : Turns(p, scan) /\ TopologyScan(p) = scan[p.count]
<1> DEFINE Scan(f, n) ==
             f = [ i \in 0 .. n |-> IF i = 0 THEN ScanStart
                                    ELSE ScanRecord(p, f[i - 1], RecordAt(p, i)) ]
           Reached(n) == \E f : Scan(f, n)
           T == { n \in Nat : ~Reached(n) }
<1>1. ASSUME T # {} PROVE FALSE
  <2>1. PICK n \in T : \A m \in T : n <= m
    <3>1. T \subseteq Nat
      OBVIOUS
    <3> HIDE DEF T
    <3> QED
      BY <1>1, <3>1, Least
  <2>2. n \in Nat /\ ~Reached(n)
    BY <2>1
  <2>3. Reached(0)
    <3> DEFINE one == [ i \in 0 .. 0 |-> ScanStart ]
    <3>1. ASSUME NEW i \in 0 .. 0
          PROVE  one[i] = IF i = 0 THEN ScanStart ELSE ScanRecord(p, one[i - 1], RecordAt(p, i))
      OBVIOUS
    <3>2. one = [ i \in 0 .. 0 |-> one[i] ]
      OBVIOUS
    <3> HIDE DEF one
    <3>3. Scan(one, 0)
      BY <3>1, <3>2
    <3> QED
      BY <3>3
  <2> HIDE DEF Reached
  <2>4. n # 0
    <3> HIDE DEF T
    <3> QED
      BY <2>2, <2>3
  <2>5. n - 1 \in Nat /\ n - 1 \notin T
    BY <2>1, <2>2, <2>4
  <2>6. PICK f : Scan(f, n - 1)
    BY <2>5 DEF Reached
  <2> DEFINE g == [ i \in 0 .. n |-> IF i = n THEN ScanRecord(p, f[n - 1], RecordAt(p, n)) ELSE f[i] ]
  <2>7. ASSUME NEW i \in 0 .. n
        PROVE  g[i] = IF i = 0 THEN ScanStart ELSE ScanRecord(p, g[i - 1], RecordAt(p, i))
    <3>1. CASE i = n
      BY <2>2, <2>4, <2>5, <3>1
    <3>2. CASE i # n
      <4>1. i \in 0 .. n - 1 /\ (i # 0 => i - 1 \in 0 .. n /\ i - 1 # n)
        BY <2>2, <3>2
      <4>2. f[i] = IF i = 0 THEN ScanStart ELSE ScanRecord(p, f[i - 1], RecordAt(p, i))
        BY <2>6, <4>1
      <4> QED
        BY <3>2, <4>1, <4>2
    <3> QED
      BY <3>1, <3>2
  <2>8. g = [ i \in 0 .. n |-> g[i] ]
    OBVIOUS
  <2> HIDE DEF g
  <2>9. Scan(g, n)
    BY <2>7, <2>8
  <2> QED
    BY <2>2, <2>9 DEF Reached
<1>2. PICK f : Scan(f, p.count)
  <2>1. p.count \notin T
    <3> HIDE DEF T
    <3> QED
      BY <1>1
  <2> QED
    BY <2>1
<1> DEFINE scan == CHOOSE h : Scan(h, p.count)
<1>3. TopologyScan(p) = scan[p.count]
  BY DEF TopologyScan
<1>4. Scan(scan, p.count)
  BY <1>2, Zenon
<1> HIDE DEF scan
<1>5. /\ scan[0] = ScanStart
      /\ \A i \in 1 .. p.count : scan[i] = ScanRecord(p, scan[i - 1], RecordAt(p, i))
  BY <1>4
<1> QED
  BY <1>3, <1>5 DEF Turns

(* No first turn leaves the payload.                                       *)
LEMMA TurnsReadInside ==
  ASSUME NEW p, p.size \in Nat, p.size >= 8, p.count \in Nat,
         \A i \in Nat : RecordAt(p, i).size \in Nat,
         NEW scan, Turns(p, scan)
  PROVE  \A n \in 0 .. p.count : ScanIsInside(p, scan[n])
<1>1. /\ scan[0] = ScanStart
      /\ \A i \in 1 .. p.count : scan[i] = ScanRecord(p, scan[i - 1], RecordAt(p, i))
  BY DEF Turns
<1> DEFINE U == { n \in 0 .. p.count : ~ScanIsInside(p, scan[n]) }
<1>2. ASSUME U # {} PROVE FALSE
  <2>1. PICK n \in U : \A m \in U : n <= m
    <3>1. U \subseteq Nat
      OBVIOUS
    <3> HIDE DEF U
    <3> QED
      BY <1>2, <3>1, Least
  <2>2. n \in 0 .. p.count /\ ~ScanIsInside(p, scan[n])
    BY <2>1
  <2>3. ScanIsInside(p, ScanStart)
    BY DEF ScanIsInside, ScanStart
  <2>4. n \in 1 .. p.count /\ n - 1 \in 0 .. p.count /\ n - 1 \notin U
    <3>1. n # 0
      BY <1>1, <2>2, <2>3, Zenon
    <3>2. n \in 1 .. p.count /\ n - 1 \in 0 .. p.count /\ ~(n <= n - 1)
      BY <2>2, <3>1
    <3> HIDE DEF U
    <3> QED
      BY <2>1, <3>2, Zenon
  <2>5. ScanIsInside(p, scan[n - 1])
    BY <2>4
  <2>6. RecordAt(p, n).size \in Nat
    BY <2>4
  <2>7. ScanIsInside(p, scan[n])
    BY <1>1, <2>4, <2>5, <2>6, RecordReadsInside
  <2> QED
    BY <2>2, <2>7
<1> QED
  BY <1>2

(* So the last turn is inside.                                             *)
LEMMA ScanReadsInside ==
  ASSUME NEW p, p.size \in Nat, p.size >= 8, p.count \in Nat,
         \A i \in Nat : RecordAt(p, i).size \in Nat
  PROVE  ScanIsInside(p, TopologyScan(p))
<1>1. PICK scan : Turns(p, scan) /\ TopologyScan(p) = scan[p.count]
  BY ScanRuns
<1>2. p.count \in 0 .. p.count
  OBVIOUS
<1> QED
  BY <1>1, <1>2, TurnsReadInside

(* So its parser reads no further than that.                               *)
LEMMA TopologyReadsInside ==
  ASSUME NEW p, p.size \in Nat, p.count \in Nat, \A i \in Nat : RecordAt(p, i).size \in Nat
  PROVE  Inside(ParseReplaceDisplayTopologyRequest(p), p)
<1> DEFINE listed == p.size >= 8 /\ p.zero /\ p.count <= MaxDisplays
<1>1. ParseReplaceDisplayTopologyRequest(p).read =
        IF listed THEN TopologyScan(p).read ELSE IF p.size >= 8 THEN 8 ELSE 0
  BY Zenon DEF ParseReplaceDisplayTopologyRequest, Verdict
<1>2. listed => TopologyScan(p).read <= p.size
  BY ScanReadsInside DEF ScanIsInside
<1> HIDE DEF listed
<1>3. 0 <= p.size /\ (p.size >= 8 => 8 <= p.size)
  OBVIOUS
<1> QED
  BY <1>1, <1>2, <1>3, Zenon DEF Inside

(* Every parser of an area in another process.                             *)
LEMMA RemoteReadsInside ==
  ASSUME NEW p, p.size \in Nat PROVE Inside(RemoteParse(p), p)
<1>1. Inside(PowerParse(p), p)
  BY FixedReadsInside DEF PowerParse, ParseManualPowerRequest
<1>2. Inside(RadioParse(p), p)
  BY FixedReadsInside, ListReadsInside, TextsReadInside DEF RadioParse, ParseRegistrationRequest,
     ParseSignalRequest, ParseCellsRequest, ParseSimStateRequest, ParseCallStateRequest
<1>3. Inside(WifiParse(p), p)
  <2>1. Inside(ParseAccessPointsRequest(p), p)
    BY ListReadsInside DEF ParseAccessPointsRequest
  <2>2. Inside(ParseSamplesRequest(p), p)
    <3> DEFINE good == \A i \in DOMAIN p.records :
                         p.records[i].key > (IF i = 1 THEN 0 ELSE p.records[i - 1].key)
    <3>1. ParseSamplesRequest(p) = List(p, 16, 32, 1 .. 256, TRUE, good)
      BY Zenon DEF ParseSamplesRequest
    <3> HIDE DEF good
    <3> QED
      BY <3>1, ListReadsInside
  <2>3. /\ Inside(ParseEnabledRequest(p), p) /\ Inside(ParseConnectionRequest(p), p)
        /\ Inside(ParseLinkRequest(p), p) /\ Inside(IsEmpty(p), p)
    BY FixedReadsInside DEF ParseEnabledRequest, ParseConnectionRequest, ParseLinkRequest
  <2> QED
    BY <2>1, <2>2, <2>3 DEF WifiParse
<1> QED
  BY <1>1, <1>2, <1>3 DEF RemoteParse

(* Every parser of an area in this process but the displays'.              *)
LEMMA LocalReadsInside ==
  ASSUME NEW p, p.size \in Nat
  PROVE  /\ Inside(SimulationParse(p), p)
         /\ Inside(ParseVideoEncoderConfigRequest(p), p)
         /\ Inside(ParseAudioEncoderConfigRequest(p), p)
<1>1. Inside(SimulationParse(p), p)
  BY FixedReadsInside, BatchReadsInside DEF SimulationParse, ParseMotionConfigRequest,
     ParseEnvironmentConfigRequest, ParseGnssConfigRequest
<1>2. /\ ParseVideoEncoderConfigRequest(p).read = IF p.size = 48 THEN 48 ELSE 0
      /\ ParseAudioEncoderConfigRequest(p).read = IF p.size = 16 THEN 16 ELSE 0
  BY Zenon DEF ParseVideoEncoderConfigRequest, ParseAudioEncoderConfigRequest, Verdict
<1>3. Inside(ParseVideoEncoderConfigRequest(p), p) /\ Inside(ParseAudioEncoderConfigRequest(p), p)
  BY <1>2 DEF Inside
<1> QED
  BY <1>1, <1>3

(* A request in hand stays what it was until it is answered.               *)
LEMMA RequestsStay ==
  ASSUME RequestInv, [Next]_vars
  PROVE  RequestInv'
<1>1. areas' = areas
  BY DEF Next, Worker, Handle, vars, hostVars, ReceiveRequest, Refuse, HandleTopology,
    HandleEncoders, HandleSimulation, HandleRemote, CallRemote, TellTopology, SendAnswer,
    ExpireTopology, ExpireSimulation, ExpireRemote, ReleaseRemote, OthersMove, ServiceDies,
    ServiceStarts, HostComes, HostGoes
<1>2. PlainRequests' = PlainRequests /\ OddRequests' = OddRequests
  BY <1>1 DEF PlainRequests, OddRequests
<1>3. CASE ReceiveRequest
  BY <1>1, <1>2, <1>3 DEF ReceiveRequest, RequestInv
<1>4. CASE UNCHANGED workerVars
  BY <1>1, <1>2, <1>4 DEF workerVars, RequestInv
<1>5. ASSUME phase' # "received" PROVE RequestInv'
  BY <1>1, <1>5 DEF RequestInv
<1>6. CASE Refuse \/ HandleTopology \/ HandleEncoders \/ HandleSimulation \/ HandleRemote
           \/ CallRemote \/ SendAnswer \/ ExpireTopology \/ ExpireSimulation \/ ExpireRemote
           \/ ReleaseRemote
  <2>1. phase' # "received"
    BY <1>6 DEF Refuse, HandleTopology, HandleEncoders, HandleEncoder, HandleSimulation,
      HandleRemote, CallRemote, SendAnswer, ExpireTopology, ExpireSimulation, ExpireRemote,
      ReleaseRemote, Reply, SetConfig, ResetConfig, PublishExternalStates
  <2> QED
    BY <1>5, <2>1
<1>7. CASE TellTopology \/ OthersMove \/ ServiceDies \/ ServiceStarts \/ HostComes \/ HostGoes
           \/ UNCHANGED vars
  BY <1>4, <1>7 DEF TellTopology, OthersMove, ServiceDies, ServiceStarts, HostComes, HostGoes, vars
<1> QED
  BY <1>3, <1>6, <1>7 DEF Next, Worker, Handle

(* So the parser that gets it stays inside its payload.                    *)
LEMMA ParserStaysInside ==
  ASSUME RequestInv PROVE ParsersReadInside
<1> SUFFICES ASSUME NEW area \in areas, Handling(area)
             PROVE  ParsersVerdict.read <= request.payload.size
  BY DEF ParsersReadInside
<1> DEFINE p == request.payload
<1>1. /\ request \in PlainRequests \union OddRequests
      /\ request.command \in CommandsOf(area) /\ area \in UNION AreaSets
  BY DEF RequestInv, Handling
<1>2. request.command # Unknown
  BY <1>1, AreasAreKnown DEF CommandsOf, Sets, Gets, Unknown
<1>3. p \in Payloads[request.command] \union OddPayloads[request.command]
  BY <1>1, <1>2, PayloadsAreKept
<1>4. p.size \in Nat /\ p.count \in Nat
  BY <1>1, <1>3, PayloadsAreSized
<1> HIDE DEF p
<1>5. Inside(RemoteParse(p), p) /\ Inside(SimulationParse(p), p)
      /\ Inside(ParseVideoEncoderConfigRequest(p), p)
      /\ Inside(ParseAudioEncoderConfigRequest(p), p)
  BY <1>4, RemoteReadsInside, LocalReadsInside
<1>6. CASE Handling("topology")
  <2>1. request.command = "ReplaceDisplayTopology"
    BY <1>6 DEF Handling, CommandsOf, Sets, Gets
  <2>2. \A i \in Nat : RecordAt(p, i).size \in Nat
    <3>1. \A i \in DOMAIN p.records : p.records[i].size \in Nat
      <4>1. p.records \in Seq(DisplayRecords)
        BY <1>3, <2>1, DisplaysAreListed, Zenon DEF IsDisplayPayload
      <4>2. \A r \in DisplayRecords : r.size \in Nat
        BY DEF DisplayRecords
      <4> QED
        BY <4>1, <4>2
    <3>2. NoRecord.size \in Nat
      BY DEF NoRecord
    <3> QED
      BY <3>1, <3>2 DEF RecordAt
  <2>3. Inside(ParseReplaceDisplayTopologyRequest(p), p)
    BY <1>4, <2>2, TopologyReadsInside
  <2>4. ~Handling("video") /\ ~Handling("audio") /\ ~Handling("simulation")
    BY <2>1 DEF Handling, CommandsOf, Sets, Gets
  <2> QED
    BY <1>6, <2>3, <2>4, Zenon DEF ParsersVerdict, Inside, p
<1>7. CASE ~Handling("topology")
  BY <1>5, <1>7, Zenon DEF ParsersVerdict, Inside, p
<1> QED
  BY <1>6, <1>7

(* Whatever a host sends, the parser that gets it never looks past the     *)
(* payload: it reads a header that is there, and as many records, texts    *)
(* and displays as it has found room for (the Parse*Request functions).    *)
THEOREM NothingIsReadBeyond == Spec => []ParsersReadInside
<1>1. Init => RequestInv
  BY DEF Init, RequestInv
<1>2. RequestInv /\ [Next]_vars => RequestInv'
  BY RequestsStay
<1>3. RequestInv => ParsersReadInside
  BY ParserStaysInside
<1> QED
  BY <1>1, <1>2, <1>3, PTL DEF Spec

-----------------------------------------------------------------------------
(* The displays as this code writes them *)

\* A record the parser takes, where it has room.
Takes(r) ==
  /\ r.rates <= MaxRates /\ r.name <= MaxName
  /\ r.size = Aligned(36 + 4 * r.rates + r.name)
  /\ r.display.port <= 255 /\ r.zero /\ IsValidUtf8(r.display.name)

\* The code writes this list, whose ports are bytes.
IsWritten(ds) ==
  /\ SerializeReplaceDisplayTopologyRequest(ds).ok
  /\ \A i \in 1 .. Len(ds) : ds[i].port <= 255

(* A record of a display has its 36 bytes before rates and name.           *)
LEMMA AlignedHolds ==
  ASSUME NEW n \in Nat PROVE Aligned(n) \in Nat /\ Aligned(n) >= n
BY DEF Aligned

(* A turn that ends well has taken its record, where the last one ended... *)
LEMMA TurnTakes ==
  ASSUME NEW p, p.size \in Nat, NEW before, ScanIsInside(p, before), NEW r, r.size \in Nat,
         ScanRecord(p, before, r).ok
  PROVE  before.ok /\ Takes(r) /\ ScanRecord(p, before, r).at = before.at + r.size
<1> DEFINE left == p.size - before.at
           after == ScanRecord(p, before, r)
<1>1. before = [ ok |-> before.ok, at |-> before.at, read |-> before.read ]
  BY DEF ScanIsInside
<1>2. CASE ~before.ok \/ left < 36
  <2>1. after = [ before EXCEPT !.ok = FALSE ]
    BY <1>2, Zenon DEF ScanRecord
  <2>2. after.ok = FALSE
    BY <1>1, <2>1
  <2> QED
    BY <2>2
<1>3. CASE ~(~before.ok \/ left < 36) /\ ~RecordFits(r, left)
  <2>1. after = [ before EXCEPT !.ok = FALSE, !.read = before.at + 36 ]
    BY <1>3, Zenon DEF ScanRecord
  <2>2. after.ok = FALSE
    BY <1>1, <2>1
  <2> QED
    BY <2>2
<1>4. CASE ~(~before.ok \/ left < 36) /\ RecordFits(r, left)
  <2> DEFINE ok == r.display.port <= 255 /\ r.zero /\ IsValidUtf8(r.display.name)
  <2>1. after = [ ok |-> ok, at |-> before.at + r.size, read |-> before.at + r.size ]
    BY <1>4, Zenon DEF ScanRecord
  <2> HIDE DEF after, ok
  <2>2. (after.ok <=> ok) /\ after.at = before.at + r.size
    BY <2>1
  <2>3. before.ok /\ ok
    BY <1>4, <2>2, Zenon DEF after
  <2>4. Takes(r)
    BY <1>4, <2>3, Zenon DEF Takes, RecordFits, ok
  <2> QED
    BY <2>2, <2>3, <2>4 DEF after
<1> QED
  BY <1>2, <1>3, <1>4, Zenon

(* ... and a turn on a record to take, that has room, ends well.           *)
LEMMA TurnFollows ==
  ASSUME NEW p, p.size \in Nat, NEW before, ScanIsInside(p, before), before.ok,
         NEW r, r.size \in Nat, r.rates \in Nat, r.name \in Nat, Takes(r), before.at + r.size <= p.size
  PROVE  ScanRecord(p, before, r).ok /\ ScanRecord(p, before, r).at = before.at + r.size
<1> DEFINE left == p.size - before.at
           ok == r.display.port <= 255 /\ r.zero /\ IsValidUtf8(r.display.name)
<1>1. before.at \in Nat
  BY DEF ScanIsInside
<1>2. 36 + 4 * r.rates + r.name \in Nat /\ 36 + 4 * r.rates + r.name >= 36
  OBVIOUS
<1>3. r.size = Aligned(36 + 4 * r.rates + r.name)
  BY Zenon DEF Takes
<1> DEFINE n == 36 + 4 * r.rates + r.name
<1> HIDE DEF n
<1>4. r.size >= n
  BY <1>2, <1>3, AlignedHolds DEF n
<1>5. r.size >= 36 /\ r.size <= left
  BY <1>1, <1>2, <1>4 DEF n
<1>6. ~(left < 36)
  BY <1>1, <1>5
<1> HIDE DEF left
<1>7. RecordFits(r, left)
  BY <1>5, Zenon DEF Takes, RecordFits
<1>8. ScanRecord(p, before, r) = [ ok |-> ok, at |-> before.at + r.size, read |-> before.at + r.size ]
  BY <1>6, <1>7, Zenon DEF ScanRecord, left
<1>9. ok
  BY Zenon DEF Takes
<1> HIDE DEF ok
<1> QED
  BY <1>8, <1>9

(* A running sum of sizes never falls.                                     *)
LEMMA SumGrows ==
  ASSUME NEW sizes \in Seq(Nat), NEW sum, Running(sizes, sum), NEW n \in 0 .. Len(sizes)
  PROVE  sum[n] <= sum[Len(sizes)]
<1> DEFINE T == { k \in 0 .. Len(sizes) - n : ~(sum[n] <= sum[n + k]) }
<1>1. Len(sizes) \in Nat
  OBVIOUS
<1>2. ASSUME T # {} PROVE FALSE
  <2>1. PICK k \in T : \A m \in T : k <= m
    <3>1. T \subseteq Nat
      BY <1>1
    <3> HIDE DEF T
    <3> QED
      BY <1>2, <3>1, Least
  <2>2. k \in 0 .. Len(sizes) - n /\ ~(sum[n] <= sum[n + k])
    BY <2>1
  <2>3. sum[n] \in Nat
    BY DEF Running
  <2>4. k # 0
    BY <2>2, <2>3
  <2>5. k - 1 \in 0 .. Len(sizes) - n /\ k - 1 \notin T /\ n + k \in 1 .. Len(sizes)
    BY <1>1, <2>1, <2>2, <2>4
  <2>6. n + (k - 1) = (n + k) - 1 /\ (n + k) - 1 \in 0 .. Len(sizes)
    BY <1>1, <2>2, <2>5
  <2>7. sum[n] <= sum[(n + k) - 1]
    BY <2>5, <2>6
  <2> HIDE DEF T
  <2>8. sum[n + k] = sum[(n + k) - 1] + sizes[n + k] /\ sizes[n + k] \in Nat /\ sum[(n + k) - 1] \in Nat
    <3>1. sizes[n + k] \in Nat
      BY <1>1, <2>5
    <3> QED
      BY <2>5, <2>6, <3>1 DEF Running
  <2>9. \A a, b, c \in Nat : a <= b => a <= b + c
    OBVIOUS
  <2>10. sum[n] <= sum[n + k]
    BY <2>3, <2>7, <2>8, <2>9, Zenon
  <2> QED
    BY <2>2, <2>10, Zenon
<1>3. Len(sizes) - n \in 0 .. Len(sizes) - n /\ n + (Len(sizes) - n) = Len(sizes)
  BY <1>1
<1> QED
  BY <1>2, <1>3

Sizes(p) == [ i \in 1 .. Len(p.records) |-> p.records[i].size ]

(* What the records of a payload are.                                      *)
LEMMA RecordsOfPayload ==
  ASSUME NEW p, IsDisplayPayload(p)
  PROVE  /\ p.size \in Nat /\ p.count \in Nat /\ Len(p.records) \in Nat
         /\ DOMAIN p.records = 1 .. Len(p.records)
         /\ \A i \in 1 .. Len(p.records) :
              /\ RecordAt(p, i) = p.records[i]
              /\ p.records[i] = [ size |-> p.records[i].size, rates |-> p.records[i].rates,
                                  name |-> p.records[i].name, zero |-> p.records[i].zero,
                                  display |-> p.records[i].display ]
              /\ { p.records[i].size, p.records[i].rates, p.records[i].name } \subseteq Nat
              /\ p.records[i].zero \in BOOLEAN
              /\ p.records[i].size = Aligned(36 + 4 * p.records[i].rates + p.records[i].name) =>
                   /\ p.records[i].rates = Len(p.records[i].display.rates)
                   /\ p.records[i].name = Len(p.records[i].display.name)
         /\ Sizes(p) \in Seq(Nat) /\ Len(Sizes(p)) = Len(p.records)
         /\ \A i \in 1 .. Len(p.records) : Sizes(p)[i] = p.records[i].size
         /\ \A i \in Nat : RecordAt(p, i).size \in Nat
<1>1. p.records \in Seq(DisplayRecords) /\ p.size \in Nat /\ p.count \in Nat
  BY DEF IsDisplayPayload
<1>2. \A r \in DisplayRecords :
        /\ r = [ size |-> r.size, rates |-> r.rates, name |-> r.name, zero |-> r.zero,
                 display |-> r.display ]
        /\ { r.size, r.rates, r.name } \subseteq Nat /\ r.zero \in BOOLEAN
  BY DEF DisplayRecords
<1>3. /\ Len(p.records) \in Nat /\ DOMAIN p.records = 1 .. Len(p.records)
      /\ \A i \in 1 .. Len(p.records) : p.records[i] \in DisplayRecords
  BY <1>1
<1>4. Sizes(p) \in Seq(Nat) /\ Len(Sizes(p)) = Len(p.records)
      /\ \A i \in 1 .. Len(p.records) : Sizes(p)[i] = p.records[i].size
  <2>1. \A i \in 1 .. Len(p.records) : p.records[i].size \in Nat
    BY <1>2, <1>3
  <2>2. Sizes(p) \in [ 1 .. Len(p.records) -> Nat ]
    BY <2>1 DEF Sizes
  <2> QED
    BY <1>3, <2>2 DEF Sizes
<1>5. \A i \in 1 .. Len(p.records) : RecordAt(p, i) = p.records[i]
  BY <1>3 DEF RecordAt
<1>6. \A i \in Nat : RecordAt(p, i).size \in Nat
  BY <1>2, <1>3 DEF RecordAt, NoRecord
<1>7. \A i \in 1 .. Len(p.records) :
        p.records[i].size = Aligned(36 + 4 * p.records[i].rates + p.records[i].name) =>
          /\ p.records[i].rates = Len(p.records[i].display.rates)
          /\ p.records[i].name = Len(p.records[i].display.name)
  BY <1>3, Zenon DEF IsDisplayPayload
<1> QED
  BY <1>1, <1>2, <1>3, <1>4, <1>5, <1>6, <1>7, Zenon

(* Where there is no record, the parser takes none.                        *)
LEMMA NoRecordIsTaken ==
  ASSUME NEW p, IsDisplayPayload(p), NEW i \in Nat, i # 0, Takes(RecordAt(p, i))
  PROVE  i \in 1 .. Len(p.records) /\ RecordAt(p, i) = p.records[i]
<1>1. /\ Len(p.records) \in Nat /\ DOMAIN p.records = 1 .. Len(p.records)
      /\ \A k \in 1 .. Len(p.records) : RecordAt(p, k) = p.records[k]
  BY RecordsOfPayload
<1>2. ~Takes(NoRecord)
  <2>1. NoRecord.size = 0 /\ NoRecord.rates = 0 /\ NoRecord.name = 0
    BY DEF NoRecord
  <2>2. 36 + 4 * 0 + 0 = 36 /\ Aligned(36) # 0
    BY DEF Aligned
  <2> QED
    BY <2>1, <2>2, Zenon DEF Takes
<1> QED
  BY <1>1, <1>2 DEF RecordAt

(* The first sizes end where their running sum is.                         *)
LEMMA FirstSizesEnd ==
  ASSUME NEW sizes \in Seq(Nat), NEW sum, Running(sizes, sum), NEW n \in 0 .. Len(sizes)
  PROVE  Total([ i \in 1 .. n |-> sizes[i] ]) = sum[n]
<1> DEFINE first == [ i \in 1 .. n |-> sizes[i] ]
           upTo == [ i \in 0 .. n |-> sum[i] ]
<1>1. Len(sizes) \in Nat /\ \A i \in 1 .. Len(sizes) : sizes[i] \in Nat
  OBVIOUS
<1>2. /\ \A i \in 0 .. Len(sizes) : sum[i] \in Nat
      /\ sum[0] = 0 /\ \A i \in 1 .. Len(sizes) : sum[i] = sum[i - 1] + sizes[i]
  BY DEF Running
<1>3. first \in Seq(Nat) /\ Len(first) = n /\ \A i \in 1 .. n : first[i] = sizes[i]
  <2>1. n \in Nat /\ \A i \in 1 .. n : i \in 1 .. Len(sizes)
    BY <1>1
  <2>2. first \in [ 1 .. n -> Nat ]
    BY <1>1, <2>1
  <2> QED
    BY <2>1, <2>2
<1>4. upTo \in [ 0 .. n -> Nat ] /\ upTo[0] = 0
  <2>1. 0 \in 0 .. n /\ \A i \in 0 .. n : i \in 0 .. Len(sizes)
    BY <1>1
  <2> QED
    BY <1>2, <2>1
<1>5. ASSUME NEW i \in 1 .. n PROVE upTo[i] = upTo[i - 1] + first[i]
  <2>1. i \in 0 .. n /\ i - 1 \in 0 .. n /\ i \in 1 .. Len(sizes)
    BY <1>1
  <2> QED
    BY <1>2, <1>3, <2>1
<1>6. upTo[n] = sum[n]
  BY <1>1
<1> HIDE DEF first, upTo
<1>7. Running(first, upTo)
  BY <1>3, <1>4, <1>5 DEF Running
<1>8. Total(first) = upTo[n]
  BY <1>3, <1>7, TotalIs
<1> QED
  BY <1>6, <1>8 DEF first

(* So do the first records of a payload.                                   *)
LEMMA FirstRecordsEnd ==
  ASSUME NEW p, IsDisplayPayload(p), NEW sum, Running(Sizes(p), sum), NEW n \in 0 .. Len(p.records)
  PROVE  Total([ i \in 1 .. n |-> p.records[i].size ]) = sum[n]
<1>1. /\ Len(p.records) \in Nat /\ Sizes(p) \in Seq(Nat) /\ Len(Sizes(p)) = Len(p.records)
      /\ \A i \in 1 .. Len(p.records) : Sizes(p)[i] = p.records[i].size
  BY RecordsOfPayload
<1>2. \A i \in 1 .. n : i \in 1 .. Len(p.records)
  BY <1>1
<1>3. [ i \in 1 .. n |-> p.records[i].size ] = [ i \in 1 .. n |-> Sizes(p)[i] ]
  BY <1>1, <1>2
<1>4. Total([ i \in 1 .. n |-> Sizes(p)[i] ]) = sum[n]
  BY <1>1, FirstSizesEnd
<1> QED
  BY <1>3, <1>4, Zenon

(* A scan that ends well took as many records as the header counts, one    *)
(* behind the other.                                                       *)
LEMMA ScanTakes ==
  ASSUME NEW p, IsDisplayPayload(p), p.size >= 8, NEW scan, Turns(p, scan),
         NEW sum, Running(Sizes(p), sum), scan[p.count].ok
  PROVE  /\ p.count <= Len(p.records) /\ scan[p.count].at = 8 + sum[p.count]
         /\ \A i \in 1 .. p.count : Takes(p.records[i])
<1>1. /\ p.size \in Nat /\ p.count \in Nat /\ Len(p.records) \in Nat
      /\ Len(Sizes(p)) = Len(p.records)
      /\ \A i \in 1 .. Len(p.records) : p.records[i].size \in Nat /\ Sizes(p)[i] = p.records[i].size
      /\ \A i \in Nat : RecordAt(p, i).size \in Nat
  BY RecordsOfPayload
<1>2. \A n \in 0 .. p.count : ScanIsInside(p, scan[n])
  BY <1>1, TurnsReadInside
<1>3. /\ scan[0] = ScanStart /\ sum[0] = 0
      /\ \A n \in 0 .. Len(p.records) : sum[n] \in Nat
      /\ \A n \in 1 .. Len(p.records) : sum[n] = sum[n - 1] + p.records[n].size
      /\ \A n \in 1 .. p.count : scan[n] = ScanRecord(p, scan[n - 1], RecordAt(p, n))
  BY <1>1 DEF Turns, Running
<1> DEFINE Taken(n) == scan[n].ok => /\ n <= Len(p.records) /\ scan[n].at = 8 + sum[n]
                                     /\ \A i \in 1 .. n : Takes(p.records[i])
           T == { n \in 0 .. p.count : ~Taken(n) }
<1>4. Taken(0)
  BY <1>1, <1>3 DEF ScanStart
<1>5. ASSUME NEW n \in 1 .. p.count, Taken(n - 1) PROVE Taken(n)
  <2> SUFFICES ASSUME scan[n].ok
               PROVE  /\ n <= Len(p.records) /\ scan[n].at = 8 + sum[n]
                      /\ \A i \in 1 .. n : Takes(p.records[i])
    OBVIOUS
  <2>1. n \in Nat /\ n # 0 /\ n - 1 \in 0 .. p.count /\ ScanIsInside(p, scan[n - 1])
        /\ RecordAt(p, n).size \in Nat
    BY <1>1, <1>2
  <2>2. scan[n - 1].ok /\ Takes(RecordAt(p, n)) /\ scan[n].at = scan[n - 1].at + RecordAt(p, n).size
    BY <1>1, <1>3, <2>1, TurnTakes
  <2>3. n \in 1 .. Len(p.records) /\ RecordAt(p, n) = p.records[n]
    BY <2>1, <2>2, NoRecordIsTaken
  <2>4. scan[n - 1].at = 8 + sum[n - 1] /\ \A i \in 1 .. n - 1 : Takes(p.records[i])
    BY <1>5, <2>2
  <2>5. \A i \in 1 .. n : i = n \/ i \in 1 .. n - 1
    BY <1>1
  <2>6. sum[n] = sum[n - 1] + p.records[n].size /\ sum[n - 1] \in Nat /\ p.records[n].size \in Nat
    BY <1>1, <1>3, <2>3
  <2>7. scan[n].at = 8 + sum[n]
    BY <2>2, <2>3, <2>4, <2>6
  <2> QED
    BY <2>2, <2>3, <2>4, <2>5, <2>7
<1>6. ASSUME T # {} PROVE FALSE
  <2>1. PICK n \in T : \A m \in T : n <= m
    <3>1. T \subseteq Nat
      BY <1>1
    <3> HIDE DEF T
    <3> QED
      BY <1>6, <3>1, Least
  <2>2. n \in 0 .. p.count /\ ~Taken(n)
    BY <2>1
  <2> HIDE DEF Taken
  <2>3. n # 0
    BY <1>4, <2>2
  <2>4. n \in 1 .. p.count /\ n - 1 \in 0 .. p.count /\ ~(n <= n - 1)
    BY <1>1, <2>2, <2>3
  <2>5. Taken(n - 1)
    BY <2>1, <2>4
  <2> QED
    BY <1>5, <2>2, <2>4, <2>5
<1>7. p.count \in 0 .. p.count
  BY <1>1
<1>8. Taken(p.count)
  <2> HIDE DEF Taken
  <2> QED
    BY <1>6, <1>7
<1> QED
  BY <1>8

(* A scan of records to take, that fill the payload, ends well.            *)
LEMMA ScanFollows ==
  ASSUME NEW p, IsDisplayPayload(p), p.size >= 8, p.count = Len(p.records), NEW scan, Turns(p, scan),
         NEW sum, Running(Sizes(p), sum), p.size = 8 + sum[p.count],
         \A i \in 1 .. p.count : Takes(p.records[i])
  PROVE  scan[p.count].ok /\ scan[p.count].at = p.size
<1>1. /\ p.size \in Nat /\ p.count \in Nat /\ Sizes(p) \in Seq(Nat) /\ Len(Sizes(p)) = p.count
      /\ \A i \in 1 .. p.count :
           /\ RecordAt(p, i) = p.records[i] /\ Sizes(p)[i] = p.records[i].size
           /\ p.records[i].size \in Nat /\ p.records[i].rates \in Nat /\ p.records[i].name \in Nat
      /\ \A i \in Nat : RecordAt(p, i).size \in Nat
  BY RecordsOfPayload
<1>2. \A n \in 0 .. p.count : ScanIsInside(p, scan[n])
  BY <1>1, TurnsReadInside
<1>3. /\ scan[0] = ScanStart /\ sum[0] = 0
      /\ \A n \in 0 .. p.count : sum[n] \in Nat /\ sum[n] <= sum[p.count]
      /\ \A n \in 1 .. p.count : /\ scan[n] = ScanRecord(p, scan[n - 1], p.records[n])
                                 /\ sum[n] = sum[n - 1] + p.records[n].size
  <2>1. \A n \in 0 .. p.count : sum[n] <= sum[p.count]
    BY <1>1, SumGrows
  <2> QED
    BY <1>1, <2>1 DEF Turns, Running
<1> DEFINE Follows(n) == scan[n].ok /\ scan[n].at = 8 + sum[n]
           T == { n \in 0 .. p.count : ~Follows(n) }
<1>4. Follows(0)
  BY <1>3 DEF ScanStart
<1>5. ASSUME NEW n \in 1 .. p.count, Follows(n - 1) PROVE Follows(n)
  <2>1. n - 1 \in 0 .. p.count /\ n \in 0 .. p.count
    BY <1>1
  <2>2. /\ ScanIsInside(p, scan[n - 1]) /\ Takes(p.records[n])
        /\ p.records[n].size \in Nat /\ p.records[n].rates \in Nat /\ p.records[n].name \in Nat
    BY <1>1, <1>2, <2>1
  <2>3. sum[n] = sum[n - 1] + p.records[n].size /\ sum[n - 1] \in Nat /\ sum[n] \in Nat
        /\ sum[n] <= sum[p.count] /\ sum[p.count] \in Nat
    BY <1>1, <1>3, <2>1
  <2>4. scan[n - 1].at + p.records[n].size <= p.size
    <3>1. scan[n - 1].at + p.records[n].size = 8 + sum[n]
      <4> DEFINE at == scan[n - 1].at
                 before == sum[n - 1]
                 size == p.records[n].size
      <4>1. at = 8 + before
        BY <1>5
      <4>2. before \in Nat /\ size \in Nat /\ sum[n] = before + size
        BY <2>2, <2>3
      <4> HIDE DEF at, before, size
      <4>3. at + size = 8 + sum[n]
        BY <4>1, <4>2
      <4> QED
        BY <4>3 DEF at, size
    <3>2. 8 + sum[n] <= 8 + sum[p.count]
      BY <2>3
    <3> QED
      BY <3>1, <3>2
  <2>5. scan[n].ok /\ scan[n].at = scan[n - 1].at + p.records[n].size
    <3>1. LET after == ScanRecord(p, scan[n - 1], p.records[n])
          IN  after.ok /\ after.at = scan[n - 1].at + p.records[n].size
      <4>1. p.size \in Nat /\ scan[n - 1].ok
        BY <1>1, <1>5
      <4> HIDE DEF Follows
      <4> QED
        BY <2>2, <2>4, <4>1, TurnFollows
    <3>2. scan[n] = ScanRecord(p, scan[n - 1], p.records[n])
      BY <1>3
    <3> QED
      BY <3>1, <3>2, Zenon
  <2> QED
    BY <1>5, <2>2, <2>3, <2>5
<1>6. ASSUME T # {} PROVE FALSE
  <2>1. PICK n \in T : \A m \in T : n <= m
    <3>1. T \subseteq Nat
      BY <1>1
    <3> HIDE DEF T
    <3> QED
      BY <1>6, <3>1, Least
  <2>2. n \in 0 .. p.count /\ ~Follows(n)
    BY <2>1
  <2> HIDE DEF Follows
  <2>3. n # 0
    BY <1>4, <2>2
  <2>4. n \in 1 .. p.count /\ n - 1 \in 0 .. p.count /\ ~(n <= n - 1)
    BY <1>1, <2>2, <2>3
  <2>5. Follows(n - 1)
    BY <2>1, <2>4
  <2> QED
    BY <1>5, <2>2, <2>4, <2>5
<1>7. p.count \in 0 .. p.count
  BY <1>1
<1>8. Follows(p.count)
  <2> HIDE DEF Follows
  <2> QED
    BY <1>6, <1>7
<1> QED
  BY <1>8

(* A record the parser takes is the one written of its display, and the    *)
(* reverse: the two loops agree on one turn.                               *)
LEMMA TakenIsWritten ==
  ASSUME NEW r, NEW d, r.display = d, r.zero \in BOOLEAN,
         r.size = Aligned(36 + 4 * r.rates + r.name) => r.rates = Len(d.rates) /\ r.name = Len(d.name),
         r = [ size |-> r.size, rates |-> r.rates, name |-> r.name, zero |-> r.zero, display |-> r.display ]
  PROVE  Takes(r) <=> /\ r = TopologyRecord(d)
                      /\ Len(d.rates) <= MaxRates /\ Len(d.name) <= MaxName
                      /\ IsValidUtf8(d.name) /\ d.port <= 255
<1>1. TopologyRecord(d) = [ size |-> RecordSize(d), rates |-> Len(d.rates), name |-> Len(d.name),
                            zero |-> TRUE, display |-> d ]
  BY Zenon DEF TopologyRecord
<1>2. RecordSize(d) = Aligned(36 + 4 * Len(d.rates) + Len(d.name))
  BY Zenon DEF RecordSize
<1>3. ASSUME Takes(r) PROVE r = TopologyRecord(d) /\ r.rates = Len(d.rates) /\ r.name = Len(d.name)
  <2>1. r.rates = Len(d.rates) /\ r.name = Len(d.name)
    BY <1>3, Zenon DEF Takes
  <2>2. r.size = RecordSize(d) /\ r.zero
    BY <1>2, <1>3, <2>1, Zenon DEF Takes
  <2>3. r.zero = TRUE
    BY <2>2
  <2> QED
    BY <1>1, <2>1, <2>2, <2>3
<1>4. ASSUME r = TopologyRecord(d)
      PROVE  r.size = RecordSize(d) /\ r.zero /\ r.rates = Len(d.rates) /\ r.name = Len(d.name)
  <2>1. /\ TopologyRecord(d).size = RecordSize(d) /\ TopologyRecord(d).zero = TRUE
        /\ TopologyRecord(d).rates = Len(d.rates) /\ TopologyRecord(d).name = Len(d.name)
    BY <1>1
  <2> QED
    BY <1>4, <2>1, Zenon
<1>5. ASSUME Takes(r)
      PROVE  Len(d.rates) <= MaxRates /\ Len(d.name) <= MaxName /\ IsValidUtf8(d.name) /\ d.port <= 255
  BY <1>3, <1>5, Zenon DEF Takes
<1>6. ASSUME r = TopologyRecord(d), Len(d.rates) <= MaxRates, Len(d.name) <= MaxName,
             IsValidUtf8(d.name), d.port <= 255
      PROVE  Takes(r)
  <2>1. r.size = Aligned(36 + 4 * r.rates + r.name)
    BY <1>2, <1>4, <1>6, Zenon
  <2>2. r.rates <= MaxRates /\ r.name <= MaxName /\ r.zero
    BY <1>4, <1>6, Zenon
  <2> QED
    BY <1>6, <2>1, <2>2, Zenon DEF Takes
<1> QED
  BY <1>3, <1>5, <1>6, Zenon

(* What is written of a list, field by field.                              *)
LEMMA WrittenFields ==
  ASSUME NEW ds
  PROVE  LET w == SerializeReplaceDisplayTopologyRequest(ds)
             size == 8 + Total([ i \in DOMAIN ds |-> RecordSize(ds[i]) ])
         IN  /\ w.ok <=> /\ Len(ds) <= MaxDisplays /\ size <= MaxPayload
                         /\ \A d \in ToSet(ds) : /\ Len(d.rates) <= MaxRates /\ Len(d.name) <= MaxName
                                                 /\ IsValidUtf8(d.name)
             /\ w.payload = [ size |-> size, zero |-> TRUE, count |-> Len(ds),
                              records |-> [ i \in DOMAIN ds |-> TopologyRecord(ds[i]) ] ]
BY Zenon DEF SerializeReplaceDisplayTopologyRequest

(* What is written is its verdict and the payload.                         *)
LEMMA WrittenIsRecord ==
  ASSUME NEW ds, SerializeReplaceDisplayTopologyRequest(ds).ok
  PROVE  SerializeReplaceDisplayTopologyRequest(ds) =
           [ ok |-> TRUE, payload |-> SerializeReplaceDisplayTopologyRequest(ds).payload ]
<1> DEFINE size == 8 + Total([ i \in DOMAIN ds |-> RecordSize(ds[i]) ])
           ok == /\ Len(ds) <= MaxDisplays
                 /\ \A d \in ToSet(ds) : /\ Len(d.rates) <= MaxRates /\ Len(d.name) <= MaxName
                                         /\ IsValidUtf8(d.name)
                 /\ size <= MaxPayload
           payload == [ size |-> size, zero |-> TRUE, count |-> Len(ds),
                        records |-> [ i \in DOMAIN ds |-> TopologyRecord(ds[i]) ] ]
<1>1. SerializeReplaceDisplayTopologyRequest(ds) = [ ok |-> ok, payload |-> payload ]
  BY Zenon DEF SerializeReplaceDisplayTopologyRequest
<1>2. ok \in BOOLEAN
  OBVIOUS
<1> HIDE DEF ok, payload
<1>3. ok = TRUE
  BY <1>1, <1>2
<1> QED
  BY <1>1, <1>3

(* The parser takes exactly the payloads that this code would write of the *)
(* displays it finds in them: nothing between the records or behind them,  *)
(* no padding that is not zero, no display dropped or made up              *)
(* (ParseReplaceDisplayTopologyRequest against                             *)
(* SerializeReplaceDisplayTopologyRequest).                                *)
THEOREM AcceptedIsWritten ==
  \A p : IsDisplayPayload(p) =>
    (ParseReplaceDisplayTopologyRequest(p).ok <=>
       /\ IsWritten(ParsedDisplays(p))
       /\ SerializeReplaceDisplayTopologyRequest(ParsedDisplays(p)).payload = p)
<1> SUFFICES ASSUME NEW p, IsDisplayPayload(p)
             PROVE  ParseReplaceDisplayTopologyRequest(p).ok <=>
                      /\ IsWritten(ParsedDisplays(p))
                      /\ SerializeReplaceDisplayTopologyRequest(ParsedDisplays(p)).payload = p
  OBVIOUS
<1> DEFINE ds == ParsedDisplays(p)
           sizes == [ i \in DOMAIN ds |-> RecordSize(ds[i]) ]
           size == 8 + Total(sizes)
           written == SerializeReplaceDisplayTopologyRequest(ds)
           parsed == ParseReplaceDisplayTopologyRequest(p)
           listed == p.size >= 8 /\ p.zero /\ p.count <= MaxDisplays
           records == [ i \in DOMAIN ds |-> TopologyRecord(ds[i]) ]
<1>1. /\ p.size \in Nat /\ p.count \in Nat /\ Len(p.records) \in Nat
      /\ DOMAIN p.records = 1 .. Len(p.records) /\ p.size <= MaxPayload
      /\ p = [ size |-> p.size, zero |-> p.zero, count |-> p.count, records |-> p.records ]
      /\ p.zero \in BOOLEAN
  BY RecordsOfPayload DEF IsDisplayPayload
<1>2. /\ DOMAIN ds = 1 .. Len(p.records) /\ Len(ds) = Len(p.records)
      /\ \A i \in 1 .. Len(p.records) : ds[i] = p.records[i].display
      /\ ToSet(ds) = { ds[i] : i \in 1 .. Len(p.records) }
  <2>1. ds = [ i \in 1 .. Len(p.records) |-> p.records[i].display ]
    BY <1>1 DEF ParsedDisplays
  <2> HIDE DEF ds
  <2>2. DOMAIN ds = 1 .. Len(p.records) /\ \A i \in 1 .. Len(p.records) : ds[i] = p.records[i].display
    BY <2>1
  <2>3. Len(ds) = Len(p.records)
    BY <1>1, <2>1
  <2> QED
    BY <2>2, <2>3 DEF ToSet
<1>3. parsed.ok <=> listed /\ TopologyScan(p).ok /\ TopologyScan(p).at = p.size
  BY Zenon DEF ParseReplaceDisplayTopologyRequest, Verdict
<1>4. /\ written.ok <=> /\ Len(p.records) <= MaxDisplays /\ size <= MaxPayload
                        /\ \A i \in 1 .. Len(p.records) : /\ Len(ds[i].rates) <= MaxRates
                                                          /\ Len(ds[i].name) <= MaxName
                                                          /\ IsValidUtf8(ds[i].name)
      /\ written.payload = [ size |-> size, zero |-> TRUE, count |-> Len(p.records), records |-> records ]
  <2> HIDE DEF ds
  <2>1. /\ written.ok <=> /\ Len(ds) <= MaxDisplays /\ size <= MaxPayload
                          /\ \A d \in ToSet(ds) : /\ Len(d.rates) <= MaxRates /\ Len(d.name) <= MaxName
                                                  /\ IsValidUtf8(d.name)
        /\ written.payload = [ size |-> size, zero |-> TRUE, count |-> Len(ds), records |-> records ]
    BY WrittenFields, Zenon
  <2> QED
    BY <1>2, <2>1, Zenon
<1>5. IsWritten(ds) <=> written.ok /\ \A i \in 1 .. Len(p.records) : ds[i].port <= 255
  BY <1>2, Zenon DEF IsWritten
<1>6. \A i \in 1 .. Len(p.records) :
        Takes(p.records[i]) <=> /\ p.records[i] = TopologyRecord(ds[i])
                                /\ Len(ds[i].rates) <= MaxRates /\ Len(ds[i].name) <= MaxName
                                /\ IsValidUtf8(ds[i].name) /\ ds[i].port <= 255
  <2> TAKE i \in 1 .. Len(p.records)
  <2>1. /\ p.records[i].display = ds[i] /\ p.records[i].zero \in BOOLEAN
        /\ p.records[i].size = Aligned(36 + 4 * p.records[i].rates + p.records[i].name) =>
             p.records[i].rates = Len(ds[i].rates) /\ p.records[i].name = Len(ds[i].name)
        /\ p.records[i] = [ size |-> p.records[i].size, rates |-> p.records[i].rates,
                            name |-> p.records[i].name, zero |-> p.records[i].zero,
                            display |-> p.records[i].display ]
    <3> HIDE DEF ds
    <3> QED
      BY <1>2, RecordsOfPayload, Zenon
  <2> HIDE DEF ds
  <2> QED
    BY <2>1, TakenIsWritten
<1>7. PICK sum : Running(Sizes(p), sum)
  BY RecordsOfPayload, RunningSumExists
<1>8. Total(Sizes(p)) = sum[Len(p.records)] /\ sum[Len(p.records)] \in Nat
  <2>1. Len(Sizes(p)) = Len(p.records) /\ Sizes(p) \in Seq(Nat)
    BY RecordsOfPayload
  <2>2. Total(Sizes(p)) = sum[Len(p.records)]
    BY <1>7, <2>1, TotalIs
  <2> QED
    BY <1>1, <1>7, <2>1, <2>2 DEF Running
<1>9. PICK scan : Turns(p, scan) /\ TopologyScan(p) = scan[p.count]
  BY <1>1, ScanRuns
<1>10. ASSUME \A i \in 1 .. Len(p.records) : p.records[i] = TopologyRecord(ds[i])
       PROVE  size = 8 + sum[Len(p.records)] /\ records = p.records
  <2> HIDE DEF ds
  <2>1. \A i \in 1 .. Len(p.records) : p.records[i].size = RecordSize(ds[i])
    <3> TAKE i \in 1 .. Len(p.records)
    <3>1. TopologyRecord(ds[i]).size = RecordSize(ds[i])
      BY Zenon DEF TopologyRecord
    <3> QED
      BY <1>10, <3>1
  <2>2. sizes = Sizes(p)
    <3>1. Sizes(p) = [ i \in 1 .. Len(p.records) |-> p.records[i].size ]
      BY DEF Sizes
    <3> QED
      BY <1>2, <2>1, <3>1
  <2>3. p.records = [ i \in 1 .. Len(p.records) |-> p.records[i] ]
    BY <1>1 DEF IsDisplayPayload
  <2>4. records = [ i \in 1 .. Len(p.records) |-> p.records[i] ]
    BY <1>2, <1>10
  <2> HIDE DEF sizes, records
  <2> QED
    BY <1>8, <2>2, <2>3, <2>4
<1> HIDE DEF ds, sizes, size, written, parsed, records
<1>11. ASSUME parsed.ok PROVE IsWritten(ds) /\ written.payload = p
  <2>1. listed /\ scan[p.count].ok /\ scan[p.count].at = p.size
    BY <1>3, <1>9, <1>11, Zenon
  <2>2. /\ p.count <= Len(p.records) /\ scan[p.count].at = 8 + sum[p.count]
        /\ \A i \in 1 .. p.count : Takes(p.records[i])
    BY <1>7, <1>9, <2>1, ScanTakes
  <2>3. p.count = Len(p.records)
    <3>1. p.count \in 0 .. Len(p.records)
      BY <1>1, <2>2
    <3>2. p.size = 8 + Total([ i \in 1 .. p.count |-> p.records[i].size ])
      <4>1. Total([ i \in 1 .. p.count |-> p.records[i].size ]) = sum[p.count]
        BY <1>7, <3>1, FirstRecordsEnd
      <4> QED
        BY <2>1, <2>2, <4>1
    <3> QED
      BY <3>1, <3>2, Zenon DEF IsDisplayPayload
  <2>4. size = p.size /\ records = p.records
    <3>1. \A i \in 1 .. Len(p.records) : p.records[i] = TopologyRecord(ds[i])
      BY <1>6, <2>2, <2>3, Zenon
    <3> QED
      BY <1>10, <2>1, <2>2, <2>3, <3>1, Zenon
  <2>5. written.payload = p
    <3>1. p.zero = TRUE
      BY <1>1, <2>1
    <3> QED
      BY <1>1, <1>4, <2>3, <2>4, <3>1, Zenon
  <2>6. written.ok /\ \A i \in 1 .. Len(p.records) : ds[i].port <= 255
    BY <1>1, <1>4, <1>6, <2>1, <2>2, <2>3, <2>4, Zenon
  <2> QED
    BY <1>5, <2>5, <2>6
<1>12. ASSUME IsWritten(ds), written.payload = p PROVE parsed.ok
  <2>1. p.size = size /\ p.zero /\ p.records = records /\ p.count = Len(p.records)
    BY <1>4, <1>12
  <2>2. \A i \in 1 .. Len(p.records) : p.records[i] = TopologyRecord(ds[i])
    <3>1. records = [ i \in 1 .. Len(p.records) |-> TopologyRecord(ds[i]) ]
      BY <1>2 DEF records
    <3> QED
      BY <2>1, <3>1
  <2>3. size = 8 + sum[Len(p.records)]
    BY <1>10, <2>2
  <2>4. listed
    BY <1>4, <1>5, <1>8, <1>12, <2>1, <2>3
  <2>5. \A i \in 1 .. Len(p.records) : Takes(p.records[i])
    BY <1>4, <1>5, <1>6, <1>12, <2>2, Zenon
  <2>6. scan[p.count].ok /\ scan[p.count].at = p.size
    <3>1. p.size = 8 + sum[p.count] /\ \A i \in 1 .. p.count : Takes(p.records[i])
      BY <2>1, <2>3, <2>5
    <3> QED
      BY <1>7, <1>9, <2>1, <2>4, <3>1, ScanFollows
  <2> QED
    BY <1>3, <1>9, <2>4, <2>6, Zenon
<1> QED
  BY <1>11, <1>12 DEF ds, written, parsed

(* Every list of displays this code writes it also reads, and reads as it  *)
(* was (the topology's round trip).                                        *)
THEOREM WrittenIsRead ==
  \A ds \in Seq(ListedDisplays) : IsWritten(ds) =>
    LET p == SerializeReplaceDisplayTopologyRequest(ds).payload
    IN  ParseReplaceDisplayTopologyRequest(p).ok /\ ParsedDisplays(p) = ds
<1> SUFFICES ASSUME NEW ds \in Seq(ListedDisplays), IsWritten(ds)
             PROVE  LET p == SerializeReplaceDisplayTopologyRequest(ds).payload
                    IN  ParseReplaceDisplayTopologyRequest(p).ok /\ ParsedDisplays(p) = ds
  OBVIOUS
<1> DEFINE sizes == [ i \in DOMAIN ds |-> RecordSize(ds[i]) ]
           size == 8 + Total(sizes)
           records == [ i \in DOMAIN ds |-> TopologyRecord(ds[i]) ]
           p == SerializeReplaceDisplayTopologyRequest(ds).payload
<1>1. /\ p = [ size |-> size, zero |-> TRUE, count |-> Len(ds), records |-> records ]
      /\ size <= MaxPayload
  BY WrittenFields, Zenon DEF IsWritten
<1>2. /\ Len(ds) \in Nat /\ DOMAIN ds = 1 .. Len(ds) /\ ds = [ i \in 1 .. Len(ds) |-> ds[i] ]
      /\ \A i \in 1 .. Len(ds) : ds[i] \in ListedDisplays
  <2> HIDE DEF ListedDisplays
  <2> QED
    OBVIOUS
<1>3. \A d \in ListedDisplays : Len(d.rates) \in Nat /\ Len(d.name) \in Nat
  <2>1. \A d \in ListedDisplays : d.rates \in Seq(Nat) /\ d.name \in Seq(STRING)
    BY DEF ListedDisplays
  <2> QED
    BY <2>1
<1>4. \A d \in ListedDisplays : RecordSize(d) \in Nat
  <2> TAKE d \in ListedDisplays
  <2>1. 36 + 4 * Len(d.rates) + Len(d.name) \in Nat
    <3>1. Len(d.rates) \in Nat /\ Len(d.name) \in Nat
      BY <1>3, Zenon
    <3>2. \A a, b \in Nat : 36 + 4 * a + b \in Nat
      OBVIOUS
    <3> QED
      BY <3>1, <3>2, Zenon
  <2> QED
    BY <2>1, AlignedHolds DEF RecordSize
<1>5. size \in Nat
  <2>1. sizes = [ i \in 1 .. Len(ds) |-> RecordSize(ds[i]) ]
    BY <1>2
  <2>2. sizes \in Seq(Nat)
    BY <1>2, <1>4, <2>1
  <2> HIDE DEF sizes
  <2>3. PICK sum : Running(sizes, sum)
    BY <2>2, RunningSumExists
  <2>4. Len(sizes) \in 0 .. Len(sizes) /\ Total(sizes) = sum[Len(sizes)]
    BY <2>2, <2>3, TotalIs
  <2>5. Total(sizes) \in Nat
    BY <2>3, <2>4 DEF Running
  <2> QED
    BY <2>5
<1>6. \A d \in ListedDisplays :
        /\ TopologyRecord(d) \in DisplayRecords /\ TopologyRecord(d).display = d
        /\ TopologyRecord(d).rates = Len(d.rates) /\ TopologyRecord(d).name = Len(d.name)
  <2> TAKE d \in ListedDisplays
  <2>1. TopologyRecord(d) = [ size |-> RecordSize(d), rates |-> Len(d.rates), name |-> Len(d.name),
                              zero |-> TRUE, display |-> d ]
    BY Zenon DEF TopologyRecord
  <2>2. RecordSize(d) \in Nat /\ Len(d.rates) \in Nat /\ Len(d.name) \in Nat
    BY <1>3, <1>4
  <2> QED
    BY <2>1, <2>2 DEF DisplayRecords
<1>7. /\ records \in Seq(DisplayRecords) /\ Len(records) = Len(ds) /\ DOMAIN records = 1 .. Len(ds)
      /\ \A i \in 1 .. Len(ds) : records[i] = TopologyRecord(ds[i])
  <2>1. records = [ i \in 1 .. Len(ds) |-> TopologyRecord(ds[i]) ]
    BY <1>2
  <2>2. \A i \in 1 .. Len(ds) : TopologyRecord(ds[i]) \in DisplayRecords
    BY <1>2, <1>6
  <2> HIDE DEF records
  <2> QED
    BY <1>2, <2>1, <2>2
<1> HIDE DEF p, size, sizes, records
<1>8. p.size = size /\ p.zero = TRUE /\ p.count = Len(ds) /\ p.records = records
  BY <1>1
<1>9. \A d \in ListedDisplays : RecordSize(d) >= 36
  <2> TAKE d \in ListedDisplays
  <2>1. Len(d.rates) \in Nat /\ Len(d.name) \in Nat
    BY <1>3, Zenon
  <2>2. \A a, b \in Nat : 36 + 4 * a + b \in Nat /\ 36 + 4 * a + b >= 36
    OBVIOUS
  <2>3. 36 + 4 * Len(d.rates) + Len(d.name) \in Nat /\ 36 + 4 * Len(d.rates) + Len(d.name) >= 36
    BY <2>1, <2>2, Zenon
  <2> DEFINE n == 36 + 4 * Len(d.rates) + Len(d.name)
  <2>4. RecordSize(d) = Aligned(n)
    BY DEF RecordSize
  <2> HIDE DEF n
  <2>5. n \in Nat /\ n >= 36
    BY <2>3 DEF n
  <2> QED
    BY <2>4, <2>5, AlignedHolds
<1>10. IsDisplayPayload(p)
  <2>1. p = [ size |-> p.size, zero |-> p.zero, count |-> p.count, records |-> p.records ]
    BY <1>1, <1>8, Zenon
  <2>2. p.size \in Nat /\ p.size <= MaxPayload /\ p.zero \in BOOLEAN /\ p.count \in Nat
        /\ p.records \in Seq(DisplayRecords)
    BY <1>1, <1>2, <1>5, <1>7, <1>8
  <2>3. Len(p.records) = Len(ds) /\ DOMAIN p.records = 1 .. Len(ds)
    BY <1>7, <1>8
  <2>4. ASSUME NEW i \in 1 .. Len(ds)
        PROVE  /\ p.records[i].rates = Len(p.records[i].display.rates)
               /\ p.records[i].name = Len(p.records[i].display.name)
               /\ p.records[i].size = RecordSize(ds[i])
    <3>1. p.records[i] = TopologyRecord(ds[i]) /\ ds[i] \in ListedDisplays
      BY <1>2, <1>7, <1>8
    <3>2. /\ TopologyRecord(ds[i]).display = ds[i]
          /\ TopologyRecord(ds[i]).rates = Len(ds[i].rates)
          /\ TopologyRecord(ds[i]).name = Len(ds[i].name)
      BY <1>6, <3>1, Zenon
    <3>3. TopologyRecord(ds[i]).size = RecordSize(ds[i])
      BY Zenon DEF TopologyRecord
    <3> QED
      BY <3>1, <3>2, <3>3
  <2>5. ASSUME NEW n \in 0 .. Len(ds), p.size = 8 + Total([ i \in 1 .. n |-> p.records[i].size ])
        PROVE  n = Len(ds)
    <3>1. /\ sizes \in Seq(Nat) /\ Len(sizes) = Len(ds)
          /\ \A k \in 1 .. Len(ds) : sizes[k] = RecordSize(ds[k]) /\ sizes[k] \in Nat
      <4>1. sizes = [ i \in 1 .. Len(ds) |-> RecordSize(ds[i]) ]
        BY <1>2 DEF sizes
      <4>2. \A k \in 1 .. Len(ds) : RecordSize(ds[k]) \in Nat
        BY <1>2, <1>4, Zenon
      <4> HIDE DEF ListedDisplays
      <4> QED
        BY <1>2, <4>1, <4>2
    <3>2. PICK sum : Running(sizes, sum)
      BY <3>1, RunningSumExists
    <3>3. p.size = 8 + sum[Len(ds)]
      <4>1. Total(sizes) = sum[Len(ds)]
        BY <3>1, <3>2, TotalIs
      <4> QED
        BY <1>8, <4>1 DEF size
    <3>4. Total([ i \in 1 .. n |-> p.records[i].size ]) = sum[n]
      <4>1. \A i \in 1 .. n : i \in 1 .. Len(ds)
        BY <1>2
      <4>2. \A i \in 1 .. n : p.records[i].size = sizes[i]
        BY <2>4, <3>1, <4>1, Zenon
      <4>3. [ i \in 1 .. n |-> p.records[i].size ] = [ i \in 1 .. n |-> sizes[i] ]
        BY <4>2
      <4>4. Total([ i \in 1 .. n |-> sizes[i] ]) = sum[n]
        BY <3>1, <3>2, FirstSizesEnd
      <4> QED
        BY <4>3, <4>4, Zenon
    <3>5. sum[n] = sum[Len(ds)] /\ sum[n] \in Nat
      <4>1. \A k \in 0 .. Len(ds) : sum[k] \in Nat
        BY <3>1, <3>2 DEF Running
      <4>2. n \in 0 .. Len(ds) /\ Len(ds) \in 0 .. Len(ds)
        BY <1>2
      <4>3. \A a, b \in Nat : 8 + a = 8 + b => a = b
        OBVIOUS
      <4> QED
        BY <2>5, <3>3, <3>4, <4>1, <4>2, <4>3, Zenon
    <3>6. ASSUME n # Len(ds) PROVE FALSE
      <4>1. n + 1 \in 1 .. Len(ds) /\ n + 1 \in 0 .. Len(ds) /\ (n + 1) - 1 = n
        BY <1>2, <3>6
      <4>2. sum[n + 1] = sum[n] + sizes[n + 1] /\ sum[n + 1] \in Nat /\ sizes[n + 1] \in Nat
        BY <3>1, <3>2, <4>1 DEF Running
      <4>3. sum[n + 1] <= sum[Len(ds)]
        BY <3>1, <3>2, <4>1, SumGrows
      <4>4. sizes[n + 1] > 0
        <5>1. ds[n + 1] \in ListedDisplays
          BY <1>2, <4>1
        <5>2. RecordSize(ds[n + 1]) >= 36
          BY <1>9, <5>1
        <5>3. sizes[n + 1] = RecordSize(ds[n + 1])
          BY <3>1, <4>1
        <5> QED
          BY <4>2, <5>2, <5>3
      <4>5. \A a, b, c \in Nat : a = b + c /\ a <= b => ~(c > 0)
        OBVIOUS
      <4> QED
        BY <3>5, <4>2, <4>3, <4>4, <4>5, Zenon
    <3> QED
      BY <3>6
  <2> QED
    BY <2>1, <2>2, <2>3, <2>4, <2>5, Zenon DEF IsDisplayPayload
<1>11. ParsedDisplays(p) = ds
  <2>1. ParsedDisplays(p) = [ i \in 1 .. Len(ds) |-> records[i].display ]
    BY <1>7, <1>8 DEF ParsedDisplays
  <2>2. \A i \in 1 .. Len(ds) : records[i].display = ds[i]
    BY <1>2, <1>6, <1>7, Zenon
  <2> QED
    BY <1>2, <2>1, <2>2
<1> QED
  BY <1>10, <1>11, AcceptedIsWritten DEF p

-----------------------------------------------------------------------------
(* The requests as FHC1.md lays them out *)

\* IsWhole of every request but the displays', whose records are counted.
HasLayout(command, p) ==
  /\ command \in DOMAIN FixedRequests => p.size = FixedRequests[command]
  /\ command \in DOMAIN ListRequests =>
       p.size = ListRequests[command].header + p.count * ListRequests[command].record
  /\ command = "InjectIncomingCall" => p.size = 12 + p.count
  /\ command = "InjectIncomingSms" => p.size = 16 + p.count + p.body
  /\ command \notin DOMAIN FixedRequests \union DOMAIN ListRequests
                      \union { "InjectIncomingCall", "InjectIncomingSms" } => p.size = 0

(* What a parser of each shape takes has the size its shape has.           *)
LEMMA ShapesHaveSizes ==
  ASSUME NEW p
  PROVE  /\ \A size, fields : Fixed(p, size, fields).ok => p.size = size
         /\ IsEmpty(p).ok => p.size = 0
         /\ Batch(p).ok => p.size = 8 + p.count * 56
<1>1. \A size, fields : Fixed(p, size, fields).ok => p.size = size
  <2> TAKE size, fields
  <2>1. Fixed(p, size, fields).ok <=> HasEnvelope(p, size) /\ p.zero /\ fields
    BY Zenon DEF Fixed, Verdict
  <2> QED
    BY <2>1, Zenon DEF HasEnvelope
<1>2. IsEmpty(p).ok => p.size = 0
  BY DEF IsEmpty, Verdict
<1>3. ASSUME Batch(p).ok PROVE p.size = 8 + p.count * 56
  <2>1. ParseBatchHeader(p, 56)
    BY <1>3, Zenon DEF Batch, Verdict
  <2> QED
    BY <2>1, Zenon DEF ParseBatchHeader, Records
<1> QED
  BY <1>1, <1>2, <1>3, Zenon

(* The parsers of the power handler, ...                                   *)
LEMMA PowerHasLayout ==
  ASSUME NEW p, request.command \in CommandsOf("power"), PowerParse(p).ok
  PROVE  HasLayout(request.command, p)
<1>1. ParseManualPowerRequest(p).ok => p.size = 24
  BY ShapesHaveSizes, Zenon DEF ParseManualPowerRequest
<1>2. IsEmpty(p).ok => p.size = 0
  BY ShapesHaveSizes
<1> QED
  BY <1>1, <1>2 DEF PowerParse, HasLayout, FixedRequests, ListRequests, CommandsOf, Sets, Gets

(* ... of the radio handler, ...                                           *)
LEMMA RadioHasLayout ==
  ASSUME NEW p, p.count \in Nat, request.command \in CommandsOf("radio") \ Unsupported,
         RadioParse(p).ok
  PROVE  HasLayout(request.command, p)
<1>1. /\ ParseRegistrationRequest(p).ok => p.size = 24
      /\ ParseSignalRequest(p).ok => p.size = 32
      /\ ParseSimStateRequest(p).ok => p.size = 16
      /\ ParseCallStateRequest(p).ok => p.size = 24
  BY ShapesHaveSizes, Zenon DEF ParseRegistrationRequest, ParseSignalRequest, ParseSimStateRequest,
     ParseCallStateRequest
<1>2. ParseCellsRequest(p).ok => p.size = 16 + p.count * 60
  <2>1. ParseCellsRequest(p).ok => Records(p, 16, 60, 1 .. 32)
    BY Zenon DEF ParseCellsRequest, List, Verdict
  <2> QED
    BY <2>1, Zenon DEF Records
<1>3. ParseIncomingCallRequest(p).ok => p.size = 12 + p.count
  <2>1. ParseIncomingCallRequest(p).ok => p.size = 12 + p.count * 1
    <3>1. ParseIncomingCallRequest(p).ok => Records(p, 12, 1, 1 .. 20)
      BY Zenon DEF ParseIncomingCallRequest, List, Verdict
    <3> QED
      BY <3>1, Zenon DEF Records
  <2>2. p.count * 1 = p.count
    OBVIOUS
  <2> QED
    BY <2>1, <2>2, Zenon
<1>4. ParseIncomingSmsRequest(p).ok => p.size = 16 + p.count + p.body
  BY Zenon DEF ParseIncomingSmsRequest, Verdict
<1>5. IsEmpty(p).ok => p.size = 0
  BY ShapesHaveSizes
<1> QED
  BY <1>1, <1>2, <1>3, <1>4, <1>5 DEF RadioParse, HasLayout, FixedRequests, ListRequests, CommandsOf,
     Sets, Gets, Unsupported

(* ... of the Wi-Fi handler, ...                                           *)
LEMMA WifiHasLayout ==
  ASSUME NEW p, request.command \in CommandsOf("wifi"), WifiParse(p).ok
  PROVE  HasLayout(request.command, p)
<1>1. /\ ParseEnabledRequest(p).ok => p.size = 16
      /\ ParseConnectionRequest(p).ok => p.size = 16
      /\ ParseLinkRequest(p).ok => p.size = 32
  BY ShapesHaveSizes, Zenon DEF ParseEnabledRequest, ParseConnectionRequest, ParseLinkRequest
<1>2. ParseAccessPointsRequest(p).ok => p.size = 16 + p.count * 72
  <2>1. ParseAccessPointsRequest(p).ok => Records(p, 16, 72, 0 .. 64)
    BY Zenon DEF ParseAccessPointsRequest, List, Verdict
  <2> QED
    BY <2>1, Zenon DEF Records
<1>3. ParseSamplesRequest(p).ok => p.size = 16 + p.count * 32
  <2>1. ParseSamplesRequest(p).ok => Records(p, 16, 32, 1 .. 256)
    BY Zenon DEF ParseSamplesRequest, List, Verdict
  <2> QED
    BY <2>1, Zenon DEF Records
<1>4. IsEmpty(p).ok => p.size = 0
  BY ShapesHaveSizes
<1> QED
  BY <1>1, <1>2, <1>3, <1>4 DEF WifiParse, HasLayout, FixedRequests, ListRequests, CommandsOf, Sets, Gets

(* ... and of the simulation's.                                            *)
LEMMA SimulationHasLayout ==
  ASSUME NEW p, request.command \in CommandsOf("simulation"), SimulationParse(p).ok
  PROVE  HasLayout(request.command, p)
<1>1. /\ ParseMotionConfigRequest(p).ok => p.size = 24
      /\ ParseEnvironmentConfigRequest(p).ok => p.size = 24
      /\ ParseGnssConfigRequest(p).ok => p.size = 56
  BY ShapesHaveSizes, Zenon DEF ParseMotionConfigRequest, ParseEnvironmentConfigRequest,
     ParseGnssConfigRequest
<1>2. /\ ParseExternalPoseBatch(p).ok => p.size = 8 + p.count * 56
      /\ ParseExternalGnssBatch(p).ok => p.size = 8 + p.count * 56
  BY ShapesHaveSizes DEF ParseExternalPoseBatch, ParseExternalGnssBatch
<1>3. IsEmpty(p).ok => p.size = 0
  BY ShapesHaveSizes
<1> QED
  BY <1>1, <1>2, <1>3 DEF SimulationParse, HasLayout, FixedRequests, ListRequests, CommandsOf, Sets, Gets

(* A request in hand has a payload its command can carry, as PayloadsAreKept *)
(* and the assumptions on payloads know it.                                *)
LEMMA RequestsPayload ==
  ASSUME RequestInv, NEW area \in areas, Handling(area)
  PROVE  LET c == request.command
             p == request.payload
         IN  /\ area \in UNION AreaSets /\ area \in DOMAIN Sets /\ c \in CommandsOf(area) \ Unsupported
             /\ p \in Payloads[c] \union OddPayloads[c] /\ p.size \in Nat /\ p.count \in Nat
<1>1. /\ request \in PlainRequests \union OddRequests
      /\ request.command \in CommandsOf(area) \ Unsupported /\ area \in UNION AreaSets
  BY DEF RequestInv, Handling
<1>2. area \in DOMAIN Sets
  BY <1>1, AreasAreKnown
<1>3. request.command # Unknown
  BY <1>1, <1>2 DEF CommandsOf, Sets, Gets, Unknown
<1>4. request.payload \in Payloads[request.command] \union OddPayloads[request.command]
  BY <1>1, <1>3, PayloadsAreKept
<1> QED
  BY <1>1, <1>2, <1>4, PayloadsAreSized

(* The displays' command is the topology's alone, and no other area's.     *)
LEMMA OneHandler ==
  ASSUME NEW area \in DOMAIN Sets, request.command \in CommandsOf(area)
  PROVE  /\ area = "topology" <=> request.command = "ReplaceDisplayTopology"
         /\ \A other \in DOMAIN Sets : request.command \in CommandsOf(other) => other = area
BY DEF CommandsOf, Sets, Gets

(* What the parser of an area but the topology takes has its layout.       *)
LEMMA TakenHasLayout ==
  ASSUME NEW area \in DOMAIN Sets, Handling(area), area # "topology",
         request.payload.count \in Nat, ParsersVerdict.ok
  PROVE  HasLayout(request.command, request.payload)
<1> DEFINE p == request.payload
<1>1. request.command \in CommandsOf(area) \ Unsupported
  BY DEF Handling
<1>2. \A other \in DOMAIN Sets : Handling(other) => other = area
  BY <1>1, OneHandler DEF Handling
<1>3. /\ { "topology", "video", "audio", "simulation", "power", "radio", "wifi" } = DOMAIN Sets
      /\ area \in { "video", "audio", "simulation", "power", "radio", "wifi" }
  BY DEF Sets
<1>4. CASE area = "video"
  <2>1. ParsersVerdict = ParseVideoEncoderConfigRequest(p)
    BY <1>2, <1>3, <1>4 DEF ParsersVerdict
  <2>2. p.size = 48
    BY <2>1, Zenon DEF ParseVideoEncoderConfigRequest, Verdict
  <2>3. request.command = "SetVideoEncoderConfig"
    BY <1>1, <1>4 DEF CommandsOf, Sets, Gets
  <2> QED
    BY <2>2, <2>3 DEF HasLayout, FixedRequests, ListRequests
<1>5. CASE area = "audio"
  <2>1. ParsersVerdict = ParseAudioEncoderConfigRequest(p)
    BY <1>2, <1>3, <1>5 DEF ParsersVerdict
  <2>2. p.size = 16
    BY <2>1, Zenon DEF ParseAudioEncoderConfigRequest, Verdict
  <2>3. request.command = "SetAudioEncoderConfig"
    BY <1>1, <1>5 DEF CommandsOf, Sets, Gets
  <2> QED
    BY <2>2, <2>3 DEF HasLayout, FixedRequests, ListRequests
<1>6. CASE area = "simulation"
  <2>1. ParsersVerdict = SimulationParse(p)
    BY <1>2, <1>3, <1>6 DEF ParsersVerdict
  <2> QED
    BY <1>1, <1>6, <2>1, SimulationHasLayout
<1>7. CASE area \in Remote
  <2>1. ParsersVerdict = RemoteParse(p)
    BY <1>2, <1>3, <1>7 DEF ParsersVerdict, Remote
  <2>2. \A other \in DOMAIN Sets : request.command \in CommandsOf(other) => other = area
    BY <1>1, OneHandler
  <2>3. CASE area = "power"
    <3>1. RemoteParse(p) = PowerParse(p)
      BY <1>1, <2>3 DEF RemoteParse
    <3> QED
      BY <1>1, <2>1, <2>3, <3>1, PowerHasLayout
  <2>4. CASE area = "radio"
    <3>1. RemoteParse(p) = RadioParse(p)
      BY <1>1, <1>3, <2>2, <2>4 DEF RemoteParse
    <3> QED
      BY <1>1, <2>1, <2>4, <3>1, RadioHasLayout
  <2>5. CASE area = "wifi"
    <3>1. RemoteParse(p) = WifiParse(p)
      BY <1>3, <2>2, <2>5 DEF RemoteParse
    <3> QED
      BY <1>1, <2>1, <2>5, <3>1, WifiHasLayout
  <2> QED
    BY <1>7, <2>3, <2>4, <2>5 DEF Remote
<1> QED
  BY <1>3, <1>4, <1>5, <1>6, <1>7 DEF Remote

(* Whatever a host sends, the parser that gets it stays inside the payload *)
(* and takes it only if every byte is accounted for: the layout FHC1.md    *)
(* gives the command, with the records it counts, or for the display       *)
(* topology just what the code itself writes of the displays it found.     *)
THEOREM EveryByteIsAccountedFor == Spec => []RequestsAreSound
<1>1. Init => RequestInv
  BY DEF Init, RequestInv
<1>2. RequestInv /\ [Next]_vars => RequestInv'
  BY RequestsStay
<1>3. RequestInv => RequestsAreSound
  <2> SUFFICES ASSUME RequestInv, NEW area \in areas, Handling(area), ParsersVerdict.ok
               PROVE  IsWhole(request.command, request.payload)
    BY ParserStaysInside, Zenon DEF RequestsAreSound
  <2> DEFINE c == request.command
             p == request.payload
  <2>1. /\ area \in UNION AreaSets /\ area \in DOMAIN Sets /\ c \in CommandsOf(area) \ Unsupported
        /\ p \in Payloads[c] \union OddPayloads[c] /\ p.size \in Nat /\ p.count \in Nat
    BY RequestsPayload, Zenon
  <2>2. area = "topology" <=> c = "ReplaceDisplayTopology"
    BY <2>1, OneHandler
  <2>3. CASE area = "topology"
    <3>1. ParsersVerdict = ParseReplaceDisplayTopologyRequest(p)
      <4>1. Handling("topology") /\ ~Handling("video") /\ ~Handling("audio") /\ ~Handling("simulation")
        BY <2>2, <2>3 DEF Handling, CommandsOf, Sets, Gets
      <4> QED
        BY <4>1, Zenon DEF ParsersVerdict
    <3>2. IsDisplayPayload(p)
      BY <2>1, <2>2, <2>3, DisplaysAreListed
    <3>3. SerializeReplaceDisplayTopologyRequest(ParsedDisplays(p)).ok
          /\ SerializeReplaceDisplayTopologyRequest(ParsedDisplays(p)).payload = p
      BY <3>1, <3>2, AcceptedIsWritten, Zenon DEF IsWritten
    <3>4. SerializeReplaceDisplayTopologyRequest(ParsedDisplays(p)) = [ ok |-> TRUE, payload |-> p ]
      BY <3>3, WrittenIsRecord, Zenon
    <3>5. c = "ReplaceDisplayTopology"
      BY <2>2, <2>3
    <3> HIDE DEF c, p
    <3>6. IsWhole(c, p)
      BY <3>4, <3>5 DEF IsWhole, FixedRequests, ListRequests
    <3> QED
      BY <3>6 DEF c, p
  <2>4. CASE area # "topology"
    <3>1. HasLayout(c, p)
      BY <2>1, <2>4, TakenHasLayout
    <3>2. c \in DOMAIN ListRequests => Len(p.records) = p.count
      <4>1. c \in DOMAIN ListRequests =>
              p.size = ListRequests[c].header + p.count * ListRequests[c].record
        BY <3>1, Zenon DEF HasLayout
      <4> QED
        BY <2>1, <4>1, RecordsAreListed
    <3>3. c # "ReplaceDisplayTopology"
      BY <2>2, <2>4
    <3> HIDE DEF c, p
    <3> QED
      BY <3>1, <3>2, <3>3 DEF IsWhole, HasLayout, FixedRequests, ListRequests, c, p
  <2> QED
    BY <2>3, <2>4
<1> QED
  BY <1>1, <1>2, <1>3, PTL DEF Spec

-----------------------------------------------------------------------------
(* The lease that the requests renew and the expiry ends is the one whose  *)
(* time ControlLease counts: both keep to AuthorityLease.                  *)

HostLease == INSTANCE AuthorityLease

\* The host whose request is worked on has not gone: the worker that would notice is
\* the one that works on it.
RequestHasAHost == phase \in { "received", "calling", "calling again", "answered" } => connected

\* What the handlers, the services and the listeners do is no step of the lease.
LEMMA HandlersLeaveLease ==
  ASSUME RequestHasAHost,
         \/ Handle \/ CallRemote \/ TellTopology \/ OthersMove \/ ServiceDies \/ ServiceStarts
         \/ ExpireSimulation \/ ExpireRemote \/ ReleaseRemote
  PROVE  UNCHANGED << connected, authority >> /\ RequestHasAHost'
<1>1. UNCHANGED hostVars
  BY DEF Handle, Refuse, HandleTopology, HandleEncoders, HandleSimulation, HandleRemote, CallRemote,
         TellTopology, OthersMove, ServiceDies, ServiceStarts, ExpireSimulation, ExpireRemote,
         ReleaseRemote
<1>2. CASE Handle \/ CallRemote
  <2>1. phase \in { "received", "calling", "calling again" }
    BY <1>2 DEF Handle, Refuse, HandleTopology, HandleEncoders, HandleEncoder, HandleSimulation,
                HandleRemote, CallRemote, Handling
  <2> QED
    BY <1>1, <2>1 DEF hostVars, RequestHasAHost
<1>3. CASE TellTopology \/ OthersMove \/ ServiceDies \/ ServiceStarts
  BY <1>1, <1>3 DEF TellTopology, OthersMove, ServiceDies, ServiceStarts, hostVars, workerVars,
                    RequestHasAHost
<1>4. CASE ExpireSimulation \/ ExpireRemote \/ ReleaseRemote
  <2>1. phase' \in { "idle", "expired simulation", "releasing" }
    BY <1>4 DEF ExpireSimulation, ExpireRemote, ReleaseRemote
  <2> QED
    BY <1>1, <2>1 DEF hostVars, RequestHasAHost
<1> QED
  BY <1>1, <1>2, <1>3, <1>4 DEF hostVars

\* The channel's own steps are steps of the lease: a host that sends nonsense is
\* disconnected, an answer is written to its host or finds it gone, and the expiry
\* begins with a lease that runs (HostControlChannel::Run, SendResponse).
LEMMA ChannelKeepsLease ==
  ASSUME RequestHasAHost, ReceiveRequest \/ SendAnswer \/ HostComes \/ HostGoes \/ ExpireTopology
  PROVE  (HostLease!Next \/ UNCHANGED << connected, authority >>) /\ RequestHasAHost'
<1> USE DEF HostLease!Next, RequestHasAHost
<1>1. CASE ReceiveRequest
  BY <1>1 DEF ReceiveRequest, Disconnect, Lost, HostLease!HostGoes, HostLease!Kept
<1>2. CASE SendAnswer
  <2>1. connected /\ phase' = "idle"
    BY <1>2 DEF SendAnswer
  <2>2. PICK lease \in { "held", authority } :
          (authority' = lease /\ UNCHANGED connected) \/ Disconnect(lease)
    BY <1>2 DEF SendAnswer
  <2> QED
    BY <2>1, <2>2 DEF Disconnect, Lost, HostLease!HostGoes, HostLease!Kept, HostLease!Renew,
                      HostLease!RenewUnheard
<1>3. CASE HostComes
  BY <1>3 DEF HostComes, HostLease!HostComes
<1>4. CASE HostGoes
  BY <1>4 DEF HostGoes, Disconnect, Lost, workerVars, HostLease!HostGoes, HostLease!Kept
<1>5. CASE ExpireTopology
  BY <1>5 DEF ExpireTopology, HostLease!Expire
<1> QED
  BY <1>1, <1>2, <1>3, <1>4, <1>5

\* Whatever a host asks for, in whatever state the services are: requests renew, and
\* expiries end, the lease that FHC1 describes (HostControlChannel, DeviceControlHandler).
THEOREM RequestsKeepLease == Spec => HostLease!Spec
<1>1. Init => HostLease!Init /\ RequestHasAHost
  BY DEF Init, HostLease!Init, RequestHasAHost
<1>2. RequestHasAHost /\ [Next]_vars => [HostLease!Next]_<< connected, authority >> /\ RequestHasAHost'
  <2> SUFFICES ASSUME RequestHasAHost, [Next]_vars
               PROVE  (HostLease!Next \/ UNCHANGED << connected, authority >>) /\ RequestHasAHost'
    OBVIOUS
  <2>1. CASE UNCHANGED vars
    BY <2>1 DEF vars, hostVars, workerVars, RequestHasAHost
  <2> QED
    BY <2>1, HandlersLeaveLease, ChannelKeepsLease DEF Next, Worker
<1> QED
  BY <1>1, <1>2, PTL DEF Spec, HostLease!Spec, HostLease!leaseVars
=============================================================================
