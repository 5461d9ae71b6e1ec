--------------------------- MODULE ControlFormats ---------------------------
(***************************************************************************)
(* The FHC1 formats of the device control commands: what each parser takes *)
(* and how far it reads, and what each serializer makes of the content it  *)
(* is given (control, topology, simulation, power, radio, wifi and the     *)
(* encoders' *ControlProtocol.cpp).                                        *)
(*                                                                         *)
(* A request's payload is what the checks look at:                         *)
(*   size               its bytes                                          *)
(*   version, declared  the first two fields                               *)
(*   zero               are the reserved fields and the padding zero?      *)
(*   count              the number of records or of text bytes declared    *)
(*   body               the bytes declared of a second text                *)
(*   lease              the control lease in milliseconds                  *)
(*   valid              are the other fields in the ranges checked?        *)
(*   records            the records that follow the header                 *)
(*   values             what the fields mean to the handler                *)
(* A parser's verdict is whether it takes the payload, and how many of its *)
(* bytes it looks at before it decides.  Offsets, byte order and the       *)
(* meaning of a value are left out.                                        *)
(***************************************************************************)
EXTENDS Integers, Sequences, SequencesExt, FiniteSets

MaxPayload == 65536            \* kMaximumControlPayloadSize
U16(n) == n % 65536            \* WriteUint16
Version == 1                   \* k*ControlVersion
MaxLease == 60000              \* kMaximum*ControlLeaseMs

Total(sizes) ==
  LET total[n \in 0 .. Len(sizes)] == IF n = 0 THEN 0 ELSE total[n - 1] + sizes[n]
  IN  total[Len(sizes)]

Aligned(n) == ((n + 3) \div 4) * 4

-----------------------------------------------------------------------------
(* The packet header (ControlProtocol.cpp).  A route is a plane, a kind    *)
(* and flags.                                                              *)

IsValidRouteKind(route) ==
  route.plane = "FHC1" /\ ~route.flags
    /\ route.kind \in { "request", "response", "event", "error" }

IsRequestRoute(route) == IsValidRouteKind(route) /\ route.kind = "request"

ParseControlPacketHeader(h) ==
  h.magic /\ h.version = Version /\ h.size = 24 /\ h.zero
    /\ IsValidRouteKind(h.route) /\ h.payload \in 0 .. MaxPayload

\* A response: its payload's size, the size its header gives, the size the
\* payload itself declares (0: none), and whether it renews the authority.
Response(size, declared) ==
  [ ok |-> TRUE, size |-> size, header |-> size, declared |-> declared,
    renews |-> FALSE, kind |-> "reply" ]

NoResponse == [ Response(0, 0) EXCEPT !.ok = FALSE ]

SerializeControlErrorResponse(code) == [ Response(8, 0) EXCEPT !.kind = code ]

\* HostControlChannel's own check, and the header's, before it is sent.
SerializeControlPacketHeader(r) == r.header \in 0 .. MaxPayload /\ r.header = r.size

-----------------------------------------------------------------------------
(* The shapes the parsers share.                                           *)

Verdict(ok, read) == [ ok |-> ok, read |-> read ]

IsEmpty(p) == Verdict(p.size = 0, 0)

ValidLease(lease) == lease \in 1 .. MaxLease

\* HasEnvelope, HasVersionedSize: nothing is read of a payload of another size.
HasEnvelope(p, size) == p.size = size /\ p.version = Version /\ p.declared = size

Fixed(p, size, fields) ==
  Verdict(HasEnvelope(p, size) /\ p.zero /\ fields, IF p.size = size THEN size ELSE 0)

\* A header that declares the payload's size and how many records follow it.
HasListHeader(p, header) ==
  p.size >= header /\ p.version = Version /\ p.declared = p.size /\ p.zero

\* Lets the loop find the end of the payload by itself.
Records_Counted(p, header, record, limits) == p.count \in limits

Records(p, header, record, limits) == p.count \in limits /\ p.size = header + p.count * record

List(p, header, record, limits, leased, good) ==
  LET framed == HasListHeader(p, header) /\ Records(p, header, record, limits)
                  /\ (leased => ValidLease(p.lease))
  IN  Verdict(framed /\ (\A i \in DOMAIN p.records : p.records[i].valid) /\ good,
              IF framed THEN header + p.count * record
              ELSE IF p.size >= header THEN header ELSE 0)

-----------------------------------------------------------------------------
(* The requests.                                                           *)

ParseManualPowerRequest(p) == Fixed(p, 24, p.valid /\ ValidLease(p.lease))

ParseRegistrationRequest(p) == Fixed(p, 24, p.valid /\ ValidLease(p.lease))

ParseSignalRequest(p) == Fixed(p, 32, p.valid /\ ValidLease(p.lease))

ParseCellsRequest(p) ==
  LET serving == { i \in DOMAIN p.records : p.records[i].key = 1 }
  IN  List(p, 16, 60, 1 .. 32, TRUE, Cardinality(serving) = 1)

ParseSimStateRequest(p) == Fixed(p, 16, p.valid /\ ValidLease(p.lease))

ParseIncomingCallRequest(p) ==
  LET parsed == List(p, 12, 1, 1 .. 20, FALSE, TRUE)
  IN  Verdict(parsed.ok /\ p.valid, parsed.read)

ParseCallStateRequest(p) == Fixed(p, 24, p.valid)

ParseIncomingSmsRequest(p) ==
  LET framed == HasListHeader(p, 16) /\ p.count \in 1 .. 20 /\ p.body \in 1 .. 1024
                  /\ p.size = 16 + p.count + p.body
  IN  Verdict(framed /\ p.valid, IF framed THEN p.size ELSE IF p.size >= 16 THEN 16 ELSE 0)

ParseEnabledRequest(p) == Fixed(p, 16, p.valid /\ ValidLease(p.lease))

\* A record's key is its identity, its other key the BSSID.
ParseAccessPointsRequest(p) ==
  List(p, 16, 72, 0 .. 64, TRUE,
       \A i \in DOMAIN p.records, j \in DOMAIN p.records :
         i # j => /\ p.records[j].key # p.records[i].key
                  /\ p.records[j].other # p.records[i].other)

ParseConnectionRequest(p) == Fixed(p, 16, p.valid /\ ValidLease(p.lease))

ParseLinkRequest(p) == Fixed(p, 32, p.valid /\ ValidLease(p.lease))

\* A record's key is its timestamp.
ParseSamplesRequest(p) ==
  List(p, 16, 32, 1 .. 256, TRUE,
       \A i \in DOMAIN p.records :
         p.records[i].key > (IF i = 1 THEN 0 ELSE p.records[i - 1].key))

ParseMotionConfigRequest(p) == Fixed(p, 24, TRUE)

ParseEnvironmentConfigRequest(p) == Fixed(p, 24, TRUE)

ParseGnssConfigRequest(p) == Fixed(p, 56, p.valid)

\* A batch declares the size of a record instead of the payload's.
ParseBatchHeader(p, record) ==
  p.size >= 8 /\ p.version = Version /\ p.declared = record /\ p.zero
    /\ Records(p, 8, record, 1 .. 512)

Batch(p) ==
  Verdict(ParseBatchHeader(p, 56) /\ \A i \in DOMAIN p.records : p.records[i].valid,
          IF ParseBatchHeader(p, 56) THEN 8 + p.count * 56 ELSE IF p.size >= 8 THEN 8 ELSE 0)

ParseExternalPoseBatch(p) == Batch(p)

ParseExternalGnssBatch(p) == Batch(p)

\* No envelope, but every field the mask does not select must be zero.
ParseVideoEncoderConfigRequest(p) ==
  Verdict(p.size = 48 /\ p.zero /\ p.valid, IF p.size = 48 THEN 48 ELSE 0)

ParseAudioEncoderConfigRequest(p) ==
  Verdict(p.size = 16 /\ p.zero /\ p.valid, IF p.size = 16 THEN 16 ELSE 0)

-----------------------------------------------------------------------------
(* The display topology, the one request this code can also write.  Its    *)
(* payload has a record per display: the size it declares, the numbers of  *)
(* rates and of name bytes, whether its padding is zero, and the display.  *)
(* In a name "!" stands for bytes that are not UTF-8.                      *)

MaxDisplays == 64
MaxRates == 16
MaxName == 128

IsValidUtf8(name) == "!" \notin ToSet(name)

RecordSize(d) == Aligned(36 + 4 * Len(d.rates) + Len(d.name))

TopologyRecord(d) ==
  [ size |-> RecordSize(d), rates |-> Len(d.rates), name |-> Len(d.name), zero |-> TRUE,
    display |-> d ]

SerializeReplaceDisplayTopologyRequest(ds) ==
  [ ok |-> /\ Len(ds) <= MaxDisplays
           /\ \A d \in ToSet(ds) : /\ Len(d.rates) <= MaxRates /\ Len(d.name) <= MaxName
                                   /\ IsValidUtf8(d.name)
           /\ 8 + Total([ i \in DOMAIN ds |-> RecordSize(ds[i]) ]) <= MaxPayload,
    payload |-> [ size |-> 8 + Total([ i \in DOMAIN ds |-> RecordSize(ds[i]) ]),
                  zero |-> TRUE, count |-> Len(ds),
                  records |-> [ i \in DOMAIN ds |-> TopologyRecord(ds[i]) ] ] ]

\* Where the payload has no record, it can only have zero bytes.
NoRecord == [ size |-> 0, rates |-> 0, name |-> 0, zero |-> TRUE ]

\* Takes a record's word for its size.
RecordFits_Declared(r, left) ==
  /\ r.rates <= MaxRates /\ r.name <= MaxName
  /\ r.size = Aligned(36 + 4 * r.rates + r.name)

RecordFits(r, left) ==
  /\ r.rates <= MaxRates /\ r.name <= MaxName
  /\ r.size = Aligned(36 + 4 * r.rates + r.name) /\ r.size <= left

\* One turn of the loop over the records: where it ends, and how far it has read.
ScanRecord(p, before, r) ==
  LET left == p.size - before.at IN
  IF ~before.ok \/ left < 36 THEN [ before EXCEPT !.ok = FALSE ]
  ELSE IF ~RecordFits(r, left) THEN [ before EXCEPT !.ok = FALSE, !.read = before.at + 36 ]
  ELSE [ ok |-> r.display.port <= 255 /\ r.zero /\ IsValidUtf8(r.display.name),
         at |-> before.at + r.size, read |-> before.at + r.size ]

RecordAt(p, i) == IF i \in DOMAIN p.records THEN p.records[i] ELSE NoRecord

ScanStart == [ ok |-> TRUE, at |-> 8, read |-> 8 ]

TopologyScan(p) ==
  LET scan[i \in 0 .. p.count] ==
        IF i = 0 THEN ScanStart ELSE ScanRecord(p, scan[i - 1], RecordAt(p, i))
  IN  scan[p.count]

ParseReplaceDisplayTopologyRequest(p) ==
  LET listed == p.size >= 8 /\ p.zero /\ p.count <= MaxDisplays
      scanned == TopologyScan(p)
  IN  Verdict(listed /\ scanned.ok /\ scanned.at = p.size,
              IF listed THEN scanned.read ELSE IF p.size >= 8 THEN 8 ELSE 0)

ParsedDisplays(p) == [ i \in DOMAIN p.records |-> p.records[i].display ]

-----------------------------------------------------------------------------
(* The responses to updates.                                               *)

Renewing(r, result) ==
  [ r EXCEPT !.kind = result, !.renews = result \in { "applied", "unchanged" } ]

SerializeReplaceDisplayTopologyResponse_AppliedOnly(result) ==
  [ Response(16, 0) EXCEPT !.kind = result, !.renews = result = "applied" ]

SerializeReplaceDisplayTopologyResponse(result) == Renewing(Response(16, 0), result)

SerializeSimulationUpdateResponse(result) == Renewing(Response(16, 0), result)

SerializePowerUpdateResponse(result) == Renewing(Response(16, 16), result)

SerializeRadioUpdateResponse(result) == Renewing(Response(24, 24), result)

SerializeWifiUpdateResponse(result) == Renewing(Response(24, 24), result)

\* The encoders keep their configuration when the authority is lost.
SerializeVideoEncoderConfigResponse(state) ==
  IF state.known /\ state.generationFits THEN Response(32, 0) ELSE NoResponse

SerializeAudioEncoderConfigResponse(state) ==
  IF state.known /\ state.bitrate # 0 /\ state.codec # 0 THEN Response(20, 0) ELSE NoResponse

-----------------------------------------------------------------------------
(* The responses to queries.                                               *)

\* PrepareResponse of the radio and Wi-Fi protocols: the size must fit its field.
PrepareResponse(size) == IF size <= 65535 THEN Response(size, U16(size)) ELSE NoResponse

\* PrepareResponse of the others; their lists declare a header's size only.
PrepareList(size) == IF size <= MaxPayload THEN Response(size, 0) ELSE NoResponse

SerializePowerSnapshotResponse == Response(96, 96)
SerializePowerCapabilitiesResponse == Response(24, 24)

\* The content is the lengths of the ten strings.
SerializeRadioProfileResponse(strings) == PrepareResponse(48 + Total(strings))
SerializeRadioSnapshotResponse == PrepareResponse(80)

SerializeRadioCellsResponse(cells) == PrepareResponse(16 + cells * 60)

\* The content is the lengths of the numbers.  The size may be MaxPayload,
\* which its 16-bit field cannot say.
SerializeRadioCallsResponse(numbers) ==
  LET size == 16 + Total(numbers) + 24 * Len(numbers)
  IN  IF size > MaxPayload THEN NoResponse
      ELSE Response(size, U16(size))

\* The content is the lengths of the texts, oldest event first.
SmsSize(events, n) == 16 + Total(SubSeq(events, Len(events) - n + 1, Len(events))) + 32 * n

\* Sends every event, as the other lists do.
SmsKept_All(events) == Len(events)

SmsKept(events) ==
  CHOOSE n \in 0 .. Len(events) :
    /\ SmsSize(events, n) <= 65535
    /\ n < Len(events) => SmsSize(events, n + 1) > 65535

SerializeRadioSmsEventsResponse(events) ==
  LET size == SmsSize(events, SmsKept(events))
  IN  IF size > MaxPayload THEN NoResponse ELSE Response(size, U16(size))

SerializeRadioCapabilitiesResponse == PrepareResponse(32)

\* ParseMacAddress: six octets, and not a group address.
ParseMacAddress(mac) == mac.octets = 6 /\ ~mac.group

SerializeWifiProfileResponse(x) ==
  IF x.country = 2 /\ x.accessPoints <= 64 /\ ParseMacAddress(x.station)
  THEN PrepareResponse(48) ELSE NoResponse

SerializeWifiSnapshotResponse(x) ==
  IF x.ssid <= 32 /\ (x.connected => ParseMacAddress(x.bssid))
  THEN PrepareResponse(96) ELSE NoResponse

WriteAccessPointRecord(x) == x.identity > 0 /\ x.ssid \in 1 .. 32 /\ ParseMacAddress(x.bssid)

SerializeWifiAccessPointsResponse(points) ==
  IF Len(points) <= 64 /\ \A x \in ToSet(points) : WriteAccessPointRecord(x)
  THEN PrepareResponse(16 + 72 * Len(points)) ELSE NoResponse

SerializeWifiCapabilitiesResponse == PrepareResponse(32)

SerializeSensorConfigResponse == Response(40, 40)

\* The content is the lengths of the names.
SerializeSensorCatalogResponse(names) ==
  PrepareList(16 + Total([ i \in DOMAIN names |-> 24 + Aligned(names[i]) ]))

\* The content is the numbers of values.
SerializeSensorSnapshotResponse(readings) ==
  IF \A n \in ToSet(readings) : n <= 16
  THEN PrepareList(24 + Total([ i \in DOMAIN readings |-> 24 + 4 * readings[i] ]))
  ELSE NoResponse

SerializeGnssConfigResponse == Response(64, 64)
SerializeGnssCapabilitiesResponse == Response(16, 16)
SerializeGnssSnapshotResponse(satellites) == PrepareList(88 + 24 * satellites)
=============================================================================
