--------------------------- MODULE MCDeviceControl ---------------------------
(* A small instance of DeviceControl for TLC: good payloads of every       *)
(* command, payloads that differ from them in one field, and contents of   *)
(* the states queried up to the limits their owners keep.                  *)
EXTENDS DeviceControl

MCAreaSets ==
  { {"topology"}, {"simulation"}, {"power"}, {"radio"}, {"wifi"}, {"audio", "video"},
    {"simulation", "power", "audio"} }

-----------------------------------------------------------------------------
(* The displays.                                                           *)

Display(id, port) ==
  [ id |-> id, port |-> port, width |-> 1920, height |-> 1080, dpi |-> 160,
    active |-> 60, rates |-> << 30, 60 >>, name |-> << "T", "V" >> ]

D1 == Display(2, 1)
D2 == Display(3, 2)
Renamed(d) == [ d EXCEPT !.name = << "T", "W" >> ]

InvalidDisplays ==
  { [ D1 EXCEPT !.id = 1 ], [ D1 EXCEPT !.port = 0 ], [ D1 EXCEPT !.height = 319 ],
    [ D1 EXCEPT !.dpi = 641 ], [ D1 EXCEPT !.name = << >> ], [ D1 EXCEPT !.active = 50 ],
    [ D1 EXCEPT !.rates = << 60, 60 >> ], [ D1 EXCEPT !.rates = << 60, 61 >> ] }

MCTopologyRequests ==
  { << >>, << D1 >>, << Renamed(D1) >>, << D2, D1 >>, << D1, D2 >>, << D2, Display(4, 2) >>,
    << D2, [ D2 EXCEPT !.port = 3 ] >> } \union { << d >> : d \in InvalidDisplays }

Snapshot(ds) == SerializeReplaceDisplayTopologyRequest(ds).payload

OddSnapshots ==
  LET p == Snapshot(<< D1, D2 >>) IN
  { [ p EXCEPT !.size = 8, !.records = << >> ] }
  \union { [ p EXCEPT !.size = n ] : n \in { 0, 7, 43, 44, p.size - 4, p.size - 1, p.size + 1, p.size + 40 } }
  \union { [ p EXCEPT !.count = n ] : n \in { 0, 1, 3, 65 } }
  \union { [ p EXCEPT !.count = 3, !.size = @ + 40 ], [ p EXCEPT !.zero = FALSE ] }
  \union UNION { { [ p EXCEPT !.records[i].size = @ + 4 ], [ p EXCEPT !.records[i].size = @ - 4 ],
                   [ p EXCEPT !.records[i].rates = @ + 1 ], [ p EXCEPT !.records[i].name = @ - 2 ],
                   [ p EXCEPT !.records[i].zero = FALSE ],
                   [ p EXCEPT !.records[i].display.port = 257 ] } : i \in 1 .. 2 }
  \union { Snapshot(<< d >>) : d \in
             { [ D1 EXCEPT !.name = << "!" >> ], [ D1 EXCEPT !.rates = [ i \in 1 .. 17 |-> i ] ],
               [ D1 EXCEPT !.name = [ i \in 1 .. 129 |-> "n" ] ] } }

-----------------------------------------------------------------------------
(* The other payloads.                                                     *)

NoValues == [ value |-> << >>, transition |-> 0 ]

Plain(size) ==
  [ size |-> size, version |-> 1, declared |-> size, zero |-> TRUE, count |-> 0, lease |-> 1000,
    valid |-> TRUE, records |-> << >>, body |-> 0, values |-> NoValues ]

Record(key) == [ valid |-> TRUE, key |-> key, other |-> key ]

Listing(header, record, keys) ==
  [ Plain(header + record * Len(keys)) EXCEPT
      !.count = Len(keys), !.records = [ i \in DOMAIN keys |-> Record(keys[i]) ] ]

Meaning(p, value, transition) ==
  [ p EXCEPT !.values = [ value |-> value, transition |-> transition ] ]

BatchOf(n) == [ Listing(8, 56, [ i \in 1 .. n |-> i ]) EXCEPT !.declared = 56 ]

Call == [ Plain(15) EXCEPT !.count = 3 ]
Sms == [ Plain(24) EXCEPT !.count = 3, !.body = 5 ]

Good ==
  [ SetAudioEncoderConfig |-> { Plain(16) },
    SetVideoEncoderConfig |-> { Plain(48) },
    SetMotionConfig |-> { Meaning(Plain(24), v[1], v[2]) : v \in
      { << << 0, 0 >>, 1000 >>, << << 1, 2 >>, 1000 >>, << << 1, 2 >>, 500 >>,
        << << 2, 0 >>, 500 >>, << << 0, 4 >>, 500 >>, << << 0, 0 >>, 60001 >> } },
    SetEnvironmentConfig |-> { Meaning(Plain(24), v[1], v[2]) : v \in
      { << << 200 >>, 1000 >>, << << 500 >>, 1000 >>, << << 200000 >>, 1000 >> } },
    SetGnssConfig |-> { Meaning(Plain(56), v[1], v[2]) : v \in
      { << << 1, TRUE, "Paris" >>, 1000 >>, << << 1, FALSE, "Tokyo" >>, 500 >>,
        << << 1, TRUE, "off the map" >>, 500 >> } },
    PushExternalPoseBatch |-> { BatchOf(2) },
    PushExternalGnssBatch |-> { BatchOf(512) },
    SetPowerControl |-> { Plain(24) },
    SetRadioRegistration |-> { Plain(24) },
    SetRadioSignal |-> { Plain(32) },
    ReplaceRadioCells |-> { Listing(16, 60, << 0, 1 >>) },
    SetSimState |-> { Plain(16) },
    InjectIncomingCall |-> { Call },
    SetRadioCallState |-> { Plain(24) },
    InjectIncomingSms |-> { Sms },
    PushRadioSampleBatch |-> { Plain(16) },
    SetWifiEnabled |-> { Plain(16) },
    ReplaceWifiAccessPoints |-> { Listing(16, 72, << >>), Listing(16, 72, << 1, 2 >>) },
    SetWifiConnection |-> { Plain(16) },
    SetWifiLink |-> { Plain(32) },
    PushWifiSampleBatch |-> { Listing(16, 32, << 1, 2 >>) } ]

Commands == UNION { CommandsOf(area) : area \in DOMAIN Sets }

MCPayloads ==
  [ c \in Commands |->
      IF c = "ReplaceDisplayTopology" THEN { Snapshot(ds) : ds \in MCTopologyRequests }
      ELSE IF c \in DOMAIN Good THEN Good[c] ELSE { [ Plain(0) EXCEPT !.declared = 0 ] } ]

Listings == { "ReplaceRadioCells", "ReplaceWifiAccessPoints", "PushWifiSampleBatch",
              "PushExternalPoseBatch", "PushExternalGnssBatch" }
Texts == { "InjectIncomingCall", "InjectIncomingSms" }
Leased == { "SetPowerControl", "SetRadioRegistration", "SetRadioSignal", "ReplaceRadioCells",
            "SetSimState", "SetWifiEnabled", "ReplaceWifiAccessPoints", "SetWifiConnection",
            "SetWifiLink", "PushWifiSampleBatch" }
WithoutReserved == { "SetRadioSignal", "SetWifiConnection", "SetWifiLink" }
Unchecked == Listings \union { "SetMotionConfig", "SetEnvironmentConfig" }

\* Payloads of command c with one thing wrong with p.
Odd(c, p) ==
  { [ p EXCEPT !.size = n ] : n \in { p.size + 1, p.size + 4 } \union { m \in { 0, 4, p.size - 1 } : m >= 0 } }
  \union { [ p EXCEPT !.size = @ + 8, !.declared = @ + 8 ] }
  \union (IF c \notin DOMAIN Good THEN {} ELSE
    { [ p EXCEPT !.version = 2 ], [ p EXCEPT !.declared = @ + 1 ] }
    \union { [ p EXCEPT !.zero = FALSE ] : x \in { c } \ WithoutReserved }
    \union { [ p EXCEPT !.valid = FALSE ] : x \in { c } \ Unchecked }
    \union { [ p EXCEPT !.lease = n ] : n \in IF c \in Leased THEN { 0, 60001 } ELSE {} }
    \union { [ p EXCEPT !.count = n ] : n \in IF c \notin Listings \union Texts THEN {}
               ELSE { p.count + 1, 65535 } \union { m \in { 0, p.count - 1 } : m >= 0 } }
    \union { [ p EXCEPT !.body = @ + 1 ] : x \in { c } \cap { "InjectIncomingSms" } }
    \union UNION { { [ p EXCEPT !.records[i].valid = FALSE ], [ p EXCEPT !.records[i].key = 1 ],
                     [ p EXCEPT !.records[i].other = 1 ], [ p EXCEPT !.records[i].key = 0 ] }
                   : i \in DOMAIN p.records \cap 1 .. 2 })

MCOddPayloads ==
  [ c \in Commands |-> IF c = "ReplaceDisplayTopology" THEN OddSnapshots
                       ELSE UNION { Odd(c, p) : p \in MCPayloads[c] } ]

-----------------------------------------------------------------------------
(* What the queried states may hold.                                       *)

Repeat(x, n) == [ i \in 1 .. n |-> x ]

Mac == [ octets |-> 6, group |-> FALSE ]
GroupMac == [ octets |-> 6, group |-> TRUE ]
Point == [ identity |-> 1, ssid |-> 32, bssid |-> Mac ]

MCContents ==
  [ SetVideoEncoderConfig |-> { [ known |-> TRUE, generationFits |-> TRUE ] },
    SetAudioEncoderConfig |-> { [ known |-> TRUE, bitrate |-> 64000, codec |-> 1 ] },
    GetRadioProfile |-> { Repeat(0, 10), Repeat(20, 10) },
    ListRadioCells |-> { 0, 1, 32 },
    ListRadioCalls |-> { << >>, Repeat(20, 8) },
    ListRadioSmsEvents |-> { << >>, << 2 >>, Repeat(1044, 60), Repeat(1044, 61), Repeat(1044, 64),
                             << 1044 >> \o Repeat(1024, 63) },
    GetWifiProfile |-> { [ country |-> 2, accessPoints |-> n, station |-> Mac ] : n \in { 0, 64 } },
    GetWifiSnapshot |-> { [ ssid |-> 0, connected |-> FALSE, bssid |-> GroupMac ],
                          [ ssid |-> 32, connected |-> TRUE, bssid |-> Mac ] },
    ListWifiAccessPoints |-> { << >>, Repeat(Point, 64) },
    ListSensors |-> { << >>, << 1 >>, Repeat(128, 128), Repeat(128, 129) },
    GetSensorSnapshot |-> { << >>, << 3, 1 >>, Repeat(16, 128), Repeat(17, 1) },
    GetGnssSnapshot |-> { 0, 64, 65 } ]
=============================================================================
