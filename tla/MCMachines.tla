------------------------------- MODULE MCMachines -------------------------------
(***************************************************************************)
(* Signalling machines side by side, for one run of TLC: `part` says which *)
(* of them a behaviour is about, and s1 .. s13 are that one's variables.   *)
(* The components do not interact; each keeps its module and its           *)
(* constants.                                                              *)
(***************************************************************************)
EXTENDS PacketFormats

CONSTANTS a1, a2, a3  \* addresses of devices

VARIABLES part, s1, s2, s3, s4, s5, s6, s7, s8, s9, s10, s11, s12, s13

\* AVDTP: the accepting end renders the first configuration on its first endpoint,
\* both on the second.  One end commands and waits for each answer, as the A2DP
\* source does; or both command, ask, and open and close media channels.
StreamOps == {"SetConfiguration", "Reconfigure", "Open", "Start", "Suspend", "Close", "Abort"}
SourceOps == {<<1, op>> : op \in StreamOps \cup {"Discover", "GetCapabilities", "GetConfiguration"}}
BothOps == {<<e, op>> : e \in {1, 2}, op \in StreamOps \cup {"media", "Discover"}}

Source == INSTANCE Avdtp WITH
  Seids <- {1, 2}, Configs <- {1, 2}, Rendered <- <<<<{1, 2}, {1, 2}>>, <<{1}, {1, 2}>>>>,
  Labels <- 1, Serial <- TRUE, Ops <- SourceOps,
  ep <- s1, known <- s2, pending <- s3, next <- s4, wire <- s5, media <- s6

Both == INSTANCE Avdtp WITH
  Seids <- {1}, Configs <- {1}, Rendered <- <<<<{1}>>, <<{1}>>>>,
  Labels <- 2, Serial <- TRUE, Ops <- BothOps,
  ep <- s1, known <- s2, pending <- s3, next <- s4, wire <- s5, media <- s6

\* Framing, with lengths around one, two and three packets: AVDTP without the length
\* that fills a single packet; ACL senders never stop in the middle.
Case(codec, mtu, lengths, stops) == [codec |-> codec, mtu |-> mtu, lengths |-> lengths, stops |-> stops]
FramingCases ==
  {Case("AVDTP", mtu, (0 .. 8) \ {mtu - 2}, TRUE) : mtu \in {3, 5, 6}}
    \cup {Case("AVCTP", mtu, 0 .. 10, TRUE) : mtu \in {2, 5, 6}}
    \cup {Case("ACL", mtu, 4 .. 11, FALSE) : mtu \in {4, 5}}
    \cup {Case("SBC", mtu, 1 .. 8, TRUE) : mtu \in {2, 4}}

Frm == INSTANCE Framing WITH
  Cases <- FramingCases, MaxMessages <- 3,
  case <- s1, sent <- s2, due <- s3, wire <- s4, asm <- s5, got <- s6

\* Remote control, metadata in three fragments and two: everything a remote does
\* within one session, and aborted, repeated and lost queries within two.
Remote == INSTANCE Avrcp WITH
  Labels <- 4, Pieces <- <<3, 2>>, Room <- 1, MaxSessions <- 1, MaxOps <- 3,
  Ops <- {"key", "status", "metadata", "monitor", "player", "other"},
  tg <- s1, ct <- s2, toTg <- s3, toCt <- s4, isUp <- s5, sessions <- s6, ops <- s7

Rejoin == INSTANCE Avrcp WITH
  Labels <- 4, Pieces <- <<3, 2>>, Room <- 1, MaxSessions <- 2, MaxOps <- 3,
  Ops <- {"metadata", "abort", "monitor", "again", "position", "player"},
  tg <- s1, ct <- s2, toTg <- s3, toCt <- s4, isUp <- s5, sessions <- s6, ops <- s7

\* A scene of four slots over three addresses.
Scene == INSTANCE SceneMedium WITH
  Addresses <- {a1, a2, a3}, MaxSlots <- 4, MaxLinks <- 2,
  devices <- s1, controllers <- s2, nextHandle <- s3, misrouted <- s4, panicked <- s5

\* Every packet format, a message at a time.
Formats ==
  [att |-> AttPdu, smp |-> Apart(SmpSent, SmpPairingPacket), keys |-> Shared(SmpKeys), acl |-> HciAcl, l2cap |-> L2capFrame,
   iso |-> Iso, signaling |-> L2capSignaling, command |-> HciCommands, event |-> HciEvents, iq |-> IqReports,
   advertising |-> [message |-> [w |-> AdvertisingDataSent, r |-> AdvertisingDataRead]],
   announcement |-> Alone(BasicAudioAnnouncement), avrcpCommand |-> AvrcpCommands, avrcpResponse |-> AvrcpResponses,
   avc |-> AvcFrame, avdtp |-> AvdtpMessages, sdp |-> SdpPdus, element |-> SdpElements, obexRequest |-> ObexRequests,
   obexResponse |-> ObexResponses, obexConnect |-> ObexConnectResponses, hid |-> HidMessages, rfcomm |-> RfcommFrames,
   mcc |-> MccCommands, lmp |-> LmpMessages, rtp |-> MediaPacket, sbc |-> SbcPayload]

Wire == INSTANCE Codecs WITH Families <- Formats, msg <- s1, wire <- s2, stage <- s3, heard <- s4

\* A BR/EDR keyboard and its computer, the link lost once.
HidRequests ==
  [t : {"GetReport"}, r : {1, 9}] \cup [t : {"SetReport"}, r : {1}, v : {5}, empty : BOOLEAN]
    \cup {[t |-> "SetReport", r |-> 9, v |-> 5, empty |-> FALSE], [t |-> "SetProtocol", mode |-> "Boot"], [t |-> "Control", op |-> "Suspend"]}
    \cup [t : {"GetProtocol", "unknown", "Output", "Data", "Handshake", "empty"}]

Keyboard == INSTANCE Hid WITH
  Reports <- {1}, Requests <- HidRequests, MaxInputs <- 2, MaxAsks <- 1, MaxLinks <- 2,
  Inputs <- {[len |-> 8, v |-> 1], [len |-> 4, v |-> 2], [len |-> 1, v |-> 3]},
  up <- s1, links <- s2, dev <- s3, host <- s4, toDev <- s5, toHost <- s6, made <- s7, want <- s8, asks <- s9

\* A keyboard and a mouse over GATT: every character, lines of three, chords of up to
\* seven keys, and every set of buttons.
Tables == INSTANCE HidReports
TheKeyboardMap == Tables!KeyboardReportMap
TheMouseMap == Tables!MouseReportMap
TheServices == Tables!Services
HogpCases == {"text", "line", "chord", "mouse"}
HogpText == [text |-> {9, 10, 13} \cup 32 .. 126, line |-> {97, 33}, chord |-> {}, mouse |-> {}]
HogpChords == {<<>>, <<4>>, <<4, 5>>, <<5, 4>>, <<1, 1, 1, 1, 1, 1>>, <<4, 5, 6, 7, 8, 9, 10>>}
HogpMaxOps == [text |-> 1, line |-> 3, chord |-> 3, mouse |-> 2]

OverGatt(p) == INSTANCE Hogp WITH
  Services <- TheServices, ReportMap <- IF p = "mouse" THEN TheMouseMap ELSE TheKeyboardMap, Text <- HogpText[p],
  Chords <- IF p = "chord" THEN HogpChords ELSE {}, Buttons <- IF p = "mouse" THEN SUBSET {1, 2, 3} ELSE {}, MaxOps <- HogpMaxOps[p],
  phase <- s1, at <- s2, services <- s3, pending <- s4, inFlight <- s5, subscribed <- s6, hid <- s7,
  up <- s8, down <- s9, typed <- s10, early <- s11, shown <- s12, ops <- s13

\* Bulk transfers: one and two fragments to a chunk, controllers with one, two, four and
\* shared buffers or none they tell of, chunks acknowledged or not, sinks with and
\* without a control point, links that go, peers that refuse.
BulkRun(total, mtu, buffers, control, withResponse, loses) ==
  [total |-> total, mtu |-> mtu, buffers |-> buffers, size |-> 27, shared |-> 2, reports |-> TRUE, control |-> control,
   useControl |-> TRUE, withResponse |-> withResponse, window |-> 2, data |-> TRUE, accepts |-> TRUE, loses |-> loses]
SmallRun == BulkRun(40, 23, 2, TRUE, FALSE, FALSE)
BulkCases ==
  {BulkRun(100, mtu, b, c, w, FALSE) : mtu \in {23, 50}, b \in {0, 1, 2, 4}, c \in BOOLEAN, w \in BOOLEAN}
    \cup {BulkRun(60, 23, b, TRUE, FALSE, TRUE) : b \in {0, 2}}
    \cup {[SmallRun EXCEPT !.data = FALSE], [SmallRun EXCEPT !.accepts = FALSE], [SmallRun EXCEPT !.useControl = FALSE],
          [SmallRun EXCEPT !.buffers = 0, !.reports = FALSE], [SmallRun EXCEPT !.buffers = 0, !.shared = 0]}

Bulk == INSTANCE BulkTransfer WITH
  Cases <- BulkCases, Timeout <- 2,
  case <- s1, link <- s2, r <- s3, held <- s4, done <- s5, toCentral <- s6, sink <- s7, overran <- s8

\* A phone finds a speaker among two devices and plays to it: speakers that offer
\* everything, a narrow bitpool or no common point, configurations forced on them,
\* links and channels that go, speakers that suspend and close.
SbcOffers == INSTANCE A2dp WITH
  Cases <- {}, PcmLen <- 4, Lead <- 3, Rate <- 2, Wrap <- 5, MaxNow <- 3, MaxLinks <- 2, MaxChannels <- 4,
  case <- s1, run <- s2, host <- s3, src <- s4, snk <- s5, wire <- s6, open <- s7, now <- s8
Everything == SbcOffers!FullCapability
Narrow == [Everything EXCEPT !.low = 10, !.high = 35]
MonoOnly == [Everything EXCEPT !.mode = {"Mono"}]
Silence == [SbcOffers!HighQuality EXCEPT !.low = 1, !.high = 1]
Named(audio, named) == [audio |-> audio, named |-> named]
Play(ladder, pair, can, forced, peer, losses) ==
  [ladder |-> ladder, target |-> {1}, devices |-> <<Named(TRUE, TRUE)>>, pair |-> pair, can |-> can, forced |-> forced,
   pcm |-> 13, peer |-> peer, losses |-> losses]
SpeakerCases ==
  {[Play("runner", TRUE, Everything, {}, {}, {}) EXCEPT !.target = t, !.devices = <<Named(TRUE, n), Named(a, TRUE)>>] :
     t \in {{}, {1}}, n \in BOOLEAN, a \in BOOLEAN}
    \cup {Play("runner", FALSE, can, f, {}, {}) : can \in {Everything, Narrow, MonoOnly}, f \in {{}, {SbcOffers!HighQuality}, {Silence}}}
    \cup {Play(l, TRUE, Narrow, {}, {"Suspend", "Close"}, {"link"}) : l \in {"runner", "scene"}}
    \cup {Play(l, TRUE, Narrow, {}, {}, {"link", "channel"}) : l \in {"runner", "scene"}}

Speaker == INSTANCE A2dp WITH
  Cases <- SpeakerCases, PcmLen <- 4, Lead <- 3, Rate <- 2, Wrap <- 5, MaxNow <- 3, MaxLinks <- 2, MaxChannels <- 4,
  case <- s1, run <- s2, host <- s3, src <- s4, snk <- s5, wire <- s6, open <- s7, now <- s8

\* Discovery: a phone's services and a car kit's, cut to the smallest responses the MTU
\* allows and to smaller ones, looked for by every profile and by a host whose channel
\* goes twice; and requests a server has to refuse.
PhoneServices ==
  <<[kind |-> "ag", handle |-> 65537, channel |-> 3, version |-> 264, can |-> {"EcNr", "ThreeWay", "RingTone", "Cli"}, msbc |-> TRUE],
    [kind |-> "opp", handle |-> 65538, channel |-> 9, name |-> "push", len |-> 4, formats |-> <<1, 255>>],
    [kind |-> "rfcomm", handle |-> 65539, channel |-> 5, class |-> {4353}],
    [kind |-> "rfcomm", handle |-> 65540, channel |-> 6, class |-> {}],
    [kind |-> "target", handle |-> 65541, avctp |-> <<1, 3>>, avrcp |-> <<1, 5>>, features |-> 67],
    [kind |-> "source", handle |-> 65542, version |-> <<1, 3>>]>>
KitServices ==
  <<[kind |-> "hf", handle |-> 1, channel |-> 7, version |-> 265, can |-> {"EcNr", "Cli", "Volume"}, msbc |-> FALSE],
    [kind |-> "sink", handle |-> 2, version |-> <<1, 2>>],
    [kind |-> "controller", handle |-> 3, avctp |-> <<1, 4>>, avrcp |-> <<1, 6>>, features |-> 2],
    [kind |-> "controller", handle |-> 4, avctp |-> <<1, 2>>, avrcp |-> <<1, 0>>, features |-> 64],
    [kind |-> "hid", handle |-> 5, subclass |-> 64, descriptor |-> "map", len |-> 63]>>
TheOtherWay(services) == [i \in DOMAIN services |-> services[Len(services) + 1 - i]]
EveryAttribute == <<[uint |-> 65535, size |-> 4]>>
Finders ==
  {[kind |-> k, codes |-> {}] : k \in {"hf", "ag", "controller", "target", "avdtp", "channels", "hid"}}
    \cup {[kind |-> "channel", uuid |-> u, codes |-> {}] : u \in {4353, 4354, 4357}}
    \cup {[kind |-> "handles", uuids |-> us, codes |-> {}] : us \in {<<256>>, <<3>>, <<4098, 4357>>}}
OneRecord == {[kind |-> "attributes", handle |-> h, codes |-> {}, ids |-> EveryAttribute] : h \in {1, 65541}}
Odd(request, code) == [kind |-> "odd", request |-> request, codes |-> {code}]
OddRequests ==
  {Odd([t |-> "unparsed", state |-> "null"], 3), Odd([t |-> "Response", state |-> "null"], 3),
   Odd([t |-> "Search", pattern |-> <<256>>, state |-> "marker"], 5),
   Odd([t |-> "SearchAttribute", pattern |-> <<256>>, ids |-> <<>>, state |-> "marker"], 5),
   Odd([t |-> "Attribute", handle |-> 1, ids |-> <<>>, state |-> "marker"], 5),
   [kind |-> "attributes", handle |-> 99, codes |-> {2}, ids |-> <<>>]}
Look(peers, mtu, job, losses) == [peers |-> peers, mtu |-> mtu, job |-> job, losses |-> losses]
HostQuery(u, v) == [kind |-> "query", uuid |-> u, version |-> v]
DiscoveryCases ==
  {Look(<<p>>, mtu, j, 1) : p \in {PhoneServices, TheOtherWay(KitServices)}, mtu \in {48, 672}, j \in Finders}
    \cup {Look(<<PhoneServices \o KitServices>>, mtu, j, 0) : mtu \in {48, 10}, j \in Finders \cup OneRecord \cup OddRequests}
    \cup {Look(<<PhoneServices, KitServices>>, mtu, HostQuery(u, v), 2) : mtu \in {48, 672}, u \in {4382, 4383, 256}, v \in BOOLEAN}
    \cup {Look(<<PhoneServices>>, mtu, HostQuery(256, TRUE), 0) : mtu \in {9, 10}}

Discovery == INSTANCE Sdp WITH
  Cases <- DiscoveryCases, Watchdog <- 64, MaxCount <- 65535,
  case <- s1, up <- s2, peer <- s3, losses <- s4, pending <- s5, client <- s6, toServer <- s7, toClient <- s8

\* Objects pushed: a card with a name and a type, a note that is empty, a photo the server
\* has no room for; packets that just hold what describes the card, and larger ones; and
\* channels that go where the client connects before it pushes.
Card == [id |-> "card", name |-> {4}, mime |-> {10}, len |-> 30]
Note == [id |-> "note", name |-> {}, mime |-> {}, len |-> 0]
Photo == [id |-> "photo", name |-> {1}, mime |-> {}, len |-> 70]
PushOps == {"connect", "disconnect", "put", "get", "abort", "garble"}
PushCase(policy, packet, connects, ops, losses) ==
  [policy |-> policy, maxObject |-> 60, packet |-> packet, objects |-> {Card, Note, Photo}, connects |-> connects, ops |-> ops,
   maxOps |-> 4, losses |-> losses]
PushCases ==
  {PushCase(p, packet, p = "Required", PushOps, 0) : p \in {"Optional", "Required"}, packet \in {39, 42, 45, 60, 200}}
    \cup {PushCase(p, 42, TRUE, {"connect", "put", "abort"}, 2) : p \in {"Optional", "Required"}}

Push == INSTANCE Obex WITH
  Cases <- PushCases, case <- s1, server <- s2, client <- s3, toServer <- s4, toClient <- s5, putting <- s6, accepted <- s7,
  ops <- s8, losses <- s9

\* Channel sounding: a tag with the Ranging Service alone, behind another service or not at
\* all; bodies of two and four segments, of which fewer are lost than one body has; a link
\* that ends at any moment; and controllers that refuse each command.
Characteristic(u, cccd) == [uuid |-> u, long |-> FALSE, notify |-> cccd, indicate |-> FALSE, write |-> FALSE]
RangingService == [uuid |-> "ras", long |-> FALSE,
  chars |-> <<Characteristic("features", FALSE), Characteristic("realtime", TRUE), Characteristic("control", TRUE)>>]
OtherService == [uuid |-> "other", long |-> FALSE, chars |-> <<Characteristic("name", FALSE)>>]
Measure(services, len, losses, drops, refused) ==
  [services |-> services, bodyLen |-> len, mtu |-> 23, losses |-> losses, drops |-> drops, refused |-> refused, stops |-> FALSE]
SoundingCommands == {"SecurityEnable", "CreateConfig", "SetParameters", "Enable"}
Refusals == (SoundingCommands \X {"complete"}) \cup ((SoundingCommands \ {"SetParameters"}) \X {"status"})
RangingCases ==
  {Measure(<<RangingService>>, len, losses, 0, {}) : len \in {38, 76}, losses \in {0, 1}}
    \cup {Measure(<<RangingService>>, 60, 3, 0, {}), Measure(<<RangingService>>, 38, 1, 1, {}), Measure(<<RangingService>>, 38, 0, 2, {})}
    \cup {Measure(s, 38, 0, 0, {}) : s \in {<<>>, <<OtherService>>, <<OtherService, RangingService>>}}
    \cup {Measure(<<RangingService>>, 38, 0, 0, {r}) : r \in Refusals}
    \cup {[Measure(<<RangingService>>, 38, 0, 0, {}) EXCEPT !.stops = TRUE]}

Locate == INSTANCE Ranging WITH
  Cases <- RangingCases, MaxTicks <- 42,
  case <- s1, pc <- s2, tag <- s3, loc <- s4, air <- s5, toAir <- s6, toHost <- s7, actions <- s8, run <- s9

\* The variables beyond the first seven stand still in the parts that do not use them.
Others == <<s8, s9, s10, s11, s12, s13>>
Still == s8 = 0 /\ s9 = 0 /\ s10 = 0 /\ s11 = 0 /\ s12 = 0 /\ s13 = 0

Init ==
  \/ /\ Still
     /\ \/ part = "codec" /\ Wire!Init /\ s5 = 0 /\ s6 = 0 /\ s7 = 0
        \/ part = "source" /\ Source!Init /\ s7 = 0
        \/ part = "both" /\ Both!Init /\ s7 = 0
        \/ part = "framing" /\ Frm!Init /\ s7 = 0
        \/ part = "remote" /\ Remote!Init
        \/ part = "rejoin" /\ Rejoin!Init
        \/ part = "scene" /\ Scene!Init /\ s6 = 0 /\ s7 = 0
  \/ part = "hid" /\ Keyboard!Init /\ s10 = 0 /\ s11 = 0 /\ s12 = 0 /\ s13 = 0
  \/ part = "push" /\ Push!Init /\ s10 = 0 /\ s11 = 0 /\ s12 = 0 /\ s13 = 0
  \/ part = "ranging" /\ Locate!Init /\ s10 = 0 /\ s11 = 0 /\ s12 = 0 /\ s13 = 0
  \/ \E p \in HogpCases : part = p /\ OverGatt(p)!Init
  \/ /\ s9 = 0 /\ s10 = 0 /\ s11 = 0 /\ s12 = 0 /\ s13 = 0
     /\ \/ part = "bulk" /\ Bulk!Init
        \/ part = "speaker" /\ Speaker!Init
        \/ part = "discovery" /\ Discovery!Init

Next ==
  /\ UNCHANGED part
  /\ \/ /\ UNCHANGED Others
        /\ \/ part = "codec" /\ Wire!Next /\ UNCHANGED <<s5, s6, s7>>
           \/ part = "source" /\ Source!Next /\ UNCHANGED s7
           \/ part = "both" /\ Both!Next /\ UNCHANGED s7
           \/ part = "framing" /\ Frm!Next /\ UNCHANGED s7
           \/ part = "remote" /\ Remote!Next
           \/ part = "rejoin" /\ Rejoin!Next
           \/ part = "scene" /\ Scene!Next /\ UNCHANGED <<s6, s7>>
     \/ part = "hid" /\ Keyboard!Next /\ UNCHANGED <<s10, s11, s12, s13>>
     \/ part = "push" /\ Push!Next /\ UNCHANGED <<s10, s11, s12, s13>>
     \/ part = "ranging" /\ Locate!Next /\ UNCHANGED <<s10, s11, s12, s13>>
     \/ \E p \in HogpCases : part = p /\ OverGatt(p)!Next
     \/ /\ UNCHANGED <<s9, s10, s11, s12, s13>>
        /\ \/ part = "bulk" /\ Bulk!Next
           \/ part = "speaker" /\ Speaker!Next
           \/ part = "discovery" /\ Discovery!Next

vars == <<part, s1, s2, s3, s4, s5, s6, s7, s8, s9, s10, s11, s12, s13>>

Spec == Init /\ [][Next]_vars

--------------------------------------------------------------------------------
\* Once nothing is under way, a stream one end commands is in the same state with
\* the same configuration at both ends (on_command, on_response); and a media channel
\* belongs to a stream that is open, whatever crosses its closing (detach_media_by_seid).
\* A source that says it streams does so at an operating point the speaker offered, to
\* the channel it expects, and is refused nothing it was not forced to ask (advance).
StreamsAgree ==
  /\ part = "source" => Source!StreamsAgree
  /\ part = "both" => Both!MediaRidesStream
  /\ part = "speaker" => Speaker!StreamAgreed /\ Speaker!RefusedOnlyForced

\* Every message sent whole is received whole, in order, once, and nothing else is
\* (write_message, on_pdu, push_fragment, push); and a sink's report counts every byte of
\* a bulk transfer, whose chunks never overrun the buffers of a controller that is slow to
\* report them free (stream, budget_chunks, on_peer_report).  The samples a speaker gets are
\* those the phone was given, in order and in time (feed, produce_media).  The objects a
\* server holds are those that were pushed, nothing of an aborted, refused or lost transfer
\* is added to the next, and no packet is too long for it (put_packets, on_put).  A distance
\* is made of both halves of one procedure and of a body that is whole, every procedure
\* makes one where nothing is lost, and a locator waits only for what is under way
\* (combine_halves, Reassembler::push, tick_channel_sounding).
Reassembled ==
  /\ part = "framing" => Frm!Reassembled
  /\ part = "bulk" => Bulk!ReportsWhole /\ Bulk!BuffersKept /\ Bulk!OutstandingReal
  /\ part = "speaker" => Speaker!AudioWhole /\ Speaker!FedInTime
  /\ part = "push" => Push!ObjectsWhole /\ Push!NothingLeftOver /\ Push!PacketsFit
  /\ part = "ranging" => Locate!MeasuredTogether /\ Locate!BodiesWhole /\ Locate!EveryProcedureMeasured /\ Locate!WaitsForSomething

\* The controller shows the player's state once nothing is under way, with metadata
\* that is whole and of one track whatever falls between its fragments, also when
\* the channel was lost and opened again (absorb, on_continuation).
RemoteMirrored ==
  /\ part = "remote" => Remote!MonitoredMirrored /\ Remote!MetadataWhole
  /\ part = "rejoin" => Rejoin!MetadataWhole

\* A label stands for one transaction, also when all are in use; and once nothing is
\* under way, an AVRCP label is in flight only for a registration the target holds
\* under it (send_command, respond).
LabelsAccounted ==
  /\ part = "both" => Both!LabelsInFlight
  /\ part = "remote" => Remote!LabelsAccounted

\* The medium carries exactly the devices of the scene that were not stopped
\* (SceneEngine::stop).
MediumMatchesScene == part = "scene" => Scene!MediumMatchesScene

\* A message that arrives whole is understood as what was sent and as nothing else: no
\* two kinds share a code, and writer and reader agree on every field's width, order and
\* place, also where one is the controller's (sim.rs) and the other a host's.  Of a
\* message cut short a reader takes nothing that was not sent.  What a
\* profile or a host makes of a service record is what the other side published, into
\* however many responses the answer was cut and whatever was lost between them
\* (next_response_payload, search_attributes, SdpQueryHandler::on_data).
Understood ==
  /\ part = "codec" => Wire!Understood /\ Wire!NothingInvented
  /\ part = "discovery" => Discovery!FindersTrue /\ Discovery!QueryTrue

\* The computer hears every key, once, in order and as what was typed, over BR/EDR and
\* over GATT: the reports a lost link did not take, the characters the keyboard layout can
\* type, and the keys and buttons that are held (poll_channel_output, decode_keyboard).
InputHeard ==
  /\ part = "hid" => Keyboard!InputArrives /\ Keyboard!RequestsTakeEffect
  /\ \A p \in HogpCases : part = p => OverGatt(p)!TextHeard /\ OverGatt(p)!KeysHeld
================================================================================
