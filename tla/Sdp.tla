---------------------------------- MODULE Sdp ----------------------------------
(***************************************************************************)
(* Service discovery.  First the service records: what each profile        *)
(* publishes about itself (make_*_sdp_records, to_service_attributes,      *)
(* object_push_service_record) and what the profile at the other end reads *)
(* out of such a record (find_*, parse_service_record, read_record).  A    *)
(* service is described by the parameters it is published with; a record   *)
(* is the list of its attributes, whose values are data elements.  Numbers *)
(* and UUIDs are those of the source, in decimal or as \h.  An optional    *)
(* value is the set of it, or the empty set.                               *)
(*                                                                         *)
(* Then an SdpServer, whose answer may need several responses, and a       *)
(* client that puts them together: an SdpClient, which waits for each      *)
(* response, or the SdpQueryHandler of a host, whose channel may go at any *)
(* time and come back, to the same peer or to another.                     *)
(*                                                                         *)
(* Octets are runs of the encoding of an element: octets `from` to `to` of *)
(* `of`; PacketFormats has the encoding itself.  Transaction identifiers   *)
(* are echoed and never looked at, and are left out.                       *)
(***************************************************************************)
EXTENDS Integers, Sequences, SequencesExt, FiniteSetsExt

\* Data elements; the kinds differ in their fields.  A text is a value and a length.
Uint(v, size) == [uint |-> v, size |-> size]
Uuid(u) == [uuid |-> u]
List(items) == [seq |-> items]
Text(v, len) == [text |-> v, len |-> len]
Flag(b) == [bool |-> b]
IsA(kind, e) == kind \in DOMAIN e

\* as_sequence().get(i), as_unsigned_integer and as_uuid of elements that may be absent.
Get(es, i) == {e.seq[i] : e \in {f \in es : IsA("seq", f) /\ i <= Len(f.seq)}}
UintIn(es) == {e.uint : e \in {f \in es : IsA("uint", f)}}
UuidsIn(es) ==
  LET list(e) == SelectSeq(e.seq, LAMBDA x : IsA("uuid", x))
  IN UNION {{[i \in DOMAIN list(e) |-> list(e)[i].uuid]} : e \in {f \in es : IsA("seq", f)}}

\* Octets of an element's encoding: its tag, its length if it varies, its contents.
RECURSIVE Size(_)
Size(e) ==
  LET headed(n) == IF n < 256 THEN n + 2 ELSE n + 3
  IN CASE IsA("uint", e) -> 1 + e.size
       [] IsA("uuid", e) -> 3
       [] IsA("bool", e) -> 2
       [] IsA("text", e) -> headed(e.len)
       [] OTHER -> headed(FoldSeq(LAMBDA x, n : Size(x) + n, 0, e.seq))

RECURSIVE is_uuid_in_value(_, _)
is_uuid_in_value(u, e) ==
  \/ IsA("uuid", e) /\ e.uuid = u
  \/ IsA("seq", e) /\ \E i \in DOMAIN e.seq : is_uuid_in_value(u, e.seq[i])

--------------------------------------------------------------------------------
\* Attribute identifiers, protocols and service classes.
Handle == 0
Classes == 1
Protocols == 4
BrowseGroup == 5
LanguageBase == 6
Profiles == 9
MoreProtocols == 13
ServiceName == 256
Formats303 == \h303
Features == \h311
HidDescriptors == \h206

L2cap == \h100
Rfcomm == 3
BrowseRoot == \h1002
GenericAudio == \h1203
ClassOf ==
  [hf |-> \h111E, ag |-> \h111F, controller |-> \h110F, target |-> \h110C, source |-> \h110A, sink |-> \h110B,
   hid |-> \h1124, opp |-> \h1105]
RemoteControl == \h110E
Distribution == \h110D
AvctpUuid == \h17
AvdtpUuid == \h19
Hidp == \h11
Obex == 8
ReportDescriptor == 34

Attribute(id, value) == [id |-> id, value |-> value]
UuidList(us) == List([i \in DOMAIN us |-> Uuid(us[i])])
Public == Attribute(BrowseGroup, UuidList(<<BrowseRoot>>))
Layer(u, parameters) == List(<<Uuid(u)>> \o parameters)
Profile(u, version) == Attribute(Profiles, List(<<Layer(u, <<Uint(version, 2)>>)>>))
Version(v) == v[1] * 256 + v[2]

\* RFCOMM over L2CAP, on a server channel.
OverRfcomm(channel) == <<Layer(L2cap, <<>>), Layer(Rfcomm, <<Uint(channel, 1)>>)>>

\* The bits a hands-free unit and a gateway announce for what they can do.
hf_sdp_feature ==
  [EcNr |-> 1, ThreeWay |-> 2, Cli |-> 4, Voice |-> 8, Volume |-> 16, WideBand |-> 32, EnhancedVoice |-> 64, VoiceText |-> 128]
ag_sdp_feature ==
  [ThreeWay |-> 1, EcNr |-> 2, Voice |-> 4, RingTone |-> 8, WideBand |-> 32, EnhancedVoice |-> 64, VoiceText |-> 128]
FeatureBits(table, s) ==
  MapThenSumSet(LAMBDA n : table[n], (s.can \cap (DOMAIN table \ {"WideBand"})) \cup (IF s.msbc THEN {"WideBand"} ELSE {}))

HandsFreeRecord(s, table) ==
  <<Attribute(Handle, Uint(s.handle, 4)),
    Attribute(Classes, UuidList(<<ClassOf[s.kind], GenericAudio>>)),
    Attribute(Protocols, List(OverRfcomm(s.channel))),
    Profile(ClassOf[s.kind], s.version),
    Attribute(Features, Uint(FeatureBits(table, s), 2))>>

make_hf_sdp_records(s) == HandsFreeRecord(s, hf_sdp_feature)
make_ag_sdp_records(s) == HandsFreeRecord(s, ag_sdp_feature)

\* A remote control, either role; SupportedFeatures bit 6 is browsing.
Avctp(psm, s) == List(<<Layer(L2cap, <<Uint(psm, 2)>>), Layer(AvctpUuid, <<Uint(Version(s.avctp), 2)>>)>>)
RemoteRecord(s, classes) ==
  <<Attribute(Handle, Uint(s.handle, 4)), Public, Attribute(Classes, UuidList(classes)),
    Attribute(Protocols, Avctp(\h17, s)), Profile(RemoteControl, Version(s.avrcp)),
    Attribute(Features, Uint(s.features, 2))>>
    \o (IF (s.features \div 64) % 2 = 1 THEN <<Attribute(MoreProtocols, Avctp(\h1B, s))>> ELSE <<>>)

ControllerServiceRecord(s) == RemoteRecord(s, <<RemoteControl, ClassOf.controller>>)
TargetServiceRecord(s) == RemoteRecord(s, <<ClassOf.target>>)

\* An audio source or sink; its version stands for AVDTP's and for the profile's.
make_audio_service_sdp_records(s) ==
  <<Attribute(Handle, Uint(s.handle, 4)), Public, Attribute(Classes, UuidList(<<ClassOf[s.kind]>>)),
    Attribute(Protocols, List(<<Layer(L2cap, <<Uint(\h19, 2)>>), Layer(AvdtpUuid, <<Uint(Version(s.version), 2)>>)>>)),
    Profile(Distribution, Version(s.version))>>

\* Any service over RFCOMM, with or without a class.
make_rfcomm_sdp_records(s) ==
  <<Attribute(Handle, Uint(s.handle, 4)), Public, Attribute(Protocols, List(OverRfcomm(s.channel)))>>
    \o [i \in 1 .. Cardinality(s.class) |-> Attribute(Classes, UuidList(SetToSeq(s.class)))]

\* A keyboard or a mouse.
HidLayers(psm) == List(<<Layer(L2cap, <<Uint(psm, 2)>>), Layer(Hidp, <<>>)>>)
make_hid_sdp_records(s) ==
  <<Attribute(Handle, Uint(s.handle, 4)), Public, Attribute(Classes, UuidList(<<ClassOf.hid>>)),
    Attribute(Protocols, HidLayers(\h11)), Attribute(MoreProtocols, List(<<HidLayers(\h13)>>)),
    Profile(ClassOf.hid, \h101),
    Attribute(LanguageBase, List(<<Uint(\h656E, 2), Uint(\h6A, 2), Uint(\h100, 2)>>)),
    Attribute(\h201, Uint(\h111, 2)), Attribute(\h202, Uint(s.subclass, 1)), Attribute(\h203, Uint(0, 1)),
    Attribute(\h204, Flag(TRUE)), Attribute(\h205, Flag(TRUE)),
    Attribute(HidDescriptors, List(<<List(<<Uint(ReportDescriptor, 2), Text(s.descriptor, s.len)>>)>>)),
    Attribute(\h207, List(<<List(<<Uint(\h409, 2), Uint(\h100, 2)>>)>>)), Attribute(\h20E, Flag(TRUE))>>

\* A receiver of pushed objects: no handle and no browse group.
object_push_service_record(s) ==
  <<Attribute(Classes, UuidList(<<ClassOf.opp>>)),
    Attribute(Protocols, List(OverRfcomm(s.channel) \o <<Layer(Obex, <<>>)>>)),
    Attribute(ServiceName, Text(s.name, s.len)),
    Attribute(Formats303, List([i \in DOMAIN s.formats |-> Uint(s.formats[i], 1)]))>>

RecordOf(s) ==
  CASE s.kind = "hf" -> make_hf_sdp_records(s)
    [] s.kind = "ag" -> make_ag_sdp_records(s)
    [] s.kind = "controller" -> ControllerServiceRecord(s)
    [] s.kind = "target" -> TargetServiceRecord(s)
    [] s.kind \in {"source", "sink"} -> make_audio_service_sdp_records(s)
    [] s.kind = "rfcomm" -> make_rfcomm_sdp_records(s)
    [] s.kind = "hid" -> make_hid_sdp_records(s)
    [] s.kind = "opp" -> object_push_service_record(s)

--------------------------------------------------------------------------------
\* Reading.  A list of attributes as received, and the value of one of them.
find_attribute(attrs, id) == {attrs[i].value : i \in {j \in DOMAIN attrs : attrs[j].id = id}}
list_from_data_elements(items) ==
  LET pairs == [i \in 1 .. Len(items) \div 2 |-> <<items[2 * i - 1], items[2 * i]>>]
      kept == SelectSeq(pairs, LAMBDA p : IsA("uint", p[1]))
  IN [i \in DOMAIN kept |-> Attribute(kept[i][1].uint % 65536, kept[i][2])]

\* The second layer's parameter, wherever the profile expects its channel there.
protocol_descriptor_channel(values) == {v % 256 : v \in UintIn(Get(Get(values, 2), 2))}
profile_descriptor_version(values) == {v % 65536 : v \in UintIn(Get(Get(values, 1), 2))}
ProfileVersions == {\h105, \h106, \h107, \h108, \h109}
FirstClass(attrs) == {e.uuid : e \in {f \in Get(find_attribute(attrs, Classes), 1) : IsA("uuid", f)}}

\* Channel, version and features of a hands-free record that has all three.
HandsFreeRead(attrs) ==
  {<<c, v, f>> : c \in protocol_descriptor_channel(find_attribute(attrs, Protocols)),
                 v \in profile_descriptor_version(find_attribute(attrs, Profiles)) \cap ProfileVersions,
                 f \in UintIn(find_attribute(attrs, Features))}

\* The first of several readings that is there.
FirstOf(readings) ==
  LET there == SelectSeq(readings, LAMBDA r : r # {})
  IN IF there = <<>> THEN {} ELSE Head(there)

find_ag_sdp_record(lists) == FirstOf([i \in DOMAIN lists |-> HandsFreeRead(lists[i])])
find_hf_sdp_record(lists) ==
  FirstOf([i \in DOMAIN lists |-> IF FirstClass(lists[i]) = {ClassOf.ag} THEN {} ELSE HandsFreeRead(lists[i])])

\* A remote control's handle, versions and features, with defaults for what is absent.
Or(option, default) == IF option = {} THEN default ELSE CHOOSE x \in option : TRUE
version_from_u16(v) == <<v \div 256, v % 256>>
parse_service_record(attrs) ==
  [handle |-> Or(UintIn(find_attribute(attrs, Handle)), 0),
   avctp |-> version_from_u16(Or(UintIn(Get(Get(find_attribute(attrs, Protocols), 2), 2)), Version(<<1, 4>>))),
   avrcp |-> version_from_u16(Or(profile_descriptor_version(find_attribute(attrs, Profiles)), Version(<<1, 6>>))),
   features |-> Or(UintIn(find_attribute(attrs, Features)), 0)]
find_service_records(lists) == [i \in DOMAIN lists |-> parse_service_record(lists[i])]

\* The version in the first profile descriptor that has one.
find_avdtp_service(lists) ==
  LET list(i) == find_attribute(lists[i], Profiles)
      versions(i) == FirstOf([k \in 1 .. Max({0} \cup {Len(e.seq) : e \in {f \in list(i) : IsA("seq", f)}}) |-> UintIn(Get(Get(list(i), k), 2))])
  IN {version_from_u16(v) : v \in FirstOf([i \in DOMAIN lists |-> versions(i)])}

\* Server channels and their classes; a later record on the same channel replaces an
\* earlier one, a record without a class is passed over.
find_rfcomm_channels(lists) ==
  LET channel(i) == protocol_descriptor_channel(find_attribute(lists[i], Protocols))
      classes(i) == UNION {Range(us) : us \in UuidsIn(find_attribute(lists[i], Classes))}
      on(c) == {i \in DOMAIN lists : c \in channel(i) /\ classes(i) # {}}
  IN [c \in {d \in UNION {channel(i) : i \in DOMAIN lists} : on(d) # {}} |-> classes(Max(on(c)))]

\* The first descriptor of the report kind.
find_hid_report_descriptor(lists) ==
  LET list(i) == find_attribute(lists[i], HidDescriptors)
      texts(i, k) ==
        {e.text : e \in {f \in Get(Get(list(i), k), 2) : IsA("text", f) /\ UintIn(Get(Get(list(i), k), 1)) = {ReportDescriptor}}}
  IN FirstOf([i \in DOMAIN lists |-> FirstOf([k \in 1 .. Max({0} \cup {Len(e.seq) : e \in {f \in list(i) : IsA("seq", f)}}) |-> texts(i, k)])])

\* What a host's own query reads: layers are told apart by their UUID, not their place.
read_record(attrs) ==
  LET protocols == find_attribute(attrs, Protocols)
      layers == UNION {{v.seq[i] : i \in DOMAIN v.seq} : v \in {w \in protocols : IsA("seq", w)}}
      of(u) == UNION {UintIn(Get({l}, 2)) : l \in {m \in layers : Uuid(u) \in Get({m}, 1)}}
  IN [psm |-> of(L2cap), channel |-> {c % 256 : c \in of(Rfcomm)},
      classes |-> Or(UuidsIn(find_attribute(attrs, Classes)), <<>>), version |-> profile_descriptor_version(find_attribute(attrs, Profiles))]

--------------------------------------------------------------------------------
(***************************************************************************)
(* The server and its clients.                                             *)
(***************************************************************************)

CONSTANTS
  Cases,     \* [peers, mtu, job, losses]: per peer its services, in the order its map yields them
  Watchdog,  \* SDP_CONTINUATION_WATCHDOG
  MaxCount   \* the byte count and the record count the clients ask for

VARIABLES
  case,
  up,       \* whether the channel is up
  peer,     \* the peer it leads to
  losses,   \* how often it has gone
  pending,  \* per peer, its server's current_response
  client,   \* [state, acc, rounds, result, told]
  toServer, toClient

vars == <<case, up, peer, losses, pending, client, toServer, toClient>>

job == case.job

\* A PendingResponse: the handles or the octets that are left, or nothing.
None == [handles |-> <<>>, octets |-> <<>>]
\* Mutant of Handles: what does not fit in the first response is not kept.
HandlesGone(list) == None

Handles(list) == [None EXCEPT !.handles = list]
Octets(run) == [None EXCEPT !.octets = <<run>>]

\* The host's handler fills its results in; the finders return one.
QueryResult == [answered |-> FALSE, error |-> {}, channels |-> <<>>, psms |-> <<>>, truncated |-> FALSE, version |-> {}]
IsQuery == job.kind = "query"

Init ==
  /\ case \in Cases
  /\ up = TRUE
  /\ peer = 1
  /\ losses = 0
  /\ pending = [p \in DOMAIN case.peers |-> None]
  /\ client = [state |-> "idle", acc |-> <<>>, rounds |-> 0, result |-> IF IsQuery THEN {QueryResult} ELSE {}, told |-> <<>>]
  /\ toServer = <<>>
  /\ toClient = <<>>

--------------------------------------------------------------------------------
\* Octets: nothing, or a run.  Runs that continue each other are one.
Whole(e) == [of |-> e, from |-> 1, to |-> Size(e)]
Continues(a, b) == a.of = b.of /\ a.to + 1 = b.from
Extended(acc, octets) ==
  IF acc # <<>> /\ octets # <<>> /\ Continues(Last(acc), octets[1])
  THEN Front(acc) \o <<[Last(acc) EXCEPT !.to = octets[1].to]>>
  ELSE acc \o octets

\* An element can be read once its last octet is there; octets of two answers run
\* together read as nothing of either.
from_bytes(acc) == IF acc # <<>> /\ acc[1] = Whole(acc[1].of) THEN {acc[1].of} ELSE {}

--------------------------------------------------------------------------------
\* The server.
Services == case.peers[peer]
Records == [i \in DOMAIN Services |-> RecordOf(Services[i])]

\* A service matches that has any of the UUIDs anywhere in any attribute.
match_services(pattern) ==
  SelectSeq([i \in DOMAIN Services |-> i],
            LAMBDA i : \E u \in Range(pattern) : \E k \in DOMAIN Records[i] : is_uuid_in_value(u, Records[i][k].value))

get_service_attributes(record, ids) ==
  LET start(id) == IF id.size = 4 THEN id.uint \div 65536 ELSE id.uint
      end(id) == id.uint % 65536
      within(id) == SelectSeq(record, LAMBDA a : a.id >= start(id) /\ a.id <= end(id))
      chosen == SortSeq(FlattenSeq([i \in DOMAIN ids |-> within(ids[i])]), LAMBDA a, b : a.id < b.id)
  IN List(FlattenSeq([i \in DOMAIN chosen |-> <<Uint(chosen[i].id, 2), chosen[i].value>>]))

Answer(pdu, current) == [pdu |-> pdu, current |-> current]
ErrorResponse(code) == [t |-> "Error", code |-> code]
InvalidHandle == 2
InvalidSyntax == 3
InvalidContinuation == 5

\* The rest of the current response, cut to the size that fits.
next_response_payload(t, current, max) ==
  LET run == current.octets[1]
  IN IF current.octets # <<>> /\ run.to - run.from + 1 > max
     THEN Answer([t |-> t, octets |-> IF max = 0 THEN <<>> ELSE <<[run EXCEPT !.to = run.from + max - 1]>>, more |-> TRUE],
                 Octets([run EXCEPT !.from = @ + max]))
     ELSE Answer([t |-> t, octets |-> current.octets, more |-> FALSE], None)

MaxBytes == Min({MaxCount, Max({0, case.mtu - 9})})

on_service_search_request(q, current) ==
  LET matched == match_services(q.pattern)
      handles == SortSeq([i \in DOMAIN matched |-> Services[matched[i]].handle], <)
      kept ==
        IF q.state = "null" THEN SubSeq(handles, 1, Min({Len(handles), MaxCount})) ELSE current.handles
      room == Max({0, case.mtu - 11}) \div 4
      more == Len(kept) > room
  IN Answer([t |-> "Search", handles |-> IF more THEN SubSeq(kept, 1, room) ELSE kept, more |-> more],
            IF more THEN Handles(SubSeq(kept, room + 1, Len(kept))) ELSE None)

on_service_attribute_request(q, current) ==
  LET named == {i \in DOMAIN Services : Services[i].handle = q.handle}
  IN IF q.state = "null" /\ named = {} THEN Answer(ErrorResponse(InvalidHandle), None)
     ELSE next_response_payload(
            "Attribute",
            IF q.state = "null" THEN Octets(Whole(get_service_attributes(Records[CHOOSE i \in named : TRUE], q.ids))) ELSE current,
            MaxBytes)

on_service_search_attribute_request(q, current) ==
  LET matched == match_services(q.pattern)
      lists == SelectSeq([i \in DOMAIN matched |-> get_service_attributes(Records[matched[i]], q.ids)], LAMBDA l : l.seq # <<>>)
  IN next_response_payload("SearchAttribute", IF q.state = "null" THEN Octets(Whole(List(lists))) ELSE current, MaxBytes)
\* A continuation needs a response to continue and the marker this server hands out; a
\* fresh request drops what was left of the one before.
check_continuation(q, current) ==
  IF q.state = "null" THEN {None} ELSE IF current # None /\ q.state = "marker" THEN {current} ELSE {}

handle_request(q, current) ==
  IF q.t \notin {"Search", "Attribute", "SearchAttribute"} THEN Answer(ErrorResponse(InvalidSyntax), current)
  ELSE IF check_continuation(q, current) = {} THEN Answer(ErrorResponse(InvalidContinuation), current)
  ELSE LET rest == CHOOSE c \in check_continuation(q, current) : TRUE
       IN CASE q.t = "Search" -> on_service_search_request(q, rest)
            [] q.t = "Attribute" -> on_service_attribute_request(q, rest)
            [] q.t = "SearchAttribute" -> on_service_search_attribute_request(q, rest)

Serve ==
  /\ toServer # <<>>
  /\ LET answer == handle_request(Head(toServer), pending[peer])
     IN /\ toClient' = Append(toClient, answer.pdu)
        /\ pending' = [pending EXCEPT ![peer] = answer.current]
  /\ toServer' = Tail(toServer)
  /\ UNCHANGED <<case, up, peer, losses, client>>

--------------------------------------------------------------------------------
\* The clients.  What each asks for.
Single(id) == Uint(id, 2)
AsksFor ==
  [hf |-> <<ClassOf.hf, <<Single(Protocols), Single(Profiles), Single(Features), Single(Classes)>>>>,
   ag |-> <<ClassOf.ag, <<Single(Protocols), Single(Profiles), Single(Features)>>>>,
   controller |-> <<ClassOf.controller, <<Single(Handle), Single(Protocols), Single(Profiles), Single(Features)>>>>,
   target |-> <<ClassOf.target, <<Single(Handle), Single(Protocols), Single(Profiles), Single(Features)>>>>,
   avdtp |-> <<Distribution, <<Single(Profiles)>>>>,
   channels |-> <<Rfcomm, <<Single(Protocols), Single(Classes)>>>>,
   channel |-> <<Rfcomm, <<Single(Protocols), Single(Classes)>>>>,
   hid |-> <<ClassOf.hid, <<Single(HidDescriptors)>>>>]

Request(state) ==
  CASE job.kind = "handles" -> [t |-> "Search", pattern |-> job.uuids, state |-> state]
    [] job.kind = "attributes" -> [t |-> "Attribute", handle |-> job.handle, ids |-> job.ids, state |-> state]
    [] IsQuery ->
         [t |-> "SearchAttribute", pattern |-> <<job.uuid>>, state |-> state,
          ids |-> <<Single(Protocols), Single(Classes)>> \o (IF job.version THEN <<Single(Profiles)>> ELSE <<>>)]
    [] job.kind = "odd" -> job.request
    [] OTHER -> [t |-> "SearchAttribute", pattern |-> <<AsksFor[job.kind][1]>>, ids |-> AsksFor[job.kind][2], state |-> state]

\* poll_output, or the first round of a finder's loop.
Ask ==
  /\ up /\ client.state = "idle"
  /\ client' = [client EXCEPT !.state = "waiting", !.rounds = IF IsQuery THEN 0 ELSE 1]
  /\ toServer' = Append(toServer, Request("null"))
  /\ UNCHANGED <<case, up, peer, losses, pending, toClient>>

\* The lists of attributes in a whole answer.
Lists(e) ==
  LET kept == SelectSeq(e.seq, LAMBDA x : IsA("seq", x))
  IN [i \in DOMAIN kept |-> list_from_data_elements(kept[i].seq)]

\* What each finder makes of them: of several channels with the UUID any may be first.
Findings(e) ==
  LET lists == Lists(e)
      byChannel == find_rfcomm_channels(lists)
  IN CASE job.kind = "attributes" -> {[list |-> list_from_data_elements(e.seq)]}
       [] job.kind = "hf" -> {[found |-> find_hf_sdp_record(lists)]}
       [] job.kind = "ag" -> {[found |-> find_ag_sdp_record(lists)]}
       [] job.kind \in {"controller", "target"} -> {[list |-> find_service_records(lists)]}
       [] job.kind = "avdtp" -> {[found |-> find_avdtp_service(lists)]}
       [] job.kind = "channels" -> {[map |-> byChannel]}
       [] job.kind = "channel" ->
            LET with == {c \in DOMAIN byChannel : job.uuid \in byChannel[c]}
            IN IF with = {} THEN {[found |-> {}]} ELSE {[found |-> {c}] : c \in with}
       [] job.kind = "hid" -> {[found |-> find_hid_report_descriptor(lists)]}

Finished(result) == [client EXCEPT !.state = "done", !.result = {result}]
Fail(why) == Finished([err |-> why])

\* One response within search_services, get_attributes or search_attributes.
FinderTakes(pdu) ==
  LET asked == Request("null").t
      acc == IF asked = "Search" THEN client.acc \o pdu.handles ELSE Extended(client.acc, pdu.octets)
  IN IF pdu.t = "Error" THEN client' = Finished([code |-> pdu.code]) /\ UNCHANGED toServer
     ELSE IF pdu.t # asked THEN client' = Fail("unexpected") /\ UNCHANGED toServer
     ELSE IF pdu.more
     THEN IF client.rounds = Watchdog THEN client' = Fail("watchdog") /\ UNCHANGED toServer
          ELSE /\ client' = [client EXCEPT !.acc = acc, !.rounds = @ + 1]
               /\ toServer' = Append(toServer, Request("marker"))
     ELSE /\ UNCHANGED toServer
          /\ IF asked = "Search" THEN client' = Finished([handles |-> acc])
             ELSE IF from_bytes(acc) = {} THEN client' = Fail("malformed")
             ELSE \E finding \in Findings(CHOOSE e \in from_bytes(acc) : TRUE) : client' = Finished(finding)

\* One record of a whole answer, added to the results of a query.
Absorb(results, attrs) ==
  LET record == read_record(attrs)
      entry(values) == LET v == SetToSeq(values) IN [i \in DOMAIN v |-> <<v[i], record.classes>>]
  IN IF record.psm = {} /\ record.channel = {} THEN results
     ELSE [results EXCEPT !.channels = @ \o entry(record.channel), !.psms = @ \o entry(record.psm),
                          !.version = IF @ = {} THEN record.version ELSE @]

\* SdpQueryHandler::on_data.
QueryTakes(pdu) ==
  LET results == CHOOSE r \in client.result : TRUE
      acc == Extended(client.acc, pdu.octets)
      lists == UNION {{Lists(e)} : e \in from_bytes(acc)}
      read == FoldLeft(Absorb, results, Or(lists, <<>>))
  IN IF pdu.t = "Error"
     THEN /\ client' = [client EXCEPT !.state = "done", !.result = {[results EXCEPT !.answered = TRUE, !.error = {pdu.code}]}]
          /\ UNCHANGED toServer
     ELSE IF pdu.t # "SearchAttribute" THEN UNCHANGED <<client, toServer>>
     ELSE IF pdu.more
     THEN IF client.rounds = Watchdog
          THEN /\ client' = [client EXCEPT !.state = "done", !.acc = acc, !.rounds = @ + 1,
                                           !.result = {[results EXCEPT !.answered = TRUE, !.truncated = TRUE]}]
               /\ UNCHANGED toServer
          ELSE /\ client' = [client EXCEPT !.acc = acc, !.rounds = @ + 1]
               /\ toServer' = Append(toServer, Request("marker"))
     ELSE /\ client' = [client EXCEPT !.state = "done", !.acc = <<>>, !.told = Append(@, peer), !.result = {[read EXCEPT !.answered = TRUE]}]
          /\ UNCHANGED toServer

Take ==
  /\ toClient # <<>>
  /\ IF IsQuery THEN QueryTakes(Head(toClient)) ELSE FinderTakes(Head(toClient))
  /\ toClient' = Tail(toClient)
  /\ UNCHANGED <<case, up, peer, losses, pending>>

\* The channel goes: a finder's transport has nothing for it, the handler forgets what
\* it had and will ask again; the server keeps its current response.
on_channel_closed == [client EXCEPT !.state = "idle", !.acc = <<>>, !.rounds = 0]

Close ==
  /\ up /\ losses < case.losses
  /\ up' = FALSE
  /\ losses' = losses + 1
  /\ toServer' = <<>>
  /\ toClient' = <<>>
  /\ client' = IF IsQuery THEN on_channel_closed ELSE IF client.state = "waiting" THEN Fail("malformed") ELSE client
  /\ UNCHANGED <<case, peer, pending>>

Reopen ==
  /\ ~up
  /\ up' = TRUE
  /\ peer' \in DOMAIN case.peers
  /\ UNCHANGED <<case, losses, pending, client, toServer, toClient>>

Next == Ask \/ Serve \/ Take \/ Close \/ Reopen

Spec == Init /\ [][Next]_vars

--------------------------------------------------------------------------------
\* What a service stands for, in terms of the parameters it was published with.
ClassesOf(s) ==
  CASE s.kind \in {"hf", "ag"} -> <<ClassOf[s.kind], GenericAudio>>
    [] s.kind = "controller" -> <<RemoteControl, ClassOf.controller>>
    [] s.kind = "rfcomm" -> SetToSeq(s.class)
    [] OTHER -> <<ClassOf[s.kind]>>
Offers(s) ==
  Range(ClassesOf(s)) \cup {L2cap}
    \cup CASE s.kind \in {"hf", "ag"} -> {Rfcomm}
           [] s.kind \in {"controller", "target"} -> {RemoteControl, AvctpUuid, BrowseRoot}
           [] s.kind \in {"source", "sink"} -> {Distribution, AvdtpUuid, BrowseRoot}
           [] s.kind = "rfcomm" -> {Rfcomm, BrowseRoot}
           [] s.kind = "hid" -> {Hidp, BrowseRoot}
           [] s.kind = "opp" -> {Rfcomm, Obex}
ChannelOf(s) == IF s.kind \in {"hf", "ag", "rfcomm", "opp"} THEN {s.channel} ELSE {}
PsmOf(s) ==
  CASE s.kind \in {"controller", "target"} -> {\h17} [] s.kind \in {"source", "sink"} -> {\h19} [] s.kind = "hid" -> {\h11} [] OTHER -> {}
VersionOf(s) ==
  CASE s.kind \in {"hf", "ag"} -> {s.version} [] s.kind \in {"controller", "target"} -> {Version(s.avrcp)}
    [] s.kind \in {"source", "sink"} -> {Version(s.version)} [] s.kind = "hid" -> {\h101} [] OTHER -> {}

Of(kinds) == {s \in Range(Services) : s.kind \in kinds}
Abilities(bits, table) == {n \in DOMAIN table : (bits \div table[n]) % 2 = 1}
HandsFreeTrue(found, kind, table) ==
  /\ found = {} <=> Of({kind}) = {}
  /\ \A f \in found : \E s \in Of({kind}) :
       /\ f[1] = s.channel /\ f[2] = s.version
       /\ \A n \in DOMAIN table : n \in Abilities(f[3], table) <=> IF n = "WideBand" THEN s.msbc ELSE n \in s.can

\* What a finder returned is what the peer published.
FindingTrue(r) ==
  CASE job.kind = "hf" -> HandsFreeTrue(r.found, "hf", hf_sdp_feature)
    [] job.kind = "ag" -> HandsFreeTrue(r.found, "ag", ag_sdp_feature)
    [] job.kind \in {"controller", "target"} ->
         LET all == SelectSeq(Services, LAMBDA s : s.kind = job.kind)
         IN r.list = [i \in DOMAIN all |->
                        [handle |-> all[i].handle, avctp |-> all[i].avctp, avrcp |-> all[i].avrcp, features |-> all[i].features]]
    [] job.kind = "avdtp" ->
         LET audio == Of({"source", "sink"})
         IN (r.found = {} <=> audio = {}) /\ r.found \subseteq {s.version : s \in audio}
    [] job.kind = "channels" ->
         LET on == {s \in Range(Services) : ChannelOf(s) # {} /\ ClassesOf(s) # <<>>}
         IN DOMAIN r.map = {s.channel : s \in on} /\ \A s \in on : r.map[s.channel] = Range(ClassesOf(s))
    [] job.kind = "channel" ->
         LET with == {s \in Range(Services) : ChannelOf(s) # {} /\ job.uuid \in Range(ClassesOf(s))}
         IN (r.found = {} <=> with = {}) /\ r.found \subseteq {s.channel : s \in with}
    [] job.kind = "hid" -> r.found = {s.descriptor : s \in Of({"hid"})}
    [] job.kind = "handles" ->
         /\ Range(r.handles) = {s.handle : s \in {t \in Range(Services) : Range(job.uuids) \cap Offers(t) # {}}}
         /\ \A i, k \in DOMAIN r.handles : i < k => r.handles[i] < r.handles[k]
    [] job.kind = "attributes" ->
         \E s \in Range(Services) :
           /\ s.handle = job.handle
           /\ Range(r.list) = {a \in Range(RecordOf(s)) : \E id \in Range(job.ids) :
                                  IF id.size = 4 THEN a.id >= id.uint \div 65536 /\ a.id <= id.uint % 65536 ELSE a.id = id.uint}

\* The least MTU a channel may have; a peer that offers less is believed all the same.
MIN_BR_EDR_MTU == 48

\* A finder that ends tells what its peer publishes, however the answer was cut; it fails
\* only where the channel went, responses are too small for the rounds it will take, or
\* what it asked for is not there.
FindersTrue ==
  ~IsQuery /\ client.state = "done" =>
    \A r \in client.result :
      CASE "code" \in DOMAIN r -> r.code \in job.codes
        [] "err" \in DOMAIN r ->
             \/ r.err = "malformed" /\ losses > 0
             \/ r.err = "watchdog" /\ case.mtu < MIN_BR_EDR_MTU
        [] OTHER -> FindingTrue(r)

\* A host's results are what the peers that answered published, each of them once for
\* every answer and in its order, whatever was lost on the way; they are incomplete only
\* when they say so.
QueryTrue ==
  IsQuery =>
    LET r == CHOOSE x \in client.result : TRUE
        offered(p) == SelectSeq(case.peers[p], LAMBDA s : job.uuid \in Offers(s))
        all == FlattenSeq([i \in DOMAIN client.told |-> offered(client.told[i])])
        listed(entry(_)) ==
          FlattenSeq([i \in DOMAIN all |-> LET v == SetToSeq(entry(all[i])) IN [k \in DOMAIN v |-> <<v[k], ClassesOf(all[i])>>]])
    IN /\ r.channels = listed(ChannelOf)
       /\ r.psms = listed(PsmOf)
       /\ r.version = IF job.version THEN FirstOf([i \in DOMAIN all |-> VersionOf(all[i])]) ELSE {}
       /\ r.error = {}
       /\ r.answered <=> client.told # <<>> \/ r.truncated
       /\ client.state = "done" => r.answered
       /\ r.truncated => case.mtu < MIN_BR_EDR_MTU

================================================================================
