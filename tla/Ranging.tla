--------------------------------- MODULE Ranging ---------------------------------
(***************************************************************************)
(* Channel sounding from end to end: RangingScene's locator finds the tag's *)
(* Ranging Service, the locator's CsInitiator brings the two controllers   *)
(* into a procedure per tick, the tag's CsReflector publishes its half of  *)
(* each in segments, and the locator puts the halves together.  `pc` says  *)
(* where in RangingScene::tick and Link::tick the scene is; each step takes *)
(* one packet.  Tones are the number of the procedure they were measured in *)
(* (the arithmetic that makes a distance of them is left out, and always   *)
(* makes one), a body the chunks it was cut into.  Signal strength, which  *)
(* the locator reads beside this, is left out.                             *)
(***************************************************************************)
EXTENDS Integers, Sequences, AttributeTable

CONSTANTS
  Cases,     \* [services, bodyLen, mtu, refused, losses, drops, stops]: what the tag offers,
             \* the octets of a body, what the controller refuses and how, the segments and
             \* links that may be lost, and whether the initiator may be stopped
  MaxTicks   \* bound: ticks of the scene

VARIABLES
  case, pc,
  tag,       \* Tag: its connection, its reflector
  loc,       \* Locator: phase, client, segments, initiator and its counts
  air,       \* Link: who advertises, connects, is connected, and the CS sessions
  toAir,     \* packets of each host to its controller
  toHost,    \* packets of each controller to its host
  actions,   \* what handle_packet deferred
  run        \* ticks, links and procedures so far; segments and links lost

vars == <<case, pc, tag, loc, air, toAir, toHost, actions, run>>

Ends == {"tag", "locator"}
Other(e) == IF e = "tag" THEN "locator" ELSE "tag"

NewReflector == [config |-> {}, pending |-> <<>>]
NewReassembler == [body |-> <<>>, started |-> FALSE, expected |-> 0]
NewInitiator == [state |-> "Idle", handle |-> 0, local |-> {}, remote |-> {}, measured |-> {}]
RealtimeData == "realtime"

\* RangingScene::new and start: the tag advertises.
Init ==
  /\ case \in Cases
  /\ pc = "tag_produce"
  /\ tag = [conn |-> {}, reflector |-> NewReflector]
  /\ loc = [phase |-> "Scanning", handle |-> 0, asked |-> FALSE, services |-> <<>>, index |-> 0, data |-> FALSE,
            segments |-> NewReassembler, initiator |-> NewInitiator, completed |-> 0, mismatched |-> 0, rejected |-> 0]
  /\ air = [advertising |-> FALSE, connecting |-> FALSE, link |-> {}, cs |-> [e \in Ends |-> {}]]
  /\ toAir = [tag |-> <<[t |-> "Advertise"]>>, locator |-> <<>>]
  /\ toHost = [e \in Ends |-> <<>>]
  /\ actions = <<>>
  /\ run = [ticks |-> 0, links |-> 0, procedures |-> 0, lost |-> 0, drops |-> 0]

Sent(e, packets) == [toAir EXCEPT ![e] = @ \o packets]
Heard(e, packets) == [toHost EXCEPT ![e] = @ \o packets]
AttSend(h, att) == <<[t |-> "Acl", h |-> h, att |-> att]>>

--------------------------------------------------------------------------------
(* The Ranging Service's carriage *)

\* A body is cut into notification values of the MTU less three, one octet of each the
\* header; the header counts the segments in six bits.
Chunk == (IF case.mtu - 3 > 2 THEN case.mtu - 3 ELSE 2) - 1
Pieces == (case.bodyLen + Chunk - 1) \div Chunk
Octets(k) == IF k < Pieces THEN Chunk ELSE case.bodyLen - (Pieces - 1) * Chunk
Segment(procedure) ==
  [k \in 1 .. Pieces |->
     [first |-> k = 1, last |-> k = Pieces, counter |-> (k - 1) % 64, chunk |-> [of |-> procedure, ix |-> k, len |-> Octets(k)]]]

\* Reassembler::push: the reassembler after a segment, and the body it completes.
Push(r, s) ==
  LET gap == ~s.first /\ (~r.started \/ s.counter # r.expected)
      body == (IF s.first THEN <<>> ELSE r.body) \o <<s.chunk>>
  IN IF gap
     THEN [next |-> NewReassembler, body |-> {}]
     ELSE [next |-> [body |-> IF s.last THEN <<>> ELSE body, started |-> ~s.last, expected |-> (s.counter + 1) % 64],
           body |-> IF s.last THEN {body} ELSE {}]

\* RangingData::parse: the header names the procedure, in twelve bits; a body shorter than
\* the steps it declares is refused.
BodyLen(body) == FoldFunction(+, 0, [i \in DOMAIN body |-> body[i].len])
Parse(body) ==
  IF BodyLen(body) < case.bodyLen THEN {} ELSE {[counter |-> body[1].of.counter % 4096, body |-> body]}

--------------------------------------------------------------------------------
(* CsInitiator and CsReflector *)

Counter(local) == local.counter % 4096
\* Mutant of HalvesMeet: the newest halves are taken together, whichever they are.
AnyHalves(i) == TRUE

\* combine_halves: whether the halves the initiator holds are of one procedure, measured
\* for the first time.
HalvesMeet(i) == \A l \in i.local, r \in i.remote : Counter(l) = r.counter
Combined(i) ==
  IF /\ i.local # {} /\ i.remote # {} /\ HalvesMeet(i)
     /\ \A l \in i.local, m \in i.measured : m.counter # Counter(l)
  THEN {[counter |-> r.counter, local |-> l, remote |-> r.body] : l \in i.local, r \in i.remote}
  ELSE {}
\* The locator with initiator i, once it has tried to combine; counts says that halves
\* that do not meet are a mismatch.
CombineHalves(i, counts) ==
  LET new == Combined(i)
  IN [loc EXCEPT !.initiator = [i EXCEPT !.measured = IF new = {} THEN @ ELSE new],
                 !.completed = @ + (IF new = {} THEN 0 ELSE 1),
                 !.mismatched = @ + (IF counts /\ i.local # {} /\ ~HalvesMeet(i) THEN 1 ELSE 0)]

Command(t, h) == [t |-> t, h |-> h]

\* start, on_packet, on_command_status and on_le_meta: the state after an event of the
\* controller, and the command that follows.
Ladder ==
  [Securing |-> [of |-> "SecurityEnable", next |-> "Configuring", command |-> <<"CreateConfig">>],
   Configuring |-> [of |-> "CreateConfig", next |-> "SettingParameters", command |-> <<"SetParameters">>],
   SettingParameters |-> [of |-> "SetParameters", next |-> "Enabling", command |-> <<"Enable">>],
   Enabling |-> [of |-> "Enable", next |-> "Measuring", command |-> <<>>]]
Rung(i, p) == i.state \in DOMAIN Ladder /\ p.t \in {"Status", "Complete"} /\ p.of = Ladder[i.state].of
InitiatorHears(i, p) ==
  IF ~Rung(i, p) THEN [next |-> i, commands |-> <<>>]
  ELSE IF ~p.ok THEN [next |-> [i EXCEPT !.state = "Failed"], commands |-> <<>>]
  ELSE IF p.t = "Status" THEN [next |-> i, commands |-> <<>>]
  ELSE [next |-> [i EXCEPT !.state = Ladder[i.state].next],
        commands |-> [k \in DOMAIN Ladder[i.state].command |-> Command(Ladder[i.state].command[k], i.handle)]]

\* CsReflector::on_packet: a configuration as reflector is taken, and of the subevents
\* measured under it the newest is kept.
ReflectorHears(r, p) ==
  IF p.t = "Complete" /\ p.of = "CreateConfig" /\ p.ok /\ p.role = "reflector"
  THEN [r EXCEPT !.config = {p.h}]
  ELSE IF p.t = "Subevent" /\ r.config # {} THEN [r EXCEPT !.pending = <<p.tones>>] ELSE r

--------------------------------------------------------------------------------
(* The hosts, before the medium moves *)

\* tag_produce: the newest half is cut and sent; some segments may be lost on the way.
TagProduce ==
  /\ pc = "tag_produce" /\ pc' = "locator_produce"
  /\ run.ticks < MaxTicks
  /\ LET fresh == tag.conn # {} /\ tag.reflector.pending # <<>>
         segments == IF fresh THEN Segment(Head(tag.reflector.pending)) ELSE <<>>
     IN \E kept \in SUBSET DOMAIN segments :
          LET through == SelectSeq([k \in DOMAIN segments |-> k], LAMBDA k : k \in kept)
              lost == Len(segments) - Len(through)
          IN /\ run.lost + lost <= case.losses
             /\ run' = [run EXCEPT !.lost = @ + lost]
             /\ toAir' = Sent("tag", [n \in DOMAIN through |->
                  Command("Acl", CHOOSE h \in tag.conn : TRUE) @@ [att |-> [op |-> "notify", segment |-> segments[through[n]]]]])
             /\ tag' = IF fresh THEN [tag EXCEPT !.reflector.pending = <<>>] ELSE tag
  /\ UNCHANGED <<case, loc, air, toHost, actions>>

\* locator_produce: a locator that has no connection asks for one, once.
LocatorProduce ==
  /\ pc = "locator_produce" /\ pc' = "handle"
  /\ IF loc.phase = "Scanning" /\ ~loc.asked
     THEN /\ loc' = [loc EXCEPT !.asked = TRUE, !.phase = "Connecting"]
          /\ toAir' = Sent("locator", <<[t |-> "Connect"]>>)
     ELSE UNCHANGED <<loc, toAir>>
  /\ run' = [run EXCEPT !.ticks = @ + 1]
  /\ UNCHANGED <<case, tag, air, toHost, actions>>

--------------------------------------------------------------------------------
(* Link::tick *)

Complete(of, h, ok, role) == [t |-> "Complete", of |-> of, h |-> h, ok |-> ok, role |-> role]
Status(of, ok) == [t |-> "Status", of |-> of, ok |-> ok, h |-> 0]
Accepts(of, how) == <<of, how>> \notin case.refused

\* handle_command: what a controller answers at once, and what it defers.
AnswersAtOnce(p) ==
  LET up == p.h \in air.link
  IN CASE p.t = "SecurityEnable" ->
            IF ~up \/ ~Accepts(p.t, "status") THEN <<Status(p.t, FALSE)>>
            ELSE <<Status(p.t, TRUE), Complete(p.t, p.h, Accepts(p.t, "complete"), "")>>
       [] p.t = "CreateConfig" -> <<Status(p.t, up /\ Accepts(p.t, "status"))>>
       [] p.t = "SetParameters" -> <<Complete(p.t, p.h, Accepts(p.t, "complete"), "")>>
       [] p.t \in {"Enable", "Disable"} -> <<Status("Enable", Accepts("Enable", "status"))>>
       [] OTHER -> <<>>
Defers(p) ==
  \/ p.t \in {"Acl", "Disconnect"}
  \/ p.t = "CreateConfig" /\ p.h \in air.link /\ Accepts(p.t, "status")
  \/ p.t \in {"Enable", "Disable"} /\ Accepts("Enable", "status")

\* Phase A: the hosts' packets, the tag's before the locator's.
Handle ==
  /\ pc = "handle"
  /\ IF \A e \in Ends : toAir[e] = <<>>
     THEN pc' = "connect" /\ UNCHANGED <<air, toAir, toHost, actions>>
     ELSE LET e == IF toAir["tag"] # <<>> THEN "tag" ELSE "locator"
              p == Head(toAir[e])
          IN /\ pc' = pc
             /\ toAir' = [toAir EXCEPT ![e] = Tail(@)]
             /\ IF p.t \in {"Advertise", "Connect"}
                THEN /\ air' = IF p.t = "Advertise" THEN [air EXCEPT !.advertising = TRUE] ELSE [air EXCEPT !.connecting = TRUE]
                     /\ UNCHANGED <<toHost, actions>>
                ELSE /\ toHost' = Heard(e, AnswersAtOnce(p))
                     /\ actions' = IF Defers(p) THEN Append(actions, [from |-> e, p |-> p]) ELSE actions
                     /\ UNCHANGED air
  /\ UNCHANGED <<case, tag, loc, run>>

\* Phase C: establish_connection.
Connect ==
  /\ pc = "connect" /\ pc' = "route"
  /\ IF air.connecting /\ air.advertising
     THEN /\ air' = [air EXCEPT !.connecting = FALSE, !.advertising = FALSE, !.link = @ \cup {run.links + 1}]
          /\ toHost' = [e \in Ends |-> Append(toHost[e], Command("Connected", run.links + 1))]
          /\ run' = [run EXCEPT !.links = @ + 1]
     ELSE UNCHANGED <<air, toHost, run>>
  /\ UNCHANGED <<case, tag, loc, toAir, actions>>

Session(h, role) == [h |-> h, role |-> role, enabled |-> FALSE, counter |-> 0]

\* route_disconnect: the link and the sessions on it go; both hosts are told.
RouteDisconnect(h) ==
  IF h \notin air.link THEN UNCHANGED <<air, toHost>>
  ELSE /\ air' = [air EXCEPT !.link = @ \ {h}, !.cs = [e \in Ends |-> {s \in @[e] : s.h # h}]]
       /\ toHost' = [e \in Ends |-> Append(toHost[e], Command("Disconnected", h))]

\* route_cs_configure: a session for the one that asks, and the other role for its peer.
RouteCsConfigure(e, h) ==
  LET told == IF h \in air.link THEN Ends ELSE {e}
      role(x) == IF x = e THEN "initiator" ELSE "reflector"
      ok == Accepts("CreateConfig", "complete")
  IN /\ air' = [air EXCEPT !.cs = [x \in Ends |-> IF x \in told /\ ok THEN {Session(h, role(x))} ELSE @[x]]]
     /\ toHost' = [x \in Ends |-> IF x \in told THEN Append(toHost[x], Complete("CreateConfig", h, ok, role(x))) ELSE toHost[x]]

\* route_cs_enable: the sessions of both ends, or a refusal where there is none.
RouteCsEnable(e, h, on) ==
  LET has(x) == \E s \in air.cs[x] : s.h = h
      told == {x \in Ends : has(x) /\ (x = e \/ h \in air.link)}
      ok == Accepts("Enable", "complete")
  IN IF ~has(e) \/ ~ok
     THEN toHost' = Heard(e, <<Complete("Enable", h, FALSE, "")>>) /\ UNCHANGED air
     ELSE /\ air' = [air EXCEPT !.cs = [x \in Ends |-> IF x \in told THEN {[s EXCEPT !.enabled = on] : s \in @[x]} ELSE @[x]]]
          /\ toHost' = [x \in Ends |-> IF x \in told THEN Append(toHost[x], Complete("Enable", h, TRUE, "")) ELSE toHost[x]]

\* Phase D: what was deferred, in order.
Route ==
  /\ pc = "route"
  /\ IF actions = <<>>
     THEN pc' = "sound" /\ UNCHANGED <<air, toHost, actions>>
     ELSE LET a == Head(actions)
          IN /\ pc' = pc /\ actions' = Tail(actions)
             /\ CASE a.p.t = "Disconnect" -> RouteDisconnect(a.p.h)
                  [] a.p.t = "CreateConfig" -> RouteCsConfigure(a.from, a.p.h)
                  [] a.p.t \in {"Enable", "Disable"} -> RouteCsEnable(a.from, a.p.h, a.p.t = "Enable")
                  [] OTHER -> /\ toHost' = IF a.p.h \in air.link THEN Heard(Other(a.from), <<a.p>>) ELSE toHost
                              /\ UNCHANGED air
  /\ UNCHANGED <<case, tag, loc, toAir, run>>

\* Phase D2, tick_channel_sounding: one procedure, whose tones both ends are told of.
Sound ==
  /\ pc = "sound" /\ pc' = "tag_consume"
  /\ LET driving == {s \in air.cs["locator"] : s.enabled /\ s.role = "initiator" /\ s.h \in air.link}
     IN IF driving # {} /\ \E s \in air.cs["tag"] : s.enabled
        THEN LET s == CHOOSE x \in driving : TRUE
                 tones == [counter |-> s.counter, number |-> run.procedures + 1]
             IN /\ toHost' = [e \in Ends |-> Append(toHost[e], [t |-> "Subevent", h |-> s.h, tones |-> tones])]
                /\ air' = [air EXCEPT !.cs = [e \in Ends |-> {[x EXCEPT !.counter = (s.counter + 1) % 65536] : x \in @[e]}]]
                /\ run' = [run EXCEPT !.procedures = @ + 1]
        ELSE UNCHANGED <<toHost, air, run>>
  /\ UNCHANGED <<case, tag, loc, toAir, actions>>

--------------------------------------------------------------------------------
(* The hosts, after the medium has moved *)

Attributes == AttributesOf(case.services)
HandlesOf(t, from, to) == {h \in DOMAIN Attributes : Attributes[h].t = t /\ h \in from .. to}
EndOf(h) ==
  LET later == {x \in HandlesOf("service", 1, Len(Attributes)) : x > h}
  IN IF later = {} THEN Len(Attributes) ELSE Min(later) - 1
InOrder(S) == SetToSortSeq(S, <)

\* The tag's attribute server: MTU, services, characteristics, writes.
Answer(att) ==
  CASE att.op = "mtu" -> [op |-> "mtu_rsp"]
    [] att.op = "services" ->
         LET found == InOrder(HandlesOf("service", att.from, Len(Attributes)))
         IN IF found = <<>> THEN [op |-> "error"]
            ELSE [op |-> "services_rsp", items |-> [i \in DOMAIN found |-> [start |-> found[i], end |-> EndOf(found[i])]]]
    [] att.op = "chars" ->
         LET found == InOrder(HandlesOf("value", att.from + 1, att.to))
         IN IF found = <<>> THEN [op |-> "error"]
            ELSE [op |-> "chars_rsp", items |-> [i \in DOMAIN found |-> [uuid |-> Attributes[found[i]].of.uuid, at |-> found[i]]]]
    [] att.op = "write" -> [op |-> IF att.at \in DOMAIN Attributes THEN "write_rsp" ELSE "error"]

\* tag_consume: the reflector sees every packet, then LeHost answers it.
TagConsume ==
  /\ pc = "tag_consume"
  /\ IF toHost["tag"] = <<>>
     THEN pc' = "locator_consume" /\ UNCHANGED <<tag, toAir, toHost>>
     ELSE LET p == Head(toHost["tag"])
          IN /\ pc' = pc /\ toHost' = [toHost EXCEPT !["tag"] = Tail(@)]
             /\ tag' = [conn |-> CASE p.t = "Connected" -> {p.h} [] p.t = "Disconnected" -> {} [] OTHER -> tag.conn,
                        reflector |-> ReflectorHears(tag.reflector, p)]
             /\ toAir' = Sent("tag", CASE p.t = "Disconnected" -> <<[t |-> "Advertise"]>>
                                       [] p.t = "Acl" -> AttSend(p.h, Answer(p.att))
                                       [] OTHER -> <<>>)
  /\ UNCHANGED <<case, loc, air, actions, run>>

\* locator_discover_characteristics and locator_next_service: the characteristics of the
\* service at index, or, past the last one, the subscription.
AskCharacteristics(l, i) ==
  [next |-> [l EXCEPT !.phase = "DiscoveringCharacteristics", !.index = i],
   att |-> <<[op |-> "chars", from |-> l.services[i].start, to |-> l.services[i].end]>>]
NextService(l, i) ==
  IF i < Len(l.services) THEN AskCharacteristics(l, i + 1)
  ELSE LET found == {<<n, k>> \in (1 .. Len(l.services)) \X (1 .. 3) :
                       k <= Len(l.services[n].chars) /\ l.services[n].chars[k].uuid = RealtimeData}
           c == CHOOSE x \in found : TRUE
       IN IF found = {} THEN [next |-> [l EXCEPT !.phase = "NoRangingService"], att |-> <<>>]
          ELSE [next |-> [l EXCEPT !.phase = "Subscribing", !.data = TRUE],
                att |-> <<[op |-> "write", at |-> l.services[c[1]].chars[c[2]].at + 1]>>]

\* locator_start_characteristics.
StartCharacteristics(l) ==
  IF l.services = <<>> THEN [next |-> [l EXCEPT !.phase = "NoRangingService"], att |-> <<>>] ELSE AskCharacteristics(l, 1)

\* locator_on_att, but for notifications: the locator after an answer and the request
\* that follows.
OnAtt(l, att) ==
  CASE l.phase = "ExchangingMtu" ->
         [next |-> [l EXCEPT !.phase = "DiscoveringServices"], att |-> <<[op |-> "services", from |-> 1]>>]
    [] l.phase = "DiscoveringServices" /\ att.op = "error" -> StartCharacteristics(l)
    [] l.phase = "DiscoveringServices" /\ att.op = "services_rsp" ->
         [next |-> [l EXCEPT !.services = @ \o [i \in DOMAIN att.items |-> att.items[i] @@ [chars |-> <<>>]]],
          att |-> <<[op |-> "services", from |-> Last(att.items).end + 1]>>]
    [] l.phase = "DiscoveringCharacteristics" /\ att.op = "error" -> NextService(l, l.index)
    [] l.phase = "DiscoveringCharacteristics" /\ att.op = "chars_rsp" ->
         LET more == [l EXCEPT !.services[l.index].chars = @ \o att.items]
             last == Last(att.items).at
             end == l.services[l.index].end
         IN IF last < end THEN [next |-> more, att |-> <<[op |-> "chars", from |-> last + 1, to |-> end]>>]
            ELSE NextService(more, l.index)
    [] OTHER -> [next |-> l, att |-> <<>>]

\* locator_on_ranging_segment and on_ranging_data.
OnSegment(segment) ==
  LET r == Push(loc.segments, segment)
      l == [loc EXCEPT !.segments = r.next]
      data == UNION {Parse(b) : b \in r.body}
  IN IF r.body = {} THEN l
     ELSE IF data = {} THEN [l EXCEPT !.rejected = @ + 1]
     ELSE [CombineHalves([loc.initiator EXCEPT !.remote = data], TRUE) EXCEPT !.segments = r.next]

\* locator_consume: the initiator sees every packet first (on_packet), then the locator
\* (locator_on_event, locator_on_att).
LocatorConsume ==
  /\ pc = "locator_consume"
  /\ IF toHost["locator"] = <<>>
     THEN pc' = "tag_produce" /\ UNCHANGED <<tag, loc, toAir, toHost>>
     ELSE LET p == Head(toHost["locator"])
              i == InitiatorHears(loc.initiator, p)
              reply == OnAtt(loc, p.att)
          IN /\ pc' = pc /\ toHost' = [toHost EXCEPT !["locator"] = Tail(@)]
             /\ tag' = IF p.t = "Disconnected" THEN [tag EXCEPT !.reflector = NewReflector] ELSE tag
             /\ CASE p.t = "Connected" ->
                       /\ loc' = [loc EXCEPT !.handle = p.h, !.services = <<>>, !.phase = "ExchangingMtu"]
                       /\ toAir' = Sent("locator", AttSend(p.h, [op |-> "mtu"]))
                  [] p.t = "Disconnected" ->
                       /\ loc' = [loc EXCEPT !.phase = "Scanning", !.asked = FALSE, !.segments = NewReassembler,
                                             !.initiator = [NewInitiator EXCEPT !.handle = loc.initiator.handle]]
                       /\ UNCHANGED toAir
                  [] p.t = "Subevent" ->
                       /\ loc' = IF p.h = loc.initiator.handle
                                 THEN CombineHalves([loc.initiator EXCEPT !.local = {p.tones}], FALSE) ELSE loc
                       /\ UNCHANGED toAir
                  [] p.t = "Acl" /\ p.att.op = "notify" ->
                       /\ loc' = IF loc.data THEN OnSegment(p.att.segment) ELSE loc
                       /\ UNCHANGED toAir
                  [] p.t = "Acl" /\ p.att.op # "notify" /\ loc.phase = "Subscribing" ->
                       /\ loc' = [loc EXCEPT !.phase = "Ranging", !.initiator.handle = loc.handle, !.initiator.state = "Securing"]
                       /\ toAir' = Sent("locator", <<Command("SecurityEnable", loc.handle)>>)
                  [] p.t = "Acl" /\ p.att.op # "notify" /\ loc.phase # "Subscribing" ->
                       /\ loc' = reply.next
                       /\ toAir' = IF reply.att = <<>> THEN toAir ELSE Sent("locator", AttSend(loc.handle, reply.att[1]))
                  [] OTHER -> /\ loc' = [loc EXCEPT !.initiator = i.next]
                              /\ toAir' = Sent("locator", i.commands)
  /\ UNCHANGED <<case, air, actions, run>>

\* CsInitiator::stop.
Stop ==
  /\ pc = "tag_produce" /\ case.stops /\ loc.initiator.state = "Measuring"
  /\ loc' = [loc EXCEPT !.initiator.state = "Idle"]
  /\ toAir' = Sent("locator", <<Command("Disable", loc.initiator.handle)>>)
  /\ UNCHANGED <<case, pc, tag, air, toHost, actions, run>>

\* Either host may end the connection.
Disconnect ==
  /\ pc = "tag_produce" /\ run.drops < case.drops
  /\ \E e \in Ends, h \in air.link : toAir' = Sent(e, <<Command("Disconnect", h)>>)
  /\ run' = [run EXCEPT !.drops = @ + 1]
  /\ UNCHANGED <<case, pc, tag, loc, air, toHost, actions>>

Next ==
  \/ TagProduce \/ LocatorProduce \/ Handle \/ Connect \/ Route \/ Sound \/ TagConsume \/ LocatorConsume \/ Stop \/ Disconnect

Spec == Init /\ [][Next]_vars

--------------------------------------------------------------------------------
\* A distance is made of the two halves of one procedure, whole and in order, whatever
\* segments are lost and whichever links end (combine_halves, Reassembler::push).
MeasuredTogether ==
  \A m \in loc.initiator.measured :
    m.remote = [k \in 1 .. Pieces |-> [of |-> m.local, ix |-> k, len |-> Octets(k)]]

\* Fewer segments lost than a body has: no body is put together of two.
BodiesWhole ==
  \A r \in loc.initiator.remote : \A k \in DOMAIN r.body : r.body[k].of = r.body[1].of /\ r.body[k].ix = k

\* Where nothing is lost no half misses the other, and every procedure is measured but for
\* the last of each connection (tag_produce before Link::tick, route_acl before
\* tick_channel_sounding, reset on a disconnection).
EveryProcedureMeasured ==
  case.losses = 0 /\ ~case.stops /\ pc = "tag_produce" =>
    /\ loc.mismatched = 0 /\ loc.rejected = 0
    /\ loc.completed <= run.procedures /\ run.procedures <= loc.completed + run.links

\* Between ticks a locator that waits waits for something: a packet under way, or the
\* connection it is about to ask for (connect_requested, on_command_status).
WaitsForSomething ==
  (/\ pc = "tag_produce"
   /\ \/ loc.phase \notin {"Ranging", "NoRangingService"}
      \/ loc.phase = "Ranging" /\ loc.initiator.state \notin {"Measuring", "Failed"} /\ ~case.stops) =>
    (\E e \in Ends : toAir[e] # <<>>) \/ (loc.phase = "Scanning" /\ ~loc.asked)
================================================================================
