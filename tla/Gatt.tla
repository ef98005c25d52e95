-------------------------------- MODULE Gatt --------------------------------
(***************************************************************************)
(* A central that discovers, reads, writes and subscribes (LeCentral with  *)
(* its GattClient) and the peripheral it talks to: a database of           *)
(* attributes served over ATT (VirtualDevice, GattDatabase) whose values   *)
(* a script changes and whose subscribers are told once per tick           *)
(* (ScriptedPeripheral).  The link keeps order; a disconnection drops what *)
(* is on it.  Handles are numbered as the database allocates them.         *)
(***************************************************************************)
EXTENDS Integers, Sequences, FiniteSets, SequencesExt

CONSTANTS
  Services,    \* the peripheral's: [uuid, long, chars], chars of [uuid, long, notify, indicate, write]
  Attributes,  \* its attribute table: AttributesOf(Services)
  Values,      \* what characteristics may hold
  Targets,     \* what operations are aimed at: [uuid |-> u] or [handle |-> h]
  OpBound,     \* operations asked for
  ChangeBound, \* values the script sets
  LinkBound    \* connections

VARIABLES
  phase, at,          \* the central's phase, and the service whose characteristics it is asking for
  services,           \* what it has discovered
  pending, inFlight,  \* operations waiting, and the one on its way with its attribute
  values, subscribed, \* values it has heard; value handles it is subscribed to
  up, down,           \* ATT messages to the peripheral and to the central
  conn,               \* whether the peripheral has the connection
  db,                 \* values of the attributes
  last,               \* values as of the last flush of notifications
  indicating,         \* an indication waits for its confirmation
  bond,               \* whether the peer is bonded, and the subscriptions kept for it
  told,               \* handles the central was told of since it subscribed
  budget              \* operations, changes and connections so far

central == <<phase, at, services, pending, inFlight, values, subscribed, told>>
peripheral == <<conn, db, last, indicating, bond>>
vars == <<central, up, down, peripheral, budget>>

None == -1  \* no value
Nothing == [op |-> "none"]

--------------------------------------------------------------------------------
Handles == 1 .. Len(Attributes)
HandlesOf(t) == {h \in Handles : Attributes[h].t = t}
Least(S) == CHOOSE x \in S : \A y \in S : x <= y
Most(S) == CHOOSE x \in S : \A y \in S : x >= y
MaxHandle == 65535

\* group_end_handle: the attribute before the next service.
GroupEnd(h) == LET after == {x \in HandlesOf("service") : x > h} IN IF after = {} THEN Len(Attributes) ELSE Least(after) - 1

\* read_by_type: the attributes of a type in a range; the answer ends where the length of their values changes.
ReadByType(t, first, end) ==
  LET found == SetToSortSeq({h \in HandlesOf(t) : first <= h /\ h <= end}, <)
      odd == {i \in 1 .. Len(found) : Attributes[found[i]].long # Attributes[found[1]].long}
  IN IF odd = {} THEN found ELSE SubSeq(found, 1, Least(odd) - 1)
\* find_information: those whose types are as long as the first one's; only a characteristic's own may be long.
TypeLong(h) == Attributes[h].t = "value" /\ Attributes[h].long
FindInformation(first, end) ==
  LET found == {h \in Handles : first <= h /\ h <= end}
  IN SetToSortSeq({h \in found : TypeLong(h) = TypeLong(Least(found))}, <)

CccdOf(h) == h + 1
Watched == SelectSeq([h \in Handles |-> h],
                     LAMBDA h : Attributes[h].t = "value" /\ (Attributes[h].of.notify \/ Attributes[h].of.indicate))
NoValues == [h \in Handles |-> None]

Init ==
  /\ phase = "Idle" /\ at = 0 /\ services = <<>>
  /\ pending = <<>> /\ inFlight = Nothing
  /\ values = NoValues /\ subscribed = {} /\ told = {}
  /\ up = <<>> /\ down = <<>>
  /\ conn = FALSE
  /\ \E v \in Values : db = [h \in Handles |-> IF Attributes[h].t = "value" THEN v ELSE 0]
  /\ last = db
  /\ indicating = FALSE
  /\ bond = [on |-> FALSE, cccds |-> <<>>]
  /\ budget = [ops |-> 0, changes |-> 0, links |-> 0]

--------------------------------------------------------------------------------
\* The central's way to a connection: connect or connect_with_type, the commands that set up the
\* controller, a scan when the type of the peer's address is not known, the connection.
Begin ==
  /\ phase \in {"Idle", "Disconnected"}
  /\ budget.links < LinkBound
  /\ budget' = [budget EXCEPT !.links = @ + 1]
  /\ phase' = "Initializing"
  /\ services' = <<>>
  /\ UNCHANGED <<at, pending, inFlight, values, subscribed, told, up, down, peripheral>>

FinishInitializing(typeKnown) ==
  /\ phase = "Initializing"
  /\ phase' = IF typeKnown THEN "Connecting" ELSE "Scanning"
  /\ UNCHANGED <<at, services, pending, inFlight, values, subscribed, told, up, down, peripheral, budget>>

AdvertisingReport ==
  /\ phase = "Scanning"
  /\ phase' = "Connecting"
  /\ UNCHANGED <<at, services, pending, inFlight, values, subscribed, told, up, down, peripheral, budget>>

ConnectionFailed ==
  /\ phase = "Connecting"
  /\ phase' = "Disconnected"
  /\ UNCHANGED <<at, services, pending, inFlight, values, subscribed, told, up, down, peripheral, budget>>

\* The peripheral gets the subscriptions of a bonded peer back.
RestoredSubscriptions == [h \in Handles |-> IF h \in DOMAIN bond.cccds THEN bond.cccds[h] ELSE db[h]]

ConnectionComplete ==
  /\ phase = "Connecting"
  /\ phase' = "ExchangingMtu"
  /\ services' = <<>>
  /\ conn' = TRUE
  /\ db' = RestoredSubscriptions
  /\ up' = <<[op |-> "mtu"]>>
  /\ indicating' = FALSE
  /\ UNCHANGED <<at, pending, inFlight, values, subscribed, told, down, last, bond, budget>>

\* The peripheral ends every subscription of its database; a bond keeps its own.
Unsubscribed == [h \in Handles |-> IF Attributes[h].t = "cccd" THEN 0 ELSE db[h]]

\* Values heard and operations waiting outlive the connection.
Disconnect ==
  /\ conn
  /\ phase' = "Disconnected" /\ inFlight' = Nothing /\ subscribed' = {} /\ told' = {}
  /\ conn' = FALSE
  /\ db' = Unsubscribed
  /\ up' = <<>> /\ down' = <<>>
  /\ indicating' = FALSE
  /\ UNCHANGED <<at, services, pending, values, last, bond, budget>>

--------------------------------------------------------------------------------
\* The peripheral's answer to an ATT request, and what it does to the database.
CanWrite(h) == Attributes[h].t = "cccd" \/ (Attributes[h].t = "value" /\ Attributes[h].of.write)
Error == [op |-> "error"]
\* Mutant of Items: nothing found is an empty answer.
ItemsOrNone(t, m) == [op |-> m.op, items |-> ReadByType(t, m.first, m.end)]
Items(t, m) == LET found == ReadByType(t, m.first, m.end) IN IF found = <<>> THEN Error ELSE [op |-> m.op, items |-> found]

\* on_discover_services_response: the services of an answer.
FoundServices(items) ==
  [i \in 1 .. Len(items) |-> [start |-> items[i], end |-> GroupEnd(items[i]), uuid |-> Attributes[items[i]].of.uuid, chars |-> <<>>]]
\* on_discover_characteristics_response: declarations, each with the handle of its value.
FoundCharacteristics(items) ==
  [i \in 1 .. Len(items) |-> [declaration |-> items[i], value |-> items[i] + 1, of |-> Attributes[items[i]].of, descriptors |-> <<>>]]

Reply(m) ==
  CASE m.op = "mtu" -> <<[op |-> "mtu"]>>
    [] m.op = "services" -> <<Items("service", m)>>
    [] m.op = "chars" -> <<Items("declaration", m)>>
    [] m.op = "info" ->
         IF {h \in Handles : m.first <= h /\ h <= m.end} = {} THEN <<Error>> ELSE <<[op |-> "info", items |-> FindInformation(m.first, m.end)]>>
    [] m.op = "read" -> <<[op |-> "read", v |-> db[m.h]]>>
    [] m.op = "write" -> IF CanWrite(m.h) THEN <<[op |-> "write"]>> ELSE <<Error>>
    [] OTHER -> <<>>

\* Mutant of Stored: what a bonded peer subscribes to is not kept.
NotStored(h, v) == bond
\* store_cccd: a zero is forgotten.
StoreCccd(cccds, h, v) ==
  [x \in {y \in DOMAIN cccds : y # h} \cup {y \in {h} : v # 0} |-> IF x = h THEN v ELSE cccds[x]]
\* on_cccd_written: a bonded peer's subscription is kept.
Stored(h, v) ==
  IF bond.on /\ Attributes[h].t = "cccd" THEN [bond EXCEPT !.cccds = StoreCccd(@, h, v)] ELSE bond

ServerReceive ==
  /\ up # <<>>
  /\ LET m == Head(up)
         writes == m.op \in {"write", "command"} /\ CanWrite(m.h)
     IN /\ up' = Tail(up)
        /\ down' = down \o Reply(m)
        /\ db' = IF writes THEN [db EXCEPT ![m.h] = m.v] ELSE db
        /\ bond' = IF writes THEN Stored(m.h, m.v) ELSE bond
        /\ indicating' = IF m.op = "confirm" THEN FALSE ELSE indicating
  /\ UNCHANGED <<central, conn, last, budget>>

\* A script sets a value, and may ask for subscribers to be told though it is the same.
SetValue(h, v, again) ==
  /\ budget.changes < ChangeBound
  /\ budget' = [budget EXCEPT !.changes = @ + 1]
  /\ h \in HandlesOf("value")
  /\ db' = [db EXCEPT ![h] = v]
  /\ last' = IF again THEN [last EXCEPT ![h] = None] ELSE last
  /\ UNCHANGED <<central, up, down, conn, indicating, bond>>

\* flush_value_notifications: once per tick, the changed values of the characteristics that can be
\* subscribed to.  A second indication waits for the confirmation of the first.
Notice(h, a) ==
  LET cccd == db[CccdOf(h)]
      seen == [a EXCEPT !.last[h] = db[h]]
  IN IF a.last[h] = db[h] THEN a
     ELSE IF ~conn \/ cccd = 0 THEN seen
     ELSE IF cccd = 2 /\ a.indicating THEN [a EXCEPT !.last[h] = None]
     ELSE [seen EXCEPT !.out = Append(@, [op |-> IF cccd = 2 THEN "indicate" ELSE "notify", h |-> h, v |-> db[h]]),
                       !.indicating = @ \/ cccd = 2]

Flush ==
  LET r == FoldLeft(LAMBDA a, h : Notice(h, a), [last |-> last, out |-> <<>>, indicating |-> indicating], Watched)
  IN /\ last # r.last
     /\ last' = r.last
     /\ down' = down \o r.out
     /\ indicating' = r.indicating
     /\ UNCHANGED <<central, up, conn, db, bond, budget>>

\* maybe_record_bond: the keys of a finished pairing, and the subscriptions there are.
RecordBond ==
  /\ conn /\ ~bond.on
  /\ LET on == {h \in HandlesOf("cccd") : db[h] # 0} IN bond' = [on |-> TRUE, cccds |-> [h \in on |-> db[h]]]
  /\ UNCHANGED <<central, up, down, conn, db, last, indicating, budget>>

--------------------------------------------------------------------------------
\* The central's operations.  An operation is aimed at a UUID, and finds the first characteristic
\* that has it, or at a value handle.
Hits(t, c) == IF "uuid" \in DOMAIN t THEN c.of.uuid = t.uuid ELSE c.value = t.handle
Places(list, t) == {p \in UNION {{<<i, j>> : j \in 1 .. Len(list[i].chars)} : i \in 1 .. Len(list)} : Hits(t, list[p[1]].chars[p[2]])}
Earlier(p, q) == p[1] < q[1] \/ (p[1] = q[1] /\ p[2] <= q[2])
Resolve(list, t) == LET ps == Places(list, t) IN IF ps = {} THEN <<>> ELSE CHOOSE p \in ps : \A q \in ps : Earlier(p, q)

\* descriptor_range: from behind the value to the next declaration, or the end of the service.
DescriptorRange(list, p) ==
  LET s == list[p[1]]
      c == s.chars[p[2]]
  IN [first |-> c.value + 1, end |-> IF p[2] < Len(s.chars) THEN s.chars[p[2] + 1].declaration - 1 ELSE s.end]

Bits(c, enable) == IF ~enable THEN 0 ELSE IF c.of.indicate /\ ~c.of.notify THEN 2 ELSE 1

\* start: what an operation sends, and whether it then waits.  A subscription looks for the
\* descriptors of its characteristic first; operations that cannot begin are over.
Asks(op, h, m) == [wait |-> [op |-> op.op, do |-> op, h |-> h], out |-> <<m>>]
Over(out) == [wait |-> Nothing, out |-> out]
Subscribe(list, op, c) ==
  LET cccds == {i \in 1 .. Len(c.descriptors) : Attributes[c.descriptors[i]].t = "cccd"}
      cccd == c.descriptors[Least(cccds)]
  IN IF cccds = {} THEN Over(<<>>)
     ELSE Asks([op EXCEPT !.op = "subscribe"], c.value, [op |-> "write", h |-> cccd, v |-> Bits(c, op.enable)])
Begun(list, op) ==
  LET p == Resolve(list, op.target)
      c == list[p[1]].chars[p[2]]
      r == DescriptorRange(list, p)
  IN IF p = <<>> THEN Over(<<>>)
     ELSE CASE op.op = "read" -> Asks(op, c.value, [op |-> "read", h |-> c.value])
            [] op.op = "write" -> Asks(op, c.value, [op |-> "write", h |-> c.value, v |-> op.v])
            [] op.op = "command" -> Over(<<[op |-> "command", h |-> c.value, v |-> op.v]>>)
            [] op.op = "descriptors" ->
                 IF c.descriptors # <<>> THEN Subscribe(list, op, c)
                 ELSE IF r.first > r.end THEN Over(<<>>)
                 ELSE Asks(op, r.first, [op |-> "info", first |-> r.first, end |-> r.end])
            [] op.op = "subscribe" -> Subscribe(list, op, c)

\* pump: one operation on its way at a time.
RECURSIVE Pump(_, _, _, _)
Pump(list, ops, wait, out) ==
  IF wait # Nothing \/ ops = <<>> THEN [ops |-> ops, wait |-> wait, out |-> out]
  ELSE LET b == Begun(list, Head(ops)) IN Pump(list, Tail(ops), b.wait, out \o b.out)

\* The end of every step of the central: queued operations go out once it is ready.
Pumped(ph, list, ops, wait, out) ==
  LET r == IF ph = "Ready" THEN Pump(list, ops, wait, out) ELSE [ops |-> ops, wait |-> wait, out |-> out]
  IN pending' = r.ops /\ inFlight' = r.wait /\ up' = up \o r.out

Operations ==
  [op : {"read"}, target : Targets] \cup [op : {"write", "command"}, target : Targets, v : Values]
    \cup [op : {"descriptors"}, target : Targets, enable : BOOLEAN]

\* queue_read, queue_write, queue_subscribe.
Queue(op) ==
  /\ budget.ops < OpBound
  /\ budget' = [budget EXCEPT !.ops = @ + 1]
  /\ pending' = Append(pending, op)
  /\ UNCHANGED <<phase, at, services, inFlight, values, subscribed, told, up, down, peripheral>>

\* The central's owner pumps once per tick.
Tick ==
  /\ phase = "Ready" /\ pending # <<>> /\ inFlight = Nothing
  /\ Pumped(phase, services, pending, inFlight, <<>>)
  /\ UNCHANGED <<phase, at, services, values, subscribed, told, down, peripheral, budget>>

--------------------------------------------------------------------------------
AskServices(first) == [op |-> "services", first |-> first, end |-> MaxHandle]
AskCharacteristics(first, end) == [op |-> "chars", first |-> first, end |-> end]

\* The next service to ask about, or the end of the discovery.
TurnTo(list, i) ==
  IF i <= Len(list)
  THEN phase' = "DiscoveringCharacteristics" /\ at' = i /\ services' = list
       /\ Pumped("DiscoveringCharacteristics", list, pending, inFlight, <<AskCharacteristics(list[i].start, list[i].end)>>)
  ELSE phase' = "Ready" /\ at' = 0 /\ services' = list /\ Pumped("Ready", list, pending, inFlight, <<>>)

OnMtu ==
  /\ phase' = "DiscoveringServices"
  /\ Pumped(phase, services, pending, inFlight, <<AskServices(1)>>)
  /\ UNCHANGED <<at, services, values, subscribed, told>>

OnServices(m) ==
  LET list == services \o FoundServices(m.items)
  IN IF list = <<>> \/ list[Len(list)].end = MaxHandle THEN TurnTo(list, 1) /\ UNCHANGED <<values, subscribed, told>>
     ELSE /\ services' = list
          /\ Pumped(phase, list, pending, inFlight, <<AskServices(list[Len(list)].end + 1)>>)
          /\ UNCHANGED <<phase, at, values, subscribed, told>>

\* The characteristics go to the first service that has the UUID of the one asked about.
OnCharacteristics(m) ==
  LET mine == Least({i \in 1 .. Len(services) : services[i].uuid = services[at].uuid})
      list == [services EXCEPT ![mine].chars = @ \o FoundCharacteristics(m.items)]
      s == list[at]
      seen == IF s.chars = <<>> THEN s.start ELSE s.chars[Len(s.chars)].value
  IN /\ IF seen < s.end
        THEN /\ services' = list
             /\ Pumped(phase, list, pending, inFlight, <<AskCharacteristics(seen + 1, s.end)>>)
             /\ UNCHANGED <<phase, at>>
        ELSE TurnTo(list, at + 1)
     /\ UNCHANGED <<values, subscribed, told>>

\* record_descriptors.
Recorded(t, items) ==
  LET p == Resolve(services, t) IN IF p = <<>> THEN services ELSE [services EXCEPT ![p[1]].chars[p[2]].descriptors = items]

\* complete_operation: whatever answer comes is taken for the operation on its way.
CompleteOperation(m) ==
  LET do == inFlight.do
      failed == m.op = "error"
      list == IF inFlight.op = "descriptors" /\ m.op = "info" THEN Recorded(do.target, m.items) ELSE services
      next == IF inFlight.op = "descriptors" THEN Begun(list, [do EXCEPT !.op = "subscribe"]) ELSE Over(<<>>)
  IN /\ services' = list
     /\ values' = IF inFlight.op = "read" /\ ~failed THEN [values EXCEPT ![inFlight.h] = IF m.op = "read" THEN m.v ELSE None] ELSE values
     /\ subscribed' = IF inFlight.op # "subscribe" \/ failed THEN subscribed
                      ELSE IF do.enable THEN subscribed \cup {inFlight.h} ELSE subscribed \ {inFlight.h}
     /\ told' = IF inFlight.op = "subscribe" THEN told \ {inFlight.h} ELSE told
     /\ Pumped(phase, list, pending, next.wait, next.out)
     /\ UNCHANGED <<phase, at>>

Changed(m) ==
  /\ values' = [values EXCEPT ![m.h] = m.v]
  /\ told' = told \cup {m.h}
  /\ Pumped(phase, services, pending, inFlight, IF m.op = "indicate" THEN <<[op |-> "confirm"]>> ELSE <<>>)
  /\ UNCHANGED <<phase, at, services, subscribed>>

Ignored == Pumped(phase, services, pending, inFlight, <<>>) /\ UNCHANGED <<phase, at, services, values, subscribed, told>>

CentralReceive ==
  /\ down # <<>>
  /\ down' = Tail(down)
  /\ UNCHANGED <<peripheral, budget>>
  /\ LET m == Head(down)
     IN CASE m.op \in {"notify", "indicate"} -> Changed(m)
          [] m.op \notin {"notify", "indicate"} /\ phase = "ExchangingMtu" -> OnMtu
          [] m.op = "error" /\ phase = "DiscoveringServices" -> TurnTo(services, 1) /\ UNCHANGED <<values, subscribed, told>>
          [] m.op = "services" /\ phase = "DiscoveringServices" -> OnServices(m)
          [] m.op = "error" /\ phase = "DiscoveringCharacteristics" ->
               TurnTo(services, at + 1) /\ UNCHANGED <<values, subscribed, told>>
          [] m.op = "chars" /\ phase = "DiscoveringCharacteristics" -> OnCharacteristics(m)
          [] phase = "Ready" /\ m.op \notin {"notify", "indicate"} /\ inFlight # Nothing -> CompleteOperation(m)
          [] OTHER -> Ignored

Next ==
  \/ Begin \/ AdvertisingReport \/ ConnectionComplete \/ ConnectionFailed \/ Disconnect
  \/ \E b \in BOOLEAN : FinishInitializing(b)
  \/ Tick \/ ServerReceive \/ Flush \/ RecordBond \/ CentralReceive
  \/ \E h \in Handles, v \in Values, again \in BOOLEAN : SetValue(h, v, again)
  \/ \E op \in Operations : Queue(op)

Fairness == WF_vars(ServerReceive) /\ WF_vars(CentralReceive) /\ WF_vars(Flush) /\ WF_vars(Tick)
Spec == Init /\ [][Next]_vars /\ Fairness

--------------------------------------------------------------------------------
\* Once the central is ready it has discovered the database: every service with its range and
\* every characteristic with its handles, in order, and nothing twice.
Discovered ==
  phase = "Ready" =>
    /\ Len(services) = Len(Services)
    /\ \A i \in 1 .. Len(services) :
         LET s == services[i]
         IN /\ Attributes[s.start] = [t |-> "service", of |-> Services[i], long |-> Services[i].long]
            /\ s.end = GroupEnd(s.start)
            /\ [j \in 1 .. Len(s.chars) |-> s.chars[j].of] = Services[i].chars
            /\ \A j \in 1 .. Len(s.chars) :
                 /\ s.start < s.chars[j].declaration /\ s.chars[j].value <= s.end
                 /\ Attributes[s.chars[j].value].t = "value"

\* The answer on its way is the answer to the operation that waits: nothing the central sends
\* between request and answer, and no connection before this one, puts them out of step.
AnswersMatch ==
  LET answers == SelectSeq(down, LAMBDA m : m.op \notin {"notify", "indicate"})
      asked == SelectSeq(up, LAMBDA m : m.op \notin {"command", "confirm"})
      Fits(m) == CASE inFlight.op = "read" -> m.op \in {"read", "error"}
                   [] inFlight.op \in {"write", "subscribe"} -> m.op \in {"write", "error"}
                   [] OTHER -> m.op \in {"info", "error"}
  IN phase = "Ready" => /\ Len(answers) + Len(asked) = (IF inFlight = Nothing THEN 0 ELSE 1)
                        /\ answers # <<>> => Fits(answers[1])

\* A subscription the central counts on is one the peripheral has; and when nothing is on its way
\* and nothing is left to flush, a central that was told of a characteristic since it subscribed
\* has its present value.
SubscribersUpToDate ==
  /\ \A h \in subscribed : inFlight.op # "subscribe" => db[CccdOf(h)] = Bits([of |-> Attributes[h].of], TRUE)
  /\ up = <<>> /\ down = <<>> /\ last = db => \A h \in subscribed \cap told : values[h] = db[h]

\* What the peripheral keeps for a bonded peer is what that peer is subscribed to while it is there,
\* whichever came first, the subscription or the bond.
BondKeepsSubscriptions ==
  conn /\ bond.on => \A h \in HandlesOf("cccd") : db[h] = (IF h \in DOMAIN bond.cccds THEN bond.cccds[h] ELSE 0)

\* What a central connected for is found out: the discovery ends.
Discovering == phase \in {"ExchangingMtu", "DiscoveringServices", "DiscoveringCharacteristics"}
DiscoveryEnds == Discovering ~> phase \in {"Ready", "Disconnected"}
================================================================================
