-------------------------------- MODULE Hogp --------------------------------
(***************************************************************************)
(* Typing over LE: a keyboard or a mouse that notifies its reports         *)
(* (BleKeyboard, BleMouse), the central that discovers it and works its    *)
(* operations off one at a time (device/central_device.rs), and the HID    *)
(* host that reads the report map to know what it hears                    *)
(* (device/hid_host.rs, devices/helpers/hid_reports.rs).  Characters and   *)
(* usages are their codes.  The link keeps order.                          *)
(***************************************************************************)
EXTENDS Integers, Sequences, FiniteSets, SequencesExt

CONSTANTS
  Services,   \* of the peripheral, with their handles: Services of HidReports
  ReportMap,  \* its report map, as items [tag, v]
  Text,       \* characters typed
  Chords,     \* reports of several keys
  Buttons,    \* button masks a mouse reports
  MaxOps      \* bound on what the device's user does

Tables == INSTANCE HidReports

VARIABLES
  phase, at,          \* the central's phase, and the service whose characteristics it asks for
  services,           \* discovered
  pending, inFlight,  \* operations waiting, and the one on its way
  subscribed,         \* value handles subscribed to
  hid,                \* the HID host
  up, down,           \* ATT messages
  typed,              \* characters typed
  early,              \* how many of them arrived before the host knew what it hears
  shown,              \* the last keyboard report decoded, and the last mouse buttons
  ops

central == <<phase, at, services, pending, inFlight, subscribed>>
vars == <<central, hid, up, down, typed, early, shown, ops>>

--------------------------------------------------------------------------------
NoHid == [kind |-> "unknown", map |-> FALSE, mapHandles |-> {}, reportHandles |-> {}, keys |-> <<>>, buttons |-> <<>>, events |-> <<>>]
Nothing == [op |-> "none"]

Init ==
  /\ phase = "Connecting" /\ at = 0 /\ services = <<>>
  /\ pending = <<>> /\ inFlight = Nothing /\ subscribed = {}
  /\ hid = NoHid
  /\ up = <<>> /\ down = <<>>
  /\ typed = <<>> /\ early = 0
  /\ shown = [keys |-> {}, buttons |-> {}]
  /\ ops = 0

(* HidHost *)

\* plan: report maps are read, reports that notify subscribed to.
HidService(s) == s.uuid = "HID"
Chosen(list, Pick(_)) == UNION {{c.h : c \in {x \in ToSet(s.chars) : Pick(x)}} : s \in {x \in ToSet(list) : HidService(x)}}
Plan(list) == [read |-> Chosen(list, LAMBDA c : c.uuid = "ReportMap"),
               subscribe |-> Chosen(list, LAMBDA c : c.uuid = "Report" /\ c.notify)]

KindOf(items) ==
  LET u == Tables!TopLevelUsage(items, 0, <<>>)
  IN CASE u = <<1, 6>> -> "keyboard" [] u = <<1, 2>> -> "mouse" [] u = <<1, 5>> -> "game pad" [] OTHER -> "unsupported"

\* on_read: the report map tells what the device is.
OnRead(h, handle, items) ==
  IF handle \notin h.mapHandles THEN h
  ELSE [h EXCEPT !.kind = KindOf(items), !.map = TRUE, !.events = Append(@, [t |-> "identified", kind |-> KindOf(items)])]

Previous(f, handle, none) == IF handle \in DOMAIN f THEN f[handle] ELSE none
Kept(f, handle, v) == [x \in (DOMAIN f) \cup {handle} |-> IF x = handle THEN v ELSE f[x]]

\* Mutant of DecodeKeyboard: a roll-over report counts as a report without keys.
DecodeKeyboardRollOver(h, handle, r) ==
  LET before == Previous(h.keys, handle, Tables!NoKeys)
      released == Tables!Fresh(before, r)
      pressed == IF Tables!RollOver(r) THEN <<>> ELSE Tables!Fresh(r, before)
  IN [h EXCEPT !.keys = Kept(@, handle, r), !.events = @
        \o (IF Tables!RollOver(r) THEN <<[t |-> "rollover"]>> ELSE [i \in 1 .. Len(released) |-> [t |-> "up", usage |-> released[i]]])
        \o [i \in 1 .. Len(pressed) |-> [t |-> "down", usage |-> pressed[i], char |-> Tables!HidToAscii(pressed[i], r.modifier = Tables!Shift)]]]
\* decode_keyboard: keys that came up, then keys that went down; a roll-over report changes nothing.
DecodeKeyboard(h, handle, r) ==
  LET before == Previous(h.keys, handle, Tables!NoKeys)
      released == Tables!Fresh(before, r)
      pressed == Tables!Fresh(r, before)
  IN IF Tables!RollOver(r) THEN [h EXCEPT !.events = Append(@, [t |-> "rollover"])]
     ELSE [h EXCEPT !.keys = Kept(@, handle, r),
                    !.events = @ \o [i \in 1 .. Len(released) |-> [t |-> "up", usage |-> released[i]]]
                                 \o [i \in 1 .. Len(pressed) |->
                                       [t |-> "down", usage |-> pressed[i], char |-> Tables!HidToAscii(pressed[i], r.modifier = Tables!Shift)]]]

\* decode_mouse: per button, up before down; then the movement.
DecodeMouse(h, handle, r) ==
  LET before == Previous(h.buttons, handle, {})
      Of(b) == IF b \in before \ r.buttons THEN <<[t |-> "buttonUp", b |-> b]>>
               ELSE IF b \in r.buttons \ before THEN <<[t |-> "buttonDown", b |-> b]>> ELSE <<>>
  IN [h EXCEPT !.buttons = Kept(@, handle, r.buttons),
               !.events = @ \o Of(1) \o Of(2) \o Of(3) \o IF r.moved THEN <<[t |-> "pointer"]>> ELSE <<>>]

OnNotification(h, handle, r) ==
  IF handle \notin h.reportHandles THEN h
  ELSE CASE h.kind = "keyboard" /\ "keys" \in DOMAIN r -> DecodeKeyboard(h, handle, r)
         [] h.kind = "mouse" /\ "buttons" \in DOMAIN r -> DecodeMouse(h, handle, r)
         [] OTHER -> h

--------------------------------------------------------------------------------
(* The peripheral *)

ReportHandle == CHOOSE h \in Plan(Services).subscribe : TRUE
Notify(r) == [op |-> "notify", h |-> ReportHandle, r |-> r]
Linked == phase # "Connecting"

Does == Linked /\ ops < MaxOps /\ ops' = ops + 1 /\ UNCHANGED <<central, hid, up, early, shown>>
\* type_text: a character that has a key is pressed and released.
Type(c) ==
  /\ Does
  /\ LET k == Tables!AsciiToHid(c)
     IN IF k = <<>> THEN UNCHANGED <<down, typed>>
        ELSE /\ down' = down \o <<Notify(Tables!KeyReport(k[1], <<k[2]>>)), Notify(Tables!NoKeys)>>
             /\ typed' = Append(typed, IF c = 13 THEN 10 ELSE c)
\* send_report: any keys at once.
SendReport(keys) == Does /\ down' = Append(down, Notify(Tables!KeyReport(Tables!NoModifier, keys))) /\ UNCHANGED typed
\* click, move_cursor, scroll.
Click(b) == Does /\ down' = down \o <<Notify([buttons |-> b, moved |-> FALSE]), Notify([buttons |-> {}, moved |-> FALSE])>> /\ UNCHANGED typed
Move(b) == Does /\ down' = Append(down, Notify([buttons |-> b, moved |-> TRUE])) /\ UNCHANGED typed

\* Its answers (VirtualDevice): services from a handle on, characteristics of a range, values.
Found(m) ==
  IF m.op = "services" THEN SelectSeq(Services, LAMBDA s : s.start >= m.first)
  ELSE SelectSeq(FlattenSeq([i \in 1 .. Len(Services) |-> Services[i].chars]), LAMBDA c : m.first <= c.h - 1 /\ c.h <= m.end)
Serve ==
  /\ up # <<>> /\ up' = Tail(up)
  /\ LET m == Head(up)
     IN down' = Append(down, CASE m.op = "mtu" -> [op |-> "mtu"]
                               [] m.op \in {"services", "chars"} -> IF Found(m) = <<>> THEN [op |-> "error"] ELSE [op |-> m.op, items |-> Found(m)]
                               [] m.op = "read" -> [op |-> "read", v |-> ReportMap]
                               [] m.op = "write" -> [op |-> "write"])
  /\ UNCHANGED <<central, hid, typed, early, shown, ops>>

--------------------------------------------------------------------------------
(* The central *)

Connect ==
  /\ phase = "Connecting"
  /\ phase' = "ExchangingMtu" /\ up' = <<[op |-> "mtu"]>>
  /\ UNCHANGED <<at, services, pending, inFlight, subscribed, hid, down, typed, early, shown, ops>>

AskChars(s) == [op |-> "chars", first |-> s.start, end |-> s.end]

\* pump_ops: one operation at a time, once ready.
PumpOps ==
  /\ phase = "Ready" /\ inFlight = Nothing /\ pending # <<>>
  /\ inFlight' = Head(pending) /\ pending' = Tail(pending)
  /\ up' = Append(up, IF Head(pending).op = "read" THEN Head(pending) ELSE [op |-> "write", h |-> Head(pending).h + 1])
  /\ UNCHANGED <<phase, at, services, subscribed, hid, down, typed, early, shown, ops>>

\* hid_start: what the HID host wants is queued; its owner calls it once the central is ready.
HidStart ==
  /\ phase = "Ready" /\ ~hid.map /\ hid.reportHandles = {} /\ inFlight = Nothing /\ pending = <<>>
  /\ LET p == Plan(services)
     IN /\ p.read # {} \/ p.subscribe # {}
        /\ hid' = [hid EXCEPT !.mapHandles = p.read, !.reportHandles = p.subscribe]
        /\ pending' = [i \in 1 .. Cardinality(p.read) |-> [op |-> "read", h |-> SetToSortSeq(p.read, <)[i]]]
                      \o [i \in 1 .. Cardinality(p.subscribe) |-> [op |-> "subscribe", h |-> SetToSortSeq(p.subscribe, <)[i]]]
  /\ UNCHANGED <<phase, at, services, inFlight, subscribed, up, down, typed, early, shown, ops>>

\* start_characteristic_discovery, next_characteristic_service.
ToService(list, i) ==
  /\ services' = list
  /\ IF i <= Len(list) THEN phase' = "DiscoveringCharacteristics" /\ at' = i /\ up' = Append(up, AskChars(list[i]))
     ELSE phase' = "Ready" /\ at' = 0 /\ UNCHANGED up
  /\ UNCHANGED <<pending, inFlight, subscribed, hid>>

Discovering(m) ==
  CASE phase = "ExchangingMtu" ->
         /\ phase' = "DiscoveringServices" /\ up' = Append(up, [op |-> "services", first |-> 1])
         /\ UNCHANGED <<at, services, pending, inFlight, subscribed, hid>>
    [] phase = "DiscoveringServices" ->
         IF m.op = "error" THEN ToService(services, 1)
         ELSE LET list == services \o [i \in 1 .. Len(m.items) |-> [m.items[i] EXCEPT !.chars = <<>>]]
              IN /\ services' = list
                 /\ up' = Append(up, [op |-> "services", first |-> list[Len(list)].end + 1])
                 /\ UNCHANGED <<phase, at, pending, inFlight, subscribed, hid>>
    [] phase = "DiscoveringCharacteristics" ->
         IF m.op = "error" THEN ToService(services, at + 1)
         ELSE LET list == [services EXCEPT ![at].chars = @ \o m.items]
                  s == list[at]
                  seen == s.chars[Len(s.chars)].h
              IN IF seen < s.end
                 THEN /\ services' = list /\ up' = Append(up, AskChars([s EXCEPT !.start = seen + 1]))
                      /\ UNCHANGED <<phase, at, pending, inFlight, subscribed, hid>>
                 ELSE ToService(list, at + 1)

\* The answer to the operation on its way.
Complete(m) ==
  /\ inFlight' = Nothing
  /\ hid' = IF inFlight.op = "read" /\ m.op = "read" THEN OnRead(hid, inFlight.h, m.v) ELSE hid
  /\ subscribed' = IF inFlight.op = "subscribe" /\ m.op # "error" THEN subscribed \cup {inFlight.h} ELSE subscribed
  /\ UNCHANGED <<phase, at, services, pending, up>>

\* For the properties: a report that presses one key, and what the last report decoded holds.
Pressing(m) == m.op = "notify" /\ "keys" \in DOMAIN m.r /\ Len(m.r.keys) = 1
Shown(r) ==
  CASE hid.kind = "keyboard" /\ "keys" \in DOMAIN r /\ ~Tables!RollOver(r) -> [shown EXCEPT !.keys = {k \in ToSet(r.keys) : k > Tables!LastReserved}]
    [] hid.kind = "mouse" /\ "buttons" \in DOMAIN r -> [shown EXCEPT !.buttons = r.buttons]
    [] OTHER -> shown

\* dispatch_att.  A notification is the HID host's at any time.
Receive ==
  /\ down # <<>> /\ down' = Tail(down)
  /\ LET m == Head(down)
     IN IF m.op = "notify"
        THEN /\ hid' = OnNotification(hid, m.h, m.r)
             /\ early' = IF hid.kind = "unknown" /\ Pressing(m) THEN early + 1 ELSE early
             /\ shown' = Shown(m.r)
             /\ UNCHANGED <<central, up>>
        ELSE (IF phase = "Ready" THEN IF inFlight = Nothing THEN UNCHANGED <<central, hid, up>> ELSE Complete(m) ELSE Discovering(m))
             /\ UNCHANGED <<early, shown>>
  /\ UNCHANGED <<typed, ops>>

Next ==
  \/ Connect \/ Serve \/ Receive \/ PumpOps \/ HidStart
  \/ \E c \in Text : Type(c)
  \/ \E k \in Chords : SendReport(k)
  \/ \E b \in Buttons : Click(b) \/ Move(b)

Spec == Init /\ [][Next]_vars

--------------------------------------------------------------------------------
\* The characters the host makes of the reports are the characters typed, in order and none
\* twice, from the moment it knows that it hears a keyboard (ascii_to_hid, decode_keyboard,
\* hid_to_ascii).
TextHeard ==
  LET downs == SelectSeq(hid.events, LAMBDA e : e.t = "down")
      onItsWay == Len(SelectSeq(down, Pressing))
  IN Chords = {} /\ KindOf(ReportMap) = "keyboard" =>
       [i \in 1 .. Len(downs) |-> downs[i].char] = SubSeq(typed, early + 1, Len(typed) - onItsWay)

\* What the events say is held is what the last report held: no key or button stays down, and none
\* comes up that was not down, through chords and roll-over (newly_pressed, released).
After(held, e) ==
  CASE e.t = "down" -> [held EXCEPT !.keys = @ \cup {e.usage}]
    [] e.t = "up" -> IF e.usage \in held.keys THEN [held EXCEPT !.keys = @ \ {e.usage}] ELSE [held EXCEPT !.wrong = TRUE]
    [] e.t = "buttonDown" -> [held EXCEPT !.buttons = @ \cup {e.b}]
    [] e.t = "buttonUp" -> [held EXCEPT !.buttons = @ \ {e.b}]
    [] OTHER -> held
KeysHeld ==
  FoldLeft(After, [keys |-> {}, buttons |-> {}, wrong |-> FALSE], hid.events)
    = [keys |-> shown.keys, buttons |-> shown.buttons, wrong |-> FALSE]
================================================================================
