---------------------------------- MODULE Bass ----------------------------------
(***************************************************************************)
(* The broadcast audio scan service.  An assistant writes operations to    *)
(* the control point of a scan delegator, which keeps the broadcast        *)
(* sources it was given and shows each in a receive state characteristic   *)
(* (BroadcastAudioScanService); the assistant learns what became of them   *)
(* from answers and notifications (ScriptBroadcastAssistant), while the    *)
(* delegator's radio reports outcomes of its own.                          *)
(***************************************************************************)
EXTENDS Naturals, Sequences, SequencesExt, Functions

CONSTANTS
  Slots,     \* receive states of the delegator
  IdWrap,    \* Source_IDs there are (256)
  Casts,     \* broadcasts
  Asks,      \* operations the assistant may ask for, among Operations
  MaxOps,    \* operations of the assistant
  MaxRadio   \* attempts of the delegator to synchronise

VARIABLES
  source,    \* the sources: a record or Empty, by slot
  nextId,    \* the next Source_ID
  scanning,  \* the assistant said it scans
  shown,     \* the receive state characteristics
  flushed,   \* their values when they were last looked at for notification
  cccd,      \* the first of them is subscribed to
  attempt,   \* synchronisation attempts: the source and the broadcast it then had
  central,   \* of the assistant: its phase, the operations queued and the one in flight
  as,        \* the assistant: operations deferred and issued, sources awaited, sources known
  added,     \* sources on_source_added was called for, in order
  up, down,  \* requests and answers under way
  ops        \* operations and attempts so far

vars == <<source, nextId, scanning, shown, flushed, cccd, attempt, central, as, added, up, down, ops>>

Slot == 1 .. Slots
Empty == [id |-> IdWrap, cast |-> 0, pa |-> "none", enc |-> "none", bis |-> 0]
Nothing == [op |-> "nothing"]

\* The operations of the control point that an assistant issues: Source_IDs are
\* the script's, known or guessed.
PaSync == {"DoNotSynchronize", "PastAvailable", "PastNotAvailable"}
Operations ==
  [op : {"add"}, cast : Casts, pa : PaSync]
  \cup [op : {"modify"}, id : 0 .. IdWrap - 1, pa : PaSync]
  \cup [op : {"remove"}, id : 0 .. IdWrap - 1]
  \cup [op : {"scan_started", "scan_stopped"}]

--------------------------------------------------------------------------------
\* sync_states: an order to synchronise is not yet a synchronisation.
SyncState(pa) == IF pa = "PastAvailable" THEN "SyncInfoRequest" ELSE "NotSynchronized"

\* slot_of: the slot of a source, or 0.
SlotOf(src, id) == LET at == {i \in Slot : src[i].id = id} IN IF at = {} THEN 0 ELSE CHOOSE i \in at : \A j \in at : i <= j
FreeSlot(src) == SlotOf(src, IdWrap)

NewId(n) == n % IdWrap

\* on_write: the answer, the sources and the slot whose characteristic is published, if any.
Status(o) ==
  CASE o.op = "add" -> IF FreeSlot(source) = 0 THEN "insufficient_resources" ELSE "ok"
    [] o.op \in {"modify", "code", "remove"} -> IF SlotOf(source, o.id) = 0 THEN "invalid_source" ELSE "ok"
    [] OTHER -> "ok"
Touched(o) == IF o.op = "add" THEN FreeSlot(source) ELSE IF o.op \in {"modify", "code", "remove"} THEN SlotOf(source, o.id) ELSE 0
Changed(s, o) ==
  CASE o.op = "add" -> [id |-> NewId(nextId), cast |-> o.cast, pa |-> SyncState(o.pa), enc |-> "NotEncrypted", bis |-> 0]
    [] o.op = "modify" -> [s EXCEPT !.pa = SyncState(o.pa), !.bis = 0]
    [] o.op = "code" -> IF s.enc = "CodeRequired" THEN [s EXCEPT !.enc = "Decrypting"] ELSE s
    [] o.op = "remove" -> Empty

Written(o) ==
  /\ IF Touched(o) # 0
     THEN source' = [source EXCEPT ![Touched(o)] = Changed(@, o)] /\ shown' = [shown EXCEPT ![Touched(o)] = source'[Touched(o)]]
     ELSE UNCHANGED <<source, shown>>
  /\ nextId' = IF o.op = "add" /\ Status(o) = "ok" THEN nextId + 1 ELSE nextId
  /\ scanning' = IF o.op \in {"scan_started", "scan_stopped"} THEN o.op = "scan_started" ELSE scanning

OnWrite(o) == Written(o) /\ down' = Append(down, [op |-> "written", status |-> Status(o)])

\* The delegator's attribute server, one request at a time.  A subscription and a
\* read by UUID are of the first receive state.
ServerReceive ==
  /\ up # <<>> /\ up' = Tail(up)
  /\ LET o == Head(up)
     IN CASE o.op = "subscribe" ->
               /\ cccd' = TRUE /\ down' = Append(down, [op |-> "subscribed"])
               /\ UNCHANGED <<source, nextId, scanning, shown>>
          [] o.op = "read" ->
               /\ down' = Append(down, [op |-> "read", value |-> shown[1]])
               /\ UNCHANGED <<source, nextId, scanning, shown, cccd>>
          [] OTHER -> OnWrite(o) /\ UNCHANGED cccd
  /\ UNCHANGED <<flushed, attempt, central, as, added, ops>>

\* Another client gives the code of an encrypted broadcast, without asking for an answer.
SetBroadcastCode(id) ==
  /\ \E i \in Slot : source[i].id = id /\ source[i].enc = "CodeRequired"
  /\ Written([op |-> "code", id |-> id])
  /\ UNCHANGED <<flushed, cccd, attempt, central, as, added, up, down, ops>>

\* flush_value_notifications: what changed since the last flush is notified, if it
\* is subscribed to and a central is connected.
Flush ==
  /\ shown # flushed /\ flushed' = shown
  /\ down' = IF shown[1] # flushed[1] /\ cccd /\ central.phase # "Disconnected"
             THEN Append(down, [op |-> "notify", value |-> shown[1]]) ELSE down
  /\ UNCHANGED <<source, nextId, scanning, shown, cccd, attempt, central, as, added, up, ops>>

\* The delegator's radio sets out to synchronise to a source's broadcast ...
Attempt(i) ==
  /\ source[i] # Empty /\ ops.radio < MaxRadio
  /\ attempt' = attempt \cup {[id |-> source[i].id, cast |-> source[i].cast]}
  /\ ops' = [ops EXCEPT !.radio = @ + 1]
  /\ UNCHANGED <<source, nextId, scanning, shown, flushed, cccd, central, as, added, up, down>>

\* ... and says what came of it (report_sync_outcome), or that the broadcast is
\* encrypted (require_broadcast_code), or is refused because the source is gone.
\* Here bis is the broadcast whose streams it receives.
Outcome(a, pa) ==
  /\ attempt' = attempt \ {a}
  /\ LET i == SlotOf(source, a.id)
     IN IF i = 0 THEN UNCHANGED <<source, shown>>
        ELSE /\ source' = [source EXCEPT ![i] =
                  IF pa = "CodeRequired" THEN [@ EXCEPT !.enc = pa]
                  ELSE [@ EXCEPT !.pa = pa, !.bis = IF pa = "Synchronized" THEN a.cast ELSE 0]]
             /\ shown' = [shown EXCEPT ![i] = source'[i]]
  /\ UNCHANGED <<nextId, scanning, flushed, cccd, central, as, added, up, down, ops>>

--------------------------------------------------------------------------------
\* pump: the central sends the next queued operation when none is in flight.
Pumped(c) ==
  IF c.phase = "Ready" /\ c.inFlight = Nothing /\ c.pending # <<>>
  THEN /\ central' = [c EXCEPT !.inFlight = Head(c.pending), !.pending = Tail(@)]
       /\ up' = Append(up, Head(c.pending))
  ELSE central' = c /\ UNCHANGED up

\* connect_to: the first operation that names the sink connects to it; a search
\* has to come later (tell_sink).
ConnectTo(c) == IF c.phase = "Idle" THEN [c EXCEPT !.phase = "Connecting"] ELSE c
MaySearch(o) == o.op \in {"scan_started", "scan_stopped"} => central.phase # "Idle"

\* issue: operations are held back until the services are discovered.
Issue(c, o) ==
  IF c.phase = "Ready"
  THEN Pumped([c EXCEPT !.pending = Append(@, o)]) /\ as' = [as EXCEPT !.issued = Append(@, o)]
  ELSE Pumped(c) /\ as' = [as EXCEPT !.deferred = Append(@, o)]

Ask(o) ==
  /\ ops.asked < MaxOps /\ ops' = [ops EXCEPT !.asked = @ + 1]
  /\ MaySearch(o) /\ Issue(ConnectTo(central), o)
  /\ UNCHANGED <<source, nextId, scanning, shown, flushed, cccd, attempt, added, down>>

\* observe, ServicesDiscovered: subscribe, read, then what was held back.
ServicesDiscovered ==
  /\ central.phase = "Connecting"
  /\ Pumped([central EXCEPT !.phase = "Ready", !.pending = @ \o <<[op |-> "subscribe"], [op |-> "read"]>> \o as.deferred])
  /\ as' = [as EXCEPT !.deferred = <<>>, !.issued = @ \o as.deferred]
  /\ UNCHANGED <<source, nextId, scanning, shown, flushed, cccd, attempt, added, down, ops>>

\* Mutant of OnWritten: a source is forgotten whatever the answer says.
OnWrittenAnyhow(m) ==
  as' = IF as.issued = <<>> THEN as
        ELSE LET o == Head(as.issued)
             IN [as EXCEPT !.issued = Tail(@), !.awaiting = IF o.op = "add" /\ m.status = "ok" THEN @ + 1 ELSE @,
                           !.known = IF o.op = "remove" THEN {} ELSE @]

\* observe, an answer to a control point write: the oldest operation issued was
\* carried out or refused.  A source added is told of when its state arrives.
OnWritten(m) ==
  LET o == Head(as.issued)
      rest == [as EXCEPT !.issued = Tail(@)]
  IN as' = CASE as.issued = <<>> -> as
             [] as.issued # <<>> /\ m.status # "ok" -> rest
             [] as.issued # <<>> /\ m.status = "ok" /\ o.op = "add" -> [rest EXCEPT !.awaiting = @ + 1]
             [] as.issued # <<>> /\ m.status = "ok" /\ o.op = "remove" -> [rest EXCEPT !.known = {s \in @ : s.id # o.id}]
             [] OTHER -> rest

\* on_receive_state: an empty one says nothing; a new source answers an add that
\* was carried out.
OnReceiveState(v) ==
  IF v = Empty THEN UNCHANGED <<as, added>>
  ELSE LET answers == as.awaiting > 0 /\ ~\E s \in as.known : s.id = v.id
       IN /\ as' = [as EXCEPT !.awaiting = IF answers THEN @ - 1 ELSE @,
                              !.known = {s \in @ : s.id # v.id} \cup {v}]
          /\ added' = IF answers THEN Append(added, v.id) ELSE added

CentralReceive ==
  /\ down # <<>> /\ down' = Tail(down)
  /\ LET m == Head(down)
     IN /\ Pumped(IF m.op = "notify" THEN central ELSE [central EXCEPT !.inFlight = Nothing])
        /\ CASE m.op = "written" -> OnWritten(m) /\ UNCHANGED added
             [] m.op \in {"read", "notify"} -> OnReceiveState(m.value)
             [] OTHER -> UNCHANGED <<as, added>>
  /\ UNCHANGED <<source, nextId, scanning, shown, flushed, cccd, attempt, ops>>

\* The link goes away, with what is under way on it; nothing connects again.
Disconnect ==
  /\ central.phase = "Ready"
  /\ central' = [central EXCEPT !.phase = "Disconnected", !.inFlight = Nothing]
  /\ up' = <<>> /\ down' = <<>> /\ cccd' = FALSE
  /\ UNCHANGED <<source, nextId, scanning, shown, flushed, attempt, as, added, ops>>

--------------------------------------------------------------------------------
NewAssistant == [deferred |-> <<>>, issued |-> <<>>, awaiting |-> 0, known |-> {}]

Init ==
  /\ source = [i \in Slot |-> Empty] /\ shown = source /\ flushed = source
  /\ nextId = 0 /\ scanning = FALSE /\ cccd = FALSE /\ attempt = {}
  /\ central = [phase |-> "Idle", pending |-> <<>>, inFlight |-> Nothing]
  /\ as = NewAssistant /\ added = <<>>
  /\ up = <<>> /\ down = <<>> /\ ops = [asked |-> 0, radio |-> 0]

Next ==
  \/ \E o \in Asks : Ask(o)
  \/ \E id \in 0 .. IdWrap - 1 : SetBroadcastCode(id)
  \/ ServicesDiscovered \/ ServerReceive \/ CentralReceive \/ Flush \/ Disconnect
  \/ \E i \in Slot : Attempt(i)
  \/ \E a \in attempt, pa \in {"Synchronized", "FailedToSynchronize", "CodeRequired"} : Outcome(a, pa)

Spec == Init /\ [][Next]_vars

--------------------------------------------------------------------------------
\* Every characteristic shows its slot, no two sources share a Source_ID, and a
\* source said to be synchronised is the one whose broadcast was: an outcome that
\* comes after its source was removed does not land on another
\* (publish_slot, slot_of, report_sync_outcome).
ReceiveStatesRight ==
  /\ shown = source
  /\ \A i, j \in Slot : source[i] # Empty /\ source[i].id = source[j].id => i = j
  /\ \A i \in Slot : source[i].pa = "Synchronized" => source[i].bis = source[i].cast

\* Once everything has been answered and notified, the assistant of a delegator
\* with one receive state knows the source it holds as it is, and no other, and
\* no add awaits its source but one whose source was removed before it was shown.
SourcesKnown ==
  Slots = 1 /\ central.phase = "Ready" /\ central.inFlight = Nothing /\ down = <<>> /\ shown = flushed
    => /\ as.known = {source[i] : i \in Slot} \ {Empty}
       /\ source[1] # Empty => source[1].id \in Range(added)
================================================================================
