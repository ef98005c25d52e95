------------------------------- MODULE Broadcast -------------------------------
(***************************************************************************)
(* An Auracast broadcast on the simulated medium: the LE controllers'      *)
(* extended and periodic advertising, BIGs and synchronizations            *)
(* (controller/sim.rs), the host that transmits (device/big_broadcaster.rs *)
(* under a script, scripting/broadcast.rs) and the hosts that listen       *)
(* (device/big_receiver.rs under its page, transport/wasm_ws.rs).          *)
(*                                                                         *)
(* A Tick of the medium takes every queued command in the controllers'     *)
(* order, then routes what they deferred, then reports; a host's turn      *)
(* drains its events.  There is one advertising set, one train and one     *)
(* source; a BASE is the number of its edition.  Every setup command the   *)
(* medium knows succeeds, as in the code.                                  *)
(***************************************************************************)
EXTENDS Naturals, Sequences, FiniteSets, SequencesExt

CONSTANTS Order,        \* the controllers, in the order of the medium's vector
          Src,          \* the one that broadcasts; the others listen
          NumBis,       \* streams of the BIG
          SrcCode,      \* the broadcast code; 0: not encrypted
          Code,         \* Code[r]: the code of receiver r; 0: none
          Credits,      \* ISO buffers the broadcaster assumes
          MaxQueue,     \* bounds: events a host may lag, broadcasts, stops,
          MaxStarts,    \* updates and SDUs of the script, receivers' stops
          MaxStops,
          MaxUpdates,
          MaxSdus,
          MaxLeaves,
          RestartUnseen \* whether a script starts again before it was told of the end

\* FoldLeft, with every intermediate value evaluated once.
Along(op(_, _), base, seq) ==
  LET f[n \in 0 .. Len(seq)] ==
        IF n = 0 THEN base ELSE CHOOSE v \in {op(u, seq[n]) : u \in {f[n - 1]}} : TRUE
  IN f[Len(seq)]

Ctl == Range(Order)
Receiver == Ctl \ {Src}
Bis == 1 .. NumBis

ASSUME BroadcastAssumption ==
  /\ Order \in Seq(Ctl) /\ IsInjective(Order) /\ Src \in Ctl
  /\ NumBis \in Nat \ {0}

VARIABLES
  ctl,    \* ctl[c]: what controller c keeps
  cmds,   \* cmds[c]: packets from the host of c to its controller
  evts,   \* evts[c]: packets from controller c to its host
  next,   \* the next handle of the medium
  source, \* the script, its broadcaster and what it was told
  sink,   \* sink[r]: the receiver r
  did     \* how often the script and the receivers did something, for the bounds

vars == <<ctl, cmds, evts, next, source, sink, did>>

Controller ==
  [on |-> FALSE, train |-> FALSE, base |-> 0, big |-> <<>>,
   scanning |-> FALSE, wanted |-> FALSE, sync |-> 0, joined |-> <<>>]

Broadcaster ==
  [state |-> "Idle", bis |-> <<>>, open |-> 0, seq |-> [k \in Bis |-> 0], inFlight |-> 0,
   update |-> FALSE, status |-> FALSE, base |-> 0, last |-> "none", ever |-> FALSE, told |-> "idle"]

BigReceiver ==
  [state |-> "Idle", sync |-> 0, base |-> 0, info |-> "none", bis |-> <<>>, open |-> 0,
   stopped |-> FALSE, heard |-> [k \in Bis |-> 0], gap |-> FALSE]

Init ==
  /\ ctl = [c \in Ctl |-> Controller]
  /\ cmds = [c \in Ctl |-> <<>>] /\ evts = [c \in Ctl |-> <<>>]
  /\ next = 1
  /\ source = Broadcaster
  /\ sink = [r \in Receiver |-> BigReceiver]
  /\ did = [starts |-> 0, stops |-> 0, updates |-> 0, sdus |-> 0, leaves |-> 0]

--------------------------------------------------------------------------------
(* The medium.  m: its state while a tick runs; acts: what phase A deferred. *)

Tell(m, c, event) == [m EXCEPT !.evts[c] = Append(@, event)]
Tells(m, news) == [m EXCEPT !.evts = [c \in Ctl |-> @[c] \o news[c]]]
Complete(m, c, op, ok) == Tell(m, c, [type |-> "Complete", op |-> op, ok |-> ok])
Status(m, c, op, ok) == Tell(m, c, [type |-> "Status", op |-> op, ok |-> ok])
Defer(m, c, cmd) == [m EXCEPT !.acts = Append(@, [from |-> c, cmd |-> cmd])]

Handles(m, n) == [k \in 1 .. n |-> m.next + k - 1]

\* Phase A: one command of the host of c.
HandleCommand(m, c, cmd) ==
  CASE cmd.op = "PeriodicData" -> Complete([m EXCEPT !.ctl[c].base = cmd.base], c, cmd.op, TRUE)
    [] cmd.op = "Enable" -> Complete([m EXCEPT !.ctl[c].on = TRUE], c, cmd.op, TRUE)
    [] cmd.op = "PeriodicEnable" -> Complete([m EXCEPT !.ctl[c].train = TRUE], c, cmd.op, TRUE)
    [] cmd.op = "ScanEnable" -> Complete([m EXCEPT !.ctl[c].scanning = cmd.on], c, cmd.op, TRUE)
    [] cmd.op = "CreateSync" -> Status([m EXCEPT !.ctl[c].wanted = TRUE], c, cmd.op, TRUE)
    [] cmd.op = "CreateBig" ->
         IF m.ctl[c].on /\ m.ctl[c].train
         THEN Defer(Status(m, c, cmd.op, TRUE), c, cmd) ELSE Status(m, c, cmd.op, FALSE)
    [] cmd.op = "TerminateBig" ->
         IF m.ctl[c].big # <<>>
         THEN Defer(Status(m, c, cmd.op, TRUE), c, cmd) ELSE Status(m, c, cmd.op, FALSE)
    [] cmd.op = "BigCreateSync" ->
         IF m.ctl[c].sync = cmd.sync /\ cmd.sync # 0
         THEN Defer(Status(m, c, cmd.op, TRUE), c, cmd) ELSE Status(m, c, cmd.op, FALSE)
    [] cmd.op = "BigTerminateSync" ->
         Complete([m EXCEPT !.ctl[c].joined = <<>>], c, cmd.op, m.ctl[c].joined # <<>>)
    [] cmd.op = "Iso" -> Defer(m, c, cmd)
    [] OTHER -> Complete(m, c, cmd.op, TRUE)

Commanded(m, c) == Along(LAMBDA n, cmd : HandleCommand(n, c, cmd), m, cmds[c])

PhaseA(m) == Along(Commanded, m, Order)

\* Phase B2: scanners hear the advertising set.
ExtendedAdvertising(m) ==
  Tells(m, [c \in Ctl |-> IF m.ctl[Src].on /\ m.ctl[c].scanning THEN <<[type |-> "Report"]>> ELSE <<>>])

\* Phase C2: a synchronization that was asked for starts once the train is on air.
Synchronized(m, c) ==
  IF m.ctl[c].wanted /\ m.ctl[Src].train
  THEN Tell([m EXCEPT !.ctl[c].wanted = FALSE, !.ctl[c].sync = m.next, !.next = @ + 1],
            c, [type |-> "SyncEstablished", sync |-> m.next])
  ELSE m

PeriodicSyncRequests(m) == Along(Synchronized, m, Order)

CreateBig(m, c) ==
  Tell([m EXCEPT !.ctl[c].big = Handles(m, NumBis), !.next = @ + NumBis],
       c, [type |-> "BigComplete", bis |-> Handles(m, NumBis)])

\* The BIG goes: its host is told, and every receiver loses it.
TerminateBig(m, c) ==
  LET ended == [m EXCEPT !.ctl = [d \in Ctl |-> [m.ctl[d] EXCEPT !.big = IF d = c THEN <<>> ELSE @, !.joined = <<>>]]]
  IN Tells(Tell(ended, c, [type |-> "BigEnded"]),
           [d \in Ctl |-> IF m.ctl[d].joined # <<>> THEN <<[type |-> "BigLost"]>> ELSE <<>>])

BigCreateSync(m, c, cmd) ==
  LET fails == m.ctl[Src].big = <<>> \/ m.ctl[c].sync # cmd.sync
                 \/ cmd.encrypted # (SrcCode # 0) \/ (SrcCode # 0 /\ cmd.code # SrcCode)
  IN IF fails THEN Tell(m, c, [type |-> "BigSync", ok |-> FALSE, bis |-> <<>>])
     ELSE Tell([m EXCEPT !.ctl[c].joined = Handles(m, NumBis), !.next = @ + NumBis],
               c, [type |-> "BigSync", ok |-> TRUE, bis |-> Handles(m, NumBis)])

\* Stream k of each receiver.
Streamed(m, k, seq) ==
  Tells(m, [c \in Ctl |-> IF m.ctl[c].joined # <<>>
                          THEN <<[type |-> "Iso", handle |-> m.ctl[c].joined[k], seq |-> seq]>> ELSE <<>>])

\* Mutant of BisIso: every stream reaches the receiver's first handle.
BisIsoFirst(m, c, cmd) ==
  IF \E k \in DOMAIN m.ctl[c].big : m.ctl[c].big[k] = cmd.handle THEN Streamed(m, 1, cmd.seq) ELSE m

\* An SDU reaches every receiver of the BIG, on the handle of that stream there.
BisIso(m, c, cmd) ==
  IF \E k \in DOMAIN m.ctl[c].big : m.ctl[c].big[k] = cmd.handle
  THEN Streamed(m, CHOOSE k \in DOMAIN m.ctl[c].big : m.ctl[c].big[k] = cmd.handle, cmd.seq) ELSE m

\* Phase D.
Routed(m, a) ==
  CASE a.cmd.op = "CreateBig" -> CreateBig(m, a.from)
    [] a.cmd.op = "TerminateBig" -> TerminateBig(m, a.from)
    [] a.cmd.op = "BigCreateSync" -> BigCreateSync(m, a.from, a.cmd)
    [] a.cmd.op = "Iso" -> BisIso(m, a.from, a.cmd)

PhaseD(m) == Along(Routed, m, m.acts)

\* Phase D3: whoever is synchronized hears the BASE, and of the BIG if there is one.
PeriodicAdvertising(m) ==
  LET k == m.ctl[Src]
      base(c) == IF k.base = 0 THEN <<>> ELSE <<[type |-> "Periodic", sync |-> m.ctl[c].sync, base |-> k.base]>>
      big(c) == IF k.big = <<>> THEN <<>>
                ELSE <<[type |-> "BigInfo", sync |-> m.ctl[c].sync, encrypted |-> SrcCode # 0]>>
  IN Tells(m, [c \in Ctl |-> IF m.ctl[c].sync # 0 /\ k.train THEN base(c) \o big(c) ELSE <<>>])

Begun == [ctl |-> ctl, evts |-> evts, next |-> next, acts |-> <<>>]

Tick ==
  /\ \A c \in Ctl : Len(evts[c]) <= MaxQueue
  /\ \E a \in {PhaseA(Begun)} : \E b \in {ExtendedAdvertising(a)} : \E c \in {PeriodicSyncRequests(b)} :
       \E d \in {PhaseD(c)} : \E m \in {PeriodicAdvertising(d)} :
         ctl' = m.ctl /\ evts' = m.evts /\ next' = m.next
  /\ cmds' = [c \in Ctl |-> <<>>]
  /\ UNCHANGED <<source, sink, did>>

--------------------------------------------------------------------------------
(* BigBroadcaster. b: the host's state; out: the commands it sends. *)

Plain(op) == [op |-> op]
PeriodicData(b) == [op |-> "PeriodicData", base |-> b.base]

Ladder == <<"Parameters", "Data", "PeriodicParameters", "PeriodicData", "Enable", "PeriodicEnable">>

\* The command that follows rung n.
NextCommand(b, n) ==
  IF n = Len(Ladder) THEN Plain("CreateBig")
  ELSE IF Ladder[n + 1] = "PeriodicData" THEN PeriodicData(b) ELSE Plain(Ladder[n + 1])

OnCommandComplete(b, op) ==
  IF b.update /\ op = "PeriodicData"
  THEN [b |-> [b EXCEPT !.update = FALSE, !.status = TRUE], out |-> <<>>]
  ELSE IF b.state \in Range(Ladder) /\ op = b.state
  THEN LET n == CHOOSE n \in DOMAIN Ladder : Ladder[n] = op
       IN [b |-> [b EXCEPT !.state = IF n = Len(Ladder) THEN "CreatingBig" ELSE Ladder[n + 1]],
           out |-> <<NextCommand(b, n)>>]
  ELSE IF b.state = "OpeningDataPaths" /\ op = "DataPath"
  THEN IF b.open + 1 >= Len(b.bis)
       THEN [b |-> [b EXCEPT !.open = @ + 1, !.state = "Streaming"], out |-> <<>>]
       ELSE [b |-> [b EXCEPT !.open = @ + 1], out |-> <<Plain("DataPath")>>]
  ELSE [b |-> b, out |-> <<>>]

BroadcasterOnPacket(b, e) ==
  CASE e.type = "Complete" -> OnCommandComplete(b, e.op)
    [] e.type = "Status" ->
         [b |-> IF b.state = "CreatingBig" /\ e.op = "CreateBig" /\ ~e.ok
                THEN [b EXCEPT !.state = "Failed"] ELSE b, out |-> <<>>]
    [] e.type = "BigComplete" ->
         IF b.state # "CreatingBig" THEN [b |-> b, out |-> <<>>]
         ELSE [b |-> [b EXCEPT !.state = "OpeningDataPaths", !.bis = e.bis, !.open = 0,
                               !.seq = [k \in Bis |-> 0]], out |-> <<Plain("DataPath")>>]
    [] e.type = "BigEnded" -> [b |-> [b EXCEPT !.state = "Terminated", !.bis = <<>>], out |-> <<>>]
    [] OTHER -> [b |-> b, out |-> <<>>]

Heard(d, e) == LET n == BroadcasterOnPacket(d.b, e) IN [b |-> n.b, out |-> d.out \o n.out]

Drained(b) == Along(Heard, [b |-> b, out |-> <<>>], evts[Src])

\* The callbacks of observe_transitions, as the state they leave the app in.
Created(state) == state \in {"OpeningDataPaths", "Streaming"}

\* Mutant of Observed: an end is reported only after playback.
ObservedPlayback(b) ==
  IF b.last = b.state THEN [b EXCEPT !.status = FALSE]
  ELSE [b EXCEPT !.status = FALSE, !.last = b.state, !.ever = @ \/ (Created(b.state) /\ ~Created(b.last)),
          !.told = IF b.state = "Streaming" THEN "playing"
                   ELSE IF b.state = "Terminated" /\ b.last = "Streaming" THEN "idle"
                   ELSE IF Created(b.state) /\ ~Created(b.last) THEN "started" ELSE @]

Observed(b) ==
  IF b.last = b.state THEN [b EXCEPT !.status = FALSE]
  ELSE [b EXCEPT !.status = FALSE, !.last = b.state, !.ever = @ \/ (Created(b.state) /\ ~Created(b.last)),
          !.told = IF b.state = "Streaming" THEN "playing"
                   ELSE IF b.state \in {"Terminated", "Failed"} THEN "idle"
                   ELSE IF Created(b.state) /\ ~Created(b.last) THEN "started" ELSE @]

\* The script's calls.  A new broadcaster replaces the old one.
Ended(b) == b.state \in {"Idle", "Terminated", "Failed"}

SdusOf(b, k) == [op |-> "Iso", handle |-> b.bis[k], seq |-> b.seq[k] + 1]

ScriptCall(call, b) ==
  CASE call = "start" ->
         [b |-> [Broadcaster EXCEPT !.state = "Parameters", !.base = b.base + 1, !.told = b.told],
          out |-> <<Plain("Parameters")>>]
    [] call = "stop" -> [b |-> b, out |-> <<Plain("TerminateBig")>>]
    [] call = "update" -> [b |-> [b EXCEPT !.base = @ + 1, !.update = TRUE],
                           out |-> <<PeriodicData([b EXCEPT !.base = @ + 1])>>]
    [] OTHER -> [b |-> b, out |-> <<>>]

SendSdu(b, k) ==
  [b |-> [b EXCEPT !.seq[k] = @ + 1, !.inFlight = @ + 1], out |-> <<SdusOf(b, k)>>]

\* The calls a script may make after its events were drained into b.
MayCall(call, b) ==
  CASE call = "start" -> /\ Ended(b) /\ did.starts < MaxStarts
                         /\ RestartUnseen \/ b.last = b.state \/ b.state = "Idle"
    [] call = "stop" -> b.state # "Idle" /\ did.stops < MaxStops
    [] call = "update" -> b.state = "Streaming" /\ did.updates < MaxUpdates
    [] OTHER -> TRUE

\* A turn of the script: events, its own tick, callbacks, and what it queued.
SourceTurn(call) ==
  LET d == Drained(source)
  IN /\ MayCall(call, d.b)
     /\ LET s == ScriptCall(call, d.b)
        IN /\ source' = Observed(s.b)
           /\ cmds' = [cmds EXCEPT ![Src] = @ \o d.out \o s.out]
     /\ evts' = [evts EXCEPT ![Src] = <<>>]
     /\ did' = [did EXCEPT !.starts = @ + (IF call = "start" THEN 1 ELSE 0),
                           !.stops = @ + (IF call = "stop" THEN 1 ELSE 0),
                           !.updates = @ + (IF call = "update" THEN 1 ELSE 0)]
  /\ UNCHANGED <<ctl, next, sink>>

Audio(k) ==
  /\ did.sdus < MaxSdus
  /\ source.state = "Streaming" /\ source.inFlight < Credits
  /\ source' = SendSdu(source, k).b
  /\ cmds' = [cmds EXCEPT ![Src] = @ \o SendSdu(source, k).out]
  /\ did' = [did EXCEPT !.sdus = @ + 1]
  /\ UNCHANGED <<ctl, evts, next, sink>>

--------------------------------------------------------------------------------
(* BigReceiver. *)

\* BIG Create Sync goes out once both halves of the announcement are in.
BigCreateSyncIfReady(r, c) ==
  IF r.state # "WaitingForAnnouncement" \/ r.base = 0 \/ r.info = "none" \/ r.sync = 0
  THEN [r |-> r, out |-> <<>>]
  ELSE IF r.info = "encrypted" /\ Code[c] = 0
  THEN [r |-> [r EXCEPT !.state = "Failed"], out |-> <<>>]
  ELSE [r |-> [r EXCEPT !.state = "SyncingToBig"],
        out |-> <<[op |-> "BigCreateSync", sync |-> r.sync, encrypted |-> r.info = "encrypted", code |-> Code[c]]>>]

\* Mutant of OnPeriodicReport: the first BASE is kept.
OnPeriodicReportOnce(r, c, e) ==
  IF e.sync # r.sync THEN [r |-> r, out |-> <<>>]
  ELSE BigCreateSyncIfReady([r EXCEPT !.base = IF @ = 0 THEN e.base ELSE @], c)

OnPeriodicReport(r, c, e) ==
  IF e.sync # r.sync THEN [r |-> r, out |-> <<>>]
  ELSE BigCreateSyncIfReady([r EXCEPT !.base = e.base], c)

OnBigInfo(r, c, e) ==
  IF e.sync # r.sync THEN [r |-> r, out |-> <<>>]
  ELSE BigCreateSyncIfReady([r EXCEPT !.info = IF e.encrypted THEN "encrypted" ELSE "open"], c)

\* Mutant of OnBigSyncEstablished: the data paths are not asked for.
OnBigSyncEstablishedShut(r, e) ==
  IF r.state # "SyncingToBig" THEN [r |-> r, out |-> <<>>]
  ELSE IF ~e.ok THEN [r |-> [r EXCEPT !.state = "Failed"], out |-> <<>>]
  ELSE [r |-> [r EXCEPT !.state = "OpeningDataPaths", !.bis = e.bis, !.open = 0], out |-> <<>>]

OnBigSyncEstablished(r, e) ==
  IF r.state # "SyncingToBig" THEN [r |-> r, out |-> <<>>]
  ELSE IF ~e.ok THEN [r |-> [r EXCEPT !.state = "Failed"], out |-> <<>>]
  ELSE [r |-> [r EXCEPT !.state = "OpeningDataPaths", !.bis = e.bis, !.open = 0],
        out |-> <<Plain("DataPath")>>]

ReceiverOnComplete(r, e) ==
  IF r.state = "SettingScanParameters" /\ e.op = "ScanParameters"
  THEN [r |-> [r EXCEPT !.state = "Scanning"], out |-> <<[op |-> "ScanEnable", on |-> TRUE]>>]
  ELSE IF r.state = "OpeningDataPaths" /\ e.op = "DataPath"
  THEN IF r.open + 1 >= Len(r.bis)
       THEN [r |-> [r EXCEPT !.open = @ + 1, !.state = "Receiving"], out |-> <<>>]
       ELSE [r |-> [r EXCEPT !.open = @ + 1], out |-> <<Plain("DataPath")>>]
  ELSE IF e.op = "BigTerminateSync" /\ e.ok
  THEN [r |-> [r EXCEPT !.bis = <<>>, !.state = "Terminated"], out |-> <<>>]
  ELSE [r |-> r, out |-> <<>>]

\* Status answers the request under way; a refusal fails the receiver.
ReceiverOnStatus(r, e) ==
  IF ~e.ok /\ \/ r.state = "SyncingToPeriodicAdvertising" /\ e.op = "CreateSync"
              \/ r.state = "SyncingToBig" /\ e.op = "BigCreateSync"
  THEN [r EXCEPT !.state = "Failed"] ELSE r

\* An SDU for a stream this receiver holds; gap records one out of order.
OnIso(r, e) ==
  IF e.handle \notin Range(r.bis) THEN r
  ELSE LET k == CHOOSE k \in DOMAIN r.bis : r.bis[k] = e.handle
       IN [r EXCEPT !.heard[k] = e.seq, !.gap = @ \/ (r.heard[k] # 0 /\ e.seq # r.heard[k] + 1)]

ReceiverOnPacket(r, c, e) ==
  CASE e.type = "Complete" -> ReceiverOnComplete(r, e)
    [] e.type = "Status" -> [r |-> ReceiverOnStatus(r, e), out |-> <<>>]
    [] e.type = "Report" ->
         IF r.state # "Scanning" THEN [r |-> r, out |-> <<>>]
         ELSE [r |-> [r EXCEPT !.state = "SyncingToPeriodicAdvertising"], out |-> <<Plain("CreateSync")>>]
    [] e.type = "SyncEstablished" ->
         IF r.state # "SyncingToPeriodicAdvertising" THEN [r |-> r, out |-> <<>>]
         ELSE [r |-> [r EXCEPT !.state = "WaitingForAnnouncement", !.sync = e.sync], out |-> <<>>]
    [] e.type = "Periodic" -> OnPeriodicReport(r, c, e)
    [] e.type = "BigInfo" -> OnBigInfo(r, c, e)
    [] e.type = "BigSync" -> OnBigSyncEstablished(r, e)
    [] e.type = "BigLost" -> [r |-> [r EXCEPT !.bis = <<>>, !.state = "Lost"], out |-> <<>>]
    [] e.type = "Iso" -> [r |-> OnIso(r, e), out |-> <<>>]
    [] OTHER -> [r |-> r, out |-> <<>>]

Received(d, c, e) == LET n == ReceiverOnPacket(d.r, c, e) IN [r |-> n.r, out |-> d.out \o n.out]

\* Scanning stops once the BIG is joined.
StopScanning(d) ==
  IF d.r.state = "Receiving" /\ ~d.r.stopped
  THEN [r |-> [d.r EXCEPT !.stopped = TRUE], out |-> Append(d.out, [op |-> "ScanEnable", on |-> FALSE])]
  ELSE d

Turned(c) == Along(LAMBDA d, e : Received(d, c, e), [r |-> sink[c], out |-> <<>>], evts[c])

ReceiverTurn(c) ==
  /\ evts[c] # <<>>
  /\ LET d == StopScanning(Turned(c))
     IN /\ sink' = [sink EXCEPT ![c] = d.r]
        /\ cmds' = [cmds EXCEPT ![c] = @ \o d.out]
  /\ evts' = [evts EXCEPT ![c] = <<>>]
  /\ UNCHANGED <<ctl, next, source, did>>

ReceiverStart(c) ==
  /\ sink[c].state = "Idle"
  /\ sink' = [sink EXCEPT ![c].state = "SettingScanParameters"]
  /\ cmds' = [cmds EXCEPT ![c] = Append(@, Plain("ScanParameters"))]
  /\ UNCHANGED <<ctl, evts, next, source, did>>

Leave(c) ==
  /\ did.leaves < MaxLeaves
  /\ cmds' = [cmds EXCEPT ![c] = Append(@, Plain("BigTerminateSync"))]
  /\ did' = [did EXCEPT !.leaves = @ + 1]
  /\ UNCHANGED <<ctl, evts, next, source, sink>>

--------------------------------------------------------------------------------
Calls == {"start", "stop", "update", "nothing"}

Next ==
  \/ Tick
  \/ \E call \in Calls : SourceTurn(call)
  \/ \E k \in Bis : Audio(k)
  \/ \E c \in Receiver : ReceiverTurn(c) \/ ReceiverStart(c) \/ Leave(c)

\* The medium ticks and every host is pumped; what users do is up to them.
Fairness ==
  /\ WF_vars(Tick) /\ WF_vars(SourceTurn("nothing"))
  /\ \A c \in Receiver : WF_vars(ReceiverTurn(c)) /\ WF_vars(ReceiverStart(c))

Spec == Init /\ [][Next]_vars
FairSpec == Spec /\ Fairness

--------------------------------------------------------------------------------
Quiet(c) == cmds[c] = <<>> /\ evts[c] = <<>>

\* A receiver holds streams exactly as long as its controller is joined to the BIG
\* of a source that has one: leaving, losing and joining keep the two together; and
\* its BASE is the source's, also after that was published anew.
ReceiversTold ==
  \A c \in Receiver :
    /\ ctl[c].joined # <<>> => ctl[Src].big # <<>>
    /\ Quiet(c) =>
         /\ sink[c].bis = ctl[c].joined
         /\ sink[c].state = "Receiving" => sink[c].bis # <<>>
         /\ sink[c].base \in {0, ctl[Src].base}

\* What the script was told by callbacks is what its broadcast is.
AppInformed ==
  source.told = CASE source.state = "Streaming" -> "playing"
                  [] source.state = "OpeningDataPaths" -> "started"
                  [] OTHER -> "idle"

\* The SDUs of a stream arrive on that stream, in order and without a hole.
DeliveredInOrder == \A c \in Receiver : ~sink[c].gap

\* A receiver of a broadcast that stays up joins it, or says that it could not.
Joins ==
  \A c \in Receiver :
    <>[](source.state = "Streaming")
      => <>(sink[c].state \in {"Receiving", "Failed", "Lost", "Terminated"})

\* A stream that is up can take another SDU, again and again.
StreamFlows == <>[](source.state = "Streaming") => []<>(source.inFlight < Credits)
================================================================================
