---------------------------- MODULE BulkTransfer ----------------------------
(***************************************************************************)
(* A timed transfer of bytes to a GATT sink: BulkCentral and BulkSink      *)
(* (device/throughput.rs).  The central connects, discovers, subscribes to *)
(* the control point, says BEGIN, hands over chunks as its controller has  *)
(* buffers for them, says FINISH and waits for the sink's count; a         *)
(* watchdog ends a run that stalls.  A controller holds the fragments of a *)
(* PDU until they are on the air and reports them completed some time      *)
(* later.  Sizes are in octets as in the code, contents are left out, and  *)
(* so are the requests for a faster link, on which nothing here depends.   *)
(***************************************************************************)
EXTENDS Naturals, Sequences, SequencesExt, FiniteSetsExt

CONSTANTS
  Cases,     \* runs: [total, mtu, buffers, size, shared, reports, control, useControl, withResponse, window]
  Timeout    \* bound: watchdog turns without progress

VARIABLES
  case,      \* the run
  link,      \* the phase of LeCentral
  r,         \* the state of BulkCentral and the queue of its LeCentral
  held,      \* fragments in the central's controller
  done,      \* fragments on the air that are not reported completed
  toCentral, \* packets for the central's host
  sink,      \* SinkShared
  overran    \* the largest number of fragments the controller had to hold

vars == <<case, link, r, held, done, toCentral, sink, overran>>

Smaller(a, b) == IF a < b THEN a ELSE b
Larger(a, b) == IF a < b THEN b ELSE a
Less(a, b) == IF a < b THEN 0 ELSE a - b
Ceil(a, b) == (a + b - 1) \div b

L2capHeader == 4
AttWriteOverhead == 3
LeAclDataLen == 27

NewRunner ==
  [phase |-> "Idle", step |-> "Subscribing", sent |-> 0, chunks |-> 0, chunk |-> 0, mtu |-> 23,
   asksShared |-> FALSE, total |-> 0, size |-> 0, outstanding |-> 0, heard |-> FALSE, connected |-> FALSE,
   peer |-> <<>>, control |-> FALSE, failure |-> FALSE, waited |-> 0, ops |-> <<>>, inFlight |-> FALSE]

Init ==
  /\ case \in Cases
  /\ link = "Idle" /\ r = NewRunner
  /\ held = <<>> /\ done = 0 /\ toCentral = <<>>
  /\ sink = [bytes |-> 0, chunks |-> 0, expected |-> 0, due |-> FALSE]
  /\ overran = 0

--------------------------------------------------------------------------------
Progress(c) == [c EXCEPT !.waited = 0]
Fail(c) == IF c.failure THEN c ELSE [c EXCEPT !.failure = TRUE, !.phase = "Failed", !.step = "Done"]
IsFinished(c) == c.phase \in {"Complete", "Failed"}
IsIdle(c) == c.ops = <<>> /\ ~c.inFlight

\* acl_data_len: the length of an LE fragment; 0 stands for a length nobody reported.
AclDataLen(c) == Larger(c.size, LeAclDataLen)

\* writable_chunk: the write is sized to the pool, one buffer spared; 0 stands for a pool nobody reported.
WritableChunk(c, mtu) ==
  LET byMtu == Larger(Less(mtu, AttWriteOverhead), 1)
      usable == Larger(Less(c.total, 1), 1) * AclDataLen(c)
      byPool == Larger(Less(usable, L2capHeader + AttWriteOverhead), 1)
  IN IF c.total = 0 THEN byMtu ELSE Smaller(byMtu, byPool)

Fragments(c, len) == Ceil(L2capHeader + AttWriteOverhead + len, AclDataLen(c))

\* budget_chunks: real flow control where the controller reports its buffers.
BudgetChunks(c) ==
  LET chunks == Less(c.total, c.outstanding) \div Larger(Fragments(c, c.chunk), 1)
  IN IF c.total > 0 THEN IF chunks = 0 /\ c.outstanding = 0 THEN 1 ELSE chunks
     ELSE case.window

--------------------------------------------------------------------------------
Op(op, len, waits) == [op |-> op, len |-> len, waits |-> waits]
Queue(c, op, len, waits) == [c EXCEPT !.ops = Append(@, Op(op, len, waits))]

EnterTransfer(c) == Progress([c EXCEPT !.phase = "Transferring", !.step = "Streaming"])

\* begin_subscribing: a peer without the control point is written to and never asked.
BeginSubscribing(c) ==
  LET d == [c EXCEPT !.mtu = case.mtu, !.chunk = WritableChunk(c, case.mtu)]
  IN IF ~case.data THEN Fail(c)
     ELSE IF case.useControl /\ case.control
     THEN Progress([Queue(d, "subscribe", 2, TRUE) EXCEPT !.control = TRUE, !.step = "Beginning"])
     ELSE EnterTransfer(d)

\* stream: once the ATT queue has drained, as many chunks as there is room for.
Stream(c) ==
  LET left == case.total - c.sent
      n == Smaller(Ceil(left, c.chunk), BudgetChunks(c))
      len(i) == Smaller(c.chunk, left - (i - 1) * c.chunk)
      chunk(i) == Op("data", len(i), case.withResponse)
      moved == Smaller(left, n * c.chunk)
      d == [c EXCEPT !.ops = @ \o [i \in 1 .. n |-> chunk(i)], !.sent = @ + moved, !.chunks = @ + n,
                     !.waited = IF n > 0 THEN 0 ELSE @]
  IN IF c.chunk = 0 \/ ~IsIdle(c) THEN c
     ELSE IF d.sent < case.total THEN d
     ELSE Progress(IF c.control THEN [Queue(d, "finish", 1, TRUE) EXCEPT !.step = "Finishing"]
                   ELSE [d EXCEPT !.step = "Finishing"])

\* drive.
Drive(c, l) ==
  IF l # "Ready" \/ c.phase \notin {"Negotiating", "Transferring"} THEN c
  ELSE CASE c.step = "Subscribing" -> BeginSubscribing(c)
         [] c.step = "Streaming" -> Stream(c)
         [] OTHER -> c

\* advance_phase: what LeCentral's phase means for the run.
AdvancePhase(c, l) ==
  CASE l \in {"Idle", "Scanning"} -> c
    [] l = "Connecting" -> IF c.heard THEN c ELSE Progress([c EXCEPT !.heard = TRUE, !.phase = "Connecting"])
    [] l = "Discovering" ->
         LET d == [c EXCEPT !.heard = TRUE]
         IN IF c.connected THEN d ELSE Progress([d EXCEPT !.connected = TRUE, !.phase = "Negotiating"])
    [] l = "Ready" -> [c EXCEPT !.heard = TRUE, !.connected = TRUE,
                               !.phase = IF @ = "Connecting" THEN "Negotiating" ELSE @]
    [] l = "Disconnected" -> IF c.phase # "Complete" THEN Fail(c) ELSE c

\* pump: operations in order, up to the first that waits for an answer.
Pump(c, l) ==
  LET waiting == {i \in DOMAIN c.ops : c.ops[i].waits}
      n == IF waiting = {} THEN Len(c.ops) ELSE Min(waiting)
  IN IF l # "Ready" \/ c.inFlight THEN [r |-> c, out |-> <<>>]
     ELSE [r |-> [c EXCEPT !.ops = SubSeq(@, n + 1, Len(@)), !.inFlight = waiting # {}], out |-> SubSeq(c.ops, 1, n)]

\* Fragments of a PDU, the last one marked.
FragmentsOf(c, op) == LET n == Fragments(c, op.len) IN [i \in 1 .. n |-> [op |-> op, last |-> i = n]]
AllFragments(c, out) == FlattenSeq([i \in DOMAIN out |-> FragmentsOf(c, out[i])])
\* Mutant of Charge: a packet counts once, however many fragments it makes.
ChargeOnce(c, n) == IF c.total = 0 THEN c ELSE [c EXCEPT !.outstanding = @ + Smaller(n, 1)]

\* charge: nothing is counted before the controller has said how many buffers it has.
Charge(c, n) == IF c.total = 0 THEN c ELSE [c EXCEPT !.outstanding = @ + n]

\* watchdog, before what this step hands over is charged.
Watchdog(c) ==
  LET d == IF c.waited > Timeout THEN Fail(c) ELSE c
  IN IF IsFinished(c) \/ c.failure THEN c
     ELSE IF ~d.control /\ d.step = "Finishing" /\ IsIdle(d) /\ d.outstanding = 0
     THEN [d EXCEPT !.step = "Done", !.phase = "Complete"]
     ELSE d

\* step.
Step(c, l) ==
  LET a == AdvancePhase(c, l)
      d == Drive([a EXCEPT !.asksShared = FALSE], l)
      p == Pump(d, l)
      out == AllFragments(c, p.out)
  IN IF c.phase \in {"Idle", "Complete"} \/ c.failure THEN [r |-> c, out |-> <<>>, asks |-> FALSE]
     ELSE [r |-> Charge(Watchdog(p.r), Len(out)), out |-> out, asks |-> a.asksShared]

--------------------------------------------------------------------------------
\* observe_controller: buffer counts and completions, before anyone else sees the packet.
Observe(c, m) ==
  CASE m.t = "buffers" -> IF m.total > 0 THEN [c EXCEPT !.total = m.total, !.size = IF m.size > 0 THEN m.size ELSE @]
                          ELSE [c EXCEPT !.asksShared = m.ok]
    [] m.t = "sharedBuffers" -> IF m.total > 0 THEN [c EXCEPT !.total = m.total] ELSE c
    [] m.t = "completed" -> [c EXCEPT !.outstanding = Less(@, m.n)]
    [] OTHER -> c

\* on_peer_report: the count decides nothing, and a run that failed is completed by it.
OnPeerReport(c, m) == [c EXCEPT !.peer = <<m.bytes>>, !.step = "Done", !.phase = "Complete", !.waited = 0]

\* drain_events.
DrainEvents(c, m) ==
  CASE m.t = "lost" -> IF c.phase # "Complete" THEN Fail(c) ELSE c
    [] m.t \in {"mtu", "services"} -> Progress(c)
    [] m.t = "answer" /\ m.op = "subscribe" -> IF m.ok THEN Queue(c, "begin", 5, TRUE) ELSE Fail(c)
    [] m.t = "answer" /\ m.op \in {"begin", "finish"} -> IF ~m.ok THEN Fail(c)
                                                        ELSE IF c.step = "Beginning" THEN EnterTransfer(c) ELSE c
    [] m.t = "report" -> OnPeerReport(c, m)
    [] OTHER -> c

\* LeCentral::on_packet: its phase, and the operation an answer ends.
LinkAfter(m) ==
  CASE m.t = "advertised" -> IF link = "Scanning" THEN "Connecting" ELSE link
    [] m.t = "connected" -> "Discovering"
    [] m.t = "services" -> "Ready"
    [] m.t = "lost" -> "Disconnected"
    [] OTHER -> link
Completed(c, m) == IF m.t \in {"answer", "lost"} THEN [c EXCEPT !.inFlight = FALSE] ELSE c

\* Whether the controllers have the link: the host hears of its loss later.
Up == link \in {"Discovering", "Ready"} /\ ~\E i \in DOMAIN toCentral : toCentral[i].t = "lost"

\* What the central's host hands to its controller, which discards it when the link is gone.
Hand(fragments) ==
  /\ held' = IF Up THEN held \o fragments ELSE held
  /\ overran' = IF Up THEN Larger(overran, Len(held) + Len(fragments)) ELSE overran

SharedAnswer(asks) == IF asks THEN <<[t |-> "sharedBuffers", total |-> case.shared]>> ELSE <<>>

\* on_packet, and the step that ends it.
CentralReceives ==
  /\ toCentral # <<>>
  /\ LET m == Head(toCentral)
         l == LinkAfter(m)
         p == Pump(Completed(Observe(r, m), m), l)
         first == AllFragments(p.r, p.out)
         s == Step(DrainEvents(Charge(p.r, Len(first)), m), l)
     IN /\ link' = l
        /\ r' = s.r
        /\ Hand(first \o s.out)
        /\ toCentral' = Tail(toCentral) \o SharedAnswer(s.asks)
  /\ UNCHANGED <<case, done, sink>>

\* start.
Start ==
  /\ r.phase = "Idle"
  /\ r' = [r EXCEPT !.phase = "Discovering", !.waited = 0]
  /\ link' = "Scanning"
  /\ toCentral' = <<[t |-> "buffers", ok |-> case.reports, total |-> case.buffers, size |-> case.size]>>
  /\ UNCHANGED <<case, held, done, sink, overran>>

\* A turn of the loop that owns the central, with no packet for it.
Turn ==
  /\ r.phase \notin {"Idle", "Complete"} /\ ~r.failure
  /\ LET s == Step([r EXCEPT !.waited = Smaller(@ + 1, Timeout + 1)], link)
     IN /\ r' = s.r /\ Hand(s.out)
        /\ toCentral' = toCentral \o SharedAnswer(s.asks)
  /\ UNCHANGED <<case, link, done, sink>>

--------------------------------------------------------------------------------
\* The peer is heard, connects, and answers the MTU exchange and the discovery.
PeerShowsUp ==
  /\ toCentral = <<>>
  /\ \/ link = "Scanning" /\ toCentral' = <<[t |-> "advertised"]>>
     \/ link = "Connecting" /\ toCentral' = <<[t |-> "connected"]>>
     \/ link = "Discovering" /\ toCentral' = <<[t |-> "mtu"], [t |-> "services"]>>
  /\ UNCHANGED <<case, link, r, held, done, sink, overran>>

\* DataHandler and ControlHandler: what a write does to SinkShared.
Written(s, op) ==
  CASE op.op = "data" -> [s EXCEPT !.bytes = @ + op.len, !.chunks = @ + 1]
    [] op.op = "begin" -> [bytes |-> 0, chunks |-> 0, expected |-> case.total, due |-> FALSE]
    [] op.op = "finish" -> [s EXCEPT !.due = TRUE]
    [] OTHER -> s

\* The controller puts a fragment on the air; a PDU is the sink's once it is whole.
OnAir ==
  /\ held # <<>>
  /\ LET f == Head(held)
     IN /\ sink' = IF f.last THEN Written(sink, f.op) ELSE sink
        /\ toCentral' = IF f.last /\ f.op.waits THEN Append(toCentral, [t |-> "answer", op |-> f.op.op, ok |-> case.accepts]) ELSE toCentral
  /\ held' = Tail(held) /\ done' = done + 1
  /\ UNCHANGED <<case, link, r, overran>>

\* Number Of Completed Packets.
ReportCompleted ==
  /\ done > 0
  /\ done' = 0
  /\ toCentral' = Append(toCentral, [t |-> "completed", n |-> done])
  /\ UNCHANGED <<case, link, r, held, sink, overran>>

\* BulkSink::poll: a report without a connection is dropped.
SinkPoll ==
  /\ sink.due
  /\ sink' = [sink EXCEPT !.due = FALSE]
  /\ toCentral' = IF Up THEN Append(toCentral, [t |-> "report", bytes |-> sink.bytes]) ELSE toCentral
  /\ UNCHANGED <<case, link, r, held, done, overran>>

\* The link goes, and with it what the controller holds.
LinkLost ==
  /\ case.loses /\ Up
  /\ held' = <<>> /\ done' = 0
  /\ toCentral' = Append(toCentral, [t |-> "lost"])
  /\ UNCHANGED <<case, link, r, sink, overran>>

Next ==
  \/ Start \/ Turn \/ CentralReceives
  \/ PeerShowsUp \/ OnAir \/ ReportCompleted \/ SinkPoll \/ LinkLost

Spec == Init /\ [][Next]_vars

--------------------------------------------------------------------------------
\* Chunks never overrun the controller's buffers, however late it reports them free; only FINISH
\* may be handed over beyond them (budget_chunks, writable_chunk).
BuffersKept == r.total > 0 => overran <= r.total + 1

\* A report is complete: every byte was handed over before the sink was asked, and its count is what
\* was sent (stream, on_peer_report); one that came back after BEGIN, not of an earlier run.
ReportsWhole == r.peer # <<>> => r.sent = case.total /\ r.peer = <<case.total>>

\* Nothing is counted as outstanding that the controller has not, or will not report.
OutstandingReal ==
  r.total > 0 /\ link = "Ready" /\ r.outstanding > 0 =>
    r.outstanding <= Len(held) + done + FoldLeft(LAMBDA a, m : IF m.t = "completed" THEN a + m.n ELSE a, 0, toCentral)
      \/ \E i \in DOMAIN toCentral : toCentral[i].t = "lost"
================================================================================
