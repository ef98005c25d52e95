-------------------------------- MODULE LeAudio --------------------------------
(***************************************************************************)
(* Unicast LE Audio.  The sink serves stream endpoints (ASEs) through a    *)
(* control point (AudioStreamControlService); the source configures and    *)
(* enables one of them over ATT and then opens an isochronous stream with  *)
(* its controller (WebSource, AseConfig, CisCentral), queueing audio until *)
(* the stream runs.  Another client may write the control point too, and   *)
(* streams and links get lost.                                             *)
(***************************************************************************)
EXTENDS Naturals, Sequences, SequencesExt

CONSTANTS
  Roles,      \* of the endpoints, by ASE_ID: "Sink" or "Source"
  Room,       \* SDUs kept while the stream is not running
  MaxSdus,    \* SDUs the application sends
  MaxWrites,  \* control point writes of the other client
  MaxFaults   \* streams and links that get lost

VARIABLES
  ase,     \* the endpoints: state, codec configuration, stream and metadata
  shown,   \* their characteristics
  answer,  \* the control point's notification: a result for each endpoint named
  src,     \* the source
  writes,  \* control point writes its central has still to make
  hci,     \* commands on their way to the controller
  events,  \* events on their way to the source
  stream,  \* the stream at the controller: "none", "asked", "up", and its data path
  sent,    \* SDUs on the air, in order
  budget   \* SDUs, writes and faults so far

vars == <<ase, shown, answer, src, writes, hci, events, stream, sent, budget>>

Ases == 1 .. Len(Roles)
None == 0

--------------------------------------------------------------------------------
\* An endpoint: a configuration and a stream are identified by numbers.
NewAse == [state |-> "Idle", codec |-> None, qos |-> None, meta |-> None]

\* The states an operation starts from.
From ==
  [config_codec |-> {"Idle", "CodecConfigured", "QosConfigured"}, config_qos |-> {"CodecConfigured", "QosConfigured"},
   enable |-> {"QosConfigured"}, start_ready |-> {"Enabling"}, disable |-> {"Enabling", "Streaming"},
   stop_ready |-> {"Disabling"}, update_metadata |-> {"Enabling", "Streaming"},
   release |-> {"CodecConfigured", "QosConfigured", "Enabling", "Streaming", "Disabling"}]

\* on_config_codec ... on_release: what it makes of an endpoint in such a state.
Moved(a, role, op, arg) ==
  CASE op = "config_codec" -> [a EXCEPT !.state = "CodecConfigured", !.codec = arg]
    [] op = "config_qos" -> [a EXCEPT !.state = "QosConfigured", !.qos = arg]
    [] op = "enable" -> [a EXCEPT !.state = "Enabling", !.meta = arg]
    [] op = "start_ready" -> [a EXCEPT !.state = "Streaming"]
    [] op = "disable" -> [a EXCEPT !.state = IF role = "Sink" THEN "QosConfigured" ELSE "Disabling"]
    [] op = "stop_ready" -> [a EXCEPT !.state = "QosConfigured"]
    [] op = "update_metadata" -> [a EXCEPT !.meta = arg]
    [] op = "release" -> [a EXCEPT !.state = "Releasing"]
Takes(a, role, op) == a.state \in From[op] /\ (op = "stop_ready" => role = "Source")

\* on_released, on_cis_loss, on_acl_loss: those that move, and where.
Released(a, cache) ==
  IF a.state # "Releasing" THEN a
  ELSE IF cache THEN [NewAse EXCEPT !.state = "CodecConfigured", !.codec = a.codec] ELSE NewAse
CisLost(a, q) ==
  IF a.qos = q /\ a.state \in {"Enabling", "Streaming", "Disabling"} THEN [a EXCEPT !.state = "QosConfigured"] ELSE a
AclLost(a) == IF a.state \in {"Idle", "Releasing"} THEN a ELSE [a EXCEPT !.state = "Releasing"]

\* to_bytes: each state shows a part of the endpoint.
View(a) ==
  [state |-> a.state,
   codec |-> IF a.state = "CodecConfigured" THEN a.codec ELSE None,
   qos |-> IF a.state \in {"QosConfigured", "Enabling", "Streaming", "Disabling"} THEN a.qos ELSE None,
   meta |-> IF a.state \in {"Enabling", "Streaming", "Disabling"} THEN a.meta ELSE None]

\* Mutant of Publish: only the first endpoint named.
PublishOne(as, which) == [i \in Ases |-> IF i \in which /\ \A j \in which : i <= j THEN View(as[i]) ELSE shown[i]]
\* publish: set_value of each characteristic named.
Publish(as, which) == [i \in Ases |-> IF i \in which THEN View(as[i]) ELSE shown[i]]

\* One entry of a control point write: an unknown ASE_ID, a state that does not allow
\* it, or the endpoint moves (dispatch).
Entry(acc, op, e) ==
  IF e.id \notin Ases THEN [acc EXCEPT !.results = Append(@, <<e.id, "invalid_id">>)]
  ELSE IF ~Takes(acc.ase[e.id], Roles[e.id], op) THEN [acc EXCEPT !.results = Append(@, <<e.id, "invalid_transition">>)]
  ELSE [ase |-> [acc.ase EXCEPT ![e.id] = Moved(@, Roles[e.id], op, e.arg)], results |-> Append(acc.results, <<e.id, "success">>)]

\* apply_control_point: the entries in order, up to one that is cut short, each on
\* the state the one before left; then those that succeeded are published.
ApplyControlPoint(w) ==
  LET known == w.op \in DOMAIN From
      done == FoldLeft(LAMBDA acc, e : Entry(acc, w.op, e), [ase |-> ase, results |-> <<>>], w.entries)
      results == IF ~known THEN <<<<0, "unsupported">>>>
                 ELSE IF w.cut THEN Append(done.results, <<0, "invalid_length">>) ELSE done.results
  IN /\ ase' = IF known THEN done.ase ELSE ase
     /\ answer' = [op |-> w.op, results |-> results]
     /\ shown' = Publish(ase', {i \in Ases : known /\ \E k \in 1 .. Len(results) : results[k] = <<i, "success">>})

--------------------------------------------------------------------------------
\* WebSource::new.
NewSource ==
  [ready |-> FALSE, found |-> FALSE, asked |-> FALSE, opened |-> FALSE, cis |-> "Idle", pending |-> <<>>, dropped |-> 0,
   failed |-> FALSE]

Init ==
  /\ ase = [i \in Ases |-> NewAse] /\ shown = [i \in Ases |-> View(NewAse)]
  /\ answer = [op |-> "none", results |-> <<>>]
  /\ src = NewSource
  /\ writes = <<>> /\ hci = <<>> /\ events = <<>>
  /\ stream = [state |-> "none", path |-> FALSE]
  /\ sent = <<>>
  /\ budget = [sdus |-> 0, writes |-> 0, faults |-> 0]

SinkIdle == UNCHANGED <<ase, shown, answer>>

\* The central has connected and discovered the sink (a control point or not).
Ready ==
  /\ ~src.ready
  /\ \E found \in BOOLEAN : src' = [src EXCEPT !.ready = TRUE, !.found = found]
  /\ SinkIdle /\ UNCHANGED <<writes, hci, events, stream, sent, budget>>

\* AseConfig: the three operations on the first endpoint, with stream 1.
Write(op, id, arg) == [op |-> op, entries |-> <<[id |-> id, arg |-> arg]>>, cut |-> FALSE]
Configure == <<Write("config_codec", 1, 1), Write("config_qos", 1, 1), Write("enable", 1, 1)>>

\* on_packet of CisCentral: each event is taken in one state only; what it sends next.
OnEvent(c, e) ==
  CASE c = "ConfiguringGroup" /\ e.t = "cig" -> IF e.ok THEN <<"Connecting", <<"create_cis">>>> ELSE <<"Failed", <<>>>>
    [] c = "Connecting" /\ e.t = "cis" -> IF e.ok THEN <<"OpeningDataPath", <<"data_path">>>> ELSE <<"Failed", <<>>>>
    [] c = "OpeningDataPath" /\ e.t = "path" -> <<"Streaming", <<>>>>
    [] OTHER -> <<c, <<>>>>

\* advance_stream: ask for the endpoint once, if there is a control point, and for the stream once everything written was answered.
MayAsk(s) == s.ready /\ ~s.asked
MayOpen(s) == s.ready /\ s.asked /\ ~s.opened /\ ~s.failed /\ writes = <<>>

\* start of CisCentral: the group is configured first.
StartCis == <<"set_cig">>

\* tick of the source: the events that arrived, advance_stream, then the audio that waits.
Tick ==
  LET heard == IF events = <<>> THEN <<src.cis, <<>>>> ELSE OnEvent(src.cis, Head(events))
      asks == MayAsk(src)
      opens == MayOpen(src)
      cis == IF opens THEN "ConfiguringGroup" ELSE heard[1]
      drains == cis = "Streaming"
  IN /\ events # <<>> \/ asks \/ opens
     /\ events' = IF events = <<>> THEN events ELSE Tail(events)
     /\ hci' = hci \o heard[2] \o (IF opens THEN StartCis ELSE <<>>)
     /\ writes' = IF asks /\ src.found THEN writes \o Configure ELSE writes
     /\ src' = [src EXCEPT !.cis = cis, !.asked = @ \/ asks, !.opened = @ \/ opens,
                            !.failed = @ \/ (asks /\ ~src.found), !.pending = IF drains THEN <<>> ELSE @]
     /\ sent' = IF drains THEN sent \o src.pending ELSE sent
     /\ SinkIdle /\ UNCHANGED <<stream, budget>>

\* Mutant of SendAudio: a full queue refuses the new SDU.
SendAudioNewest ==
  LET n == budget.sdus + 1 streaming == src.cis = "Streaming" IN
  /\ n <= MaxSdus /\ budget' = [budget EXCEPT !.sdus = n]
  /\ sent' = IF streaming THEN Append(sent, n) ELSE sent
  /\ src' = IF streaming THEN src
            ELSE IF Len(src.pending) < Room THEN [src EXCEPT !.pending = Append(@, n)]
            ELSE [src EXCEPT !.dropped = @ + 1]
  /\ SinkIdle /\ UNCHANGED <<writes, hci, events, stream>>

\* send_audio: straight to the stream, or to the queue, whose oldest SDU makes room.
SendAudio ==
  LET n == budget.sdus + 1
      queue == Append(src.pending, n)
      over == Len(queue) > Room
      streaming == src.cis = "Streaming"
  IN /\ n <= MaxSdus /\ budget' = [budget EXCEPT !.sdus = n]
     /\ sent' = IF streaming THEN Append(sent, n) ELSE sent
     /\ src' = IF streaming THEN src
               ELSE [src EXCEPT !.pending = IF over THEN Tail(queue) ELSE queue, !.dropped = IF over THEN @ + 1 ELSE @]
     /\ SinkIdle /\ UNCHANGED <<writes, hci, events, stream>>

\* The sink takes the next write of the source's central.
SinkWrite ==
  /\ writes # <<>> /\ writes' = Tail(writes) /\ ApplyControlPoint(Head(writes))
  /\ UNCHANGED <<src, hci, events, stream, sent, budget>>

\* Another client writes the control point.
OtherWrite ==
  /\ budget.writes < MaxWrites /\ budget' = [budget EXCEPT !.writes = @ + 1]
  /\ \E op \in DOMAIN From \cup {"unknown"}, ids \in {<<1>>, <<2>>, <<1, 2>>, <<2, 9>>, <<>>}, cut \in BOOLEAN :
       ApplyControlPoint([op |-> op, cut |-> cut, entries |-> [k \in 1 .. Len(ids) |-> [id |-> ids[k], arg |-> 2]]])
  /\ UNCHANGED <<src, writes, hci, events, stream, sent>>

\* released: the streams are gone, endpoints under release become idle or keep their codec.
ReleaseDone ==
  /\ \E i \in Ases : ase[i].state = "Releasing"
  /\ \E cache \in BOOLEAN : ase' = [i \in Ases |-> Released(ase[i], cache)]
  /\ shown' = Publish(ase', {i \in Ases : ase[i] # ase'[i]})
  /\ UNCHANGED <<answer, src, writes, hci, events, stream, sent, budget>>

\* The source's controller: it configures the group, opens the stream and its path, or refuses.
Answer(t, ok) == events' = Append(events, [t |-> t, ok |-> ok])
Controller ==
  /\ hci # <<>> /\ hci' = Tail(hci)
  /\ \E ok \in BOOLEAN :
       CASE Head(hci) = "set_cig" -> Answer("cig", ok) /\ UNCHANGED stream
         [] Head(hci) = "create_cis" -> Answer("cis", ok) /\ stream' = [stream EXCEPT !.state = IF ok THEN "up" ELSE "none"]
         [] Head(hci) = "data_path" -> Answer("path", TRUE) /\ stream' = [stream EXCEPT !.path = TRUE]
  /\ SinkIdle /\ UNCHANGED <<src, writes, sent, budget>>

Fault == budget.faults < MaxFaults /\ budget' = [budget EXCEPT !.faults = @ + 1]
\* The stream is lost; the sink's endpoints on it go back (on_cis_loss).
LoseStream ==
  /\ Fault /\ stream.state = "up" /\ stream' = [state |-> "none", path |-> FALSE]
  /\ ase' = [i \in Ases |-> CisLost(ase[i], 1)]
  /\ shown' = Publish(ase', {i \in Ases : ase[i] # ase'[i]})
  /\ UNCHANGED <<answer, src, writes, hci, events, sent>>
\* The link is lost, and the stream with it (on_acl_loss); the central starts again.
LoseLink ==
  /\ Fault /\ src.ready
  /\ src' = [src EXCEPT !.ready = FALSE] /\ writes' = <<>>
  /\ stream' = [state |-> "none", path |-> FALSE]
  /\ ase' = [i \in Ases |-> AclLost(ase[i])]
  /\ shown' = Publish(ase', {i \in Ases : ase[i] # ase'[i]})
  /\ UNCHANGED <<answer, hci, events, sent>>

Next ==
  Ready \/ Tick \/ SendAudio \/ SinkWrite \/ OtherWrite \/ ReleaseDone \/ Controller \/ LoseStream \/ LoseLink

Spec == Init /\ [][Next]_vars

--------------------------------------------------------------------------------
\* What the characteristics show is what the endpoints are, whoever moved them: a
\* command naming several of them, a lost stream or link, a release (publish).
\* An endpoint past configuration has a codec and a stream, and only one that sends
\* audio is disabled in two steps.
EndpointsShown ==
  /\ \A i \in Ases : shown[i] = View(ase[i])
  /\ \A i \in Ases : ase[i].state \in {"QosConfigured", "Enabling", "Streaming", "Disabling"} => ase[i].codec # None /\ ase[i].qos # None
  /\ \A i \in Ases : ase[i].state = "Disabling" => Roles[i] = "Source"

\* While nothing was lost and nobody else interfered: a source that streams has its
\* stream and data path, and the endpoint it enabled expects that stream.
StreamReady ==
  src.cis = "Streaming" /\ budget.faults = 0 =>
    /\ stream = [state |-> "up", path |-> TRUE]
    /\ budget.writes = 0 => ase[1].state = "Enabling" /\ ase[1].qos = 1

\* Audio goes out in the order the application sent it, without gaps once the first
\* SDU is out: what could not be kept was dropped from the old end (send_audio,
\* drain_audio).
AudioInOrder ==
  /\ \A k \in 2 .. Len(sent) : sent[k] = sent[k - 1] + 1
  /\ sent # <<>> /\ src.cis = "Streaming" => Last(sent) = budget.sdus /\ sent[1] = src.dropped + 1
================================================================================
