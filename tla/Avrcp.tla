--------------------------------- MODULE Avrcp ---------------------------------
(***************************************************************************)
(* A media remote control: classic/avrcp.rs's Protocol at both ends of an  *)
(* AVCTP channel, as device/avrcp.rs uses it.  The controller has buttons, *)
(* asks for status and metadata and monitors events; the target is a       *)
(* player with a list of tracks.  A response too long for a frame is       *)
(* pulled over in fragments, piece by piece.                               *)
(*                                                                         *)
(* Replies leave at once; what an end says unasked waits in its outbound   *)
(* queue until the host polls it.  The channel keeps order; when it is     *)
(* closed both ends start a new session and what was under way is lost.    *)
(***************************************************************************)
EXTENDS Naturals, Sequences

CONSTANTS Labels,       \* number of transaction labels (16 in the code)
          Pieces,       \* Pieces[t]: size of the metadata of track t, 1 .. n
          Room,         \* pieces that fit into a frame
          MaxSessions,  \* bounds: channels opened, what the users do
          MaxOps,
          Ops           \* what the users of this instance do

VARIABLES
  tg,        \* AvrcpTarget: the player, its listeners and what it holds back
  ct,        \* AvrcpController: commands in flight and what it learned
  toTg,      \* packets on their way
  toCt,
  isUp,      \* the control channel is open
  sessions,
  ops

vars == <<tg, ct, toTg, toCt, isUp, sessions, ops>>

Label == 0 .. Labels - 1
Track == 1 .. Len(Pieces)
Status == {"Stopped", "Playing", "Paused"}

StatusEvent == "PLAYBACK_STATUS_CHANGED"
TrackEvent == "TRACK_CHANGED"
PosEvent == "PLAYBACK_POS_CHANGED"
OtherEvent == "UIDS_CHANGED"
SupportedEvents == {StatusEvent, TrackEvent, PosEvent, "VOLUME_CHANGED"}
EventId == SupportedEvents \cup {OtherEvent}

NoLabel == Labels
NoPdu == [pdu |-> "none", arg |-> "none"]
NoAssembly == [on |-> FALSE, code |-> "none", pdu |-> "none", data |-> <<>>]

NewTarget(status, index, volume) ==
  [status |-> status, index |-> index, volume |-> volume,
   listeners |-> [e \in EventId |-> NoLabel], held |-> <<>>, outbound |-> <<>>]

NewController(remote, monitored) ==
  [pending |-> [l \in Label |-> NoPdu], next |-> 0, asm |-> [l \in Label |-> NoAssembly],
   outbound |-> <<>>, remote |-> remote, monitored |-> monitored, failed |-> FALSE]

Init ==
  /\ tg = NewTarget("Stopped", 1, 1)
  /\ ct = NewController([status |-> "unknown", track |-> 0, metadata |-> <<>>], {})
  /\ toTg = <<>> /\ toCt = <<>> /\ isUp = FALSE /\ sessions = 0 /\ ops = 0

--------------------------------------------------------------------------------
(* Fragments: write_pdu and PduAssembler. *)

WritePdu(code, pdu, data) ==
  LET n == IF data = <<>> THEN 1 ELSE (Len(data) + Room - 1) \div Room
  IN [i \in 1 .. n |->
       [code |-> code, pdu |-> pdu,
        type |-> IF i = n THEN (IF i = 1 THEN "Single" ELSE "End") ELSE IF i = 1 THEN "Start" ELSE "Continue",
        data |-> SubSeq(data, (i - 1) * Room + 1, IF i = n THEN Len(data) ELSE i * Room)]]

On(label, fragment) == [label |-> label, f |-> fragment]

--------------------------------------------------------------------------------
(* The target *)

\* avrcp_response: the first fragment goes, the rest is held.  A short answer to
\* the same PDU replaces what is held, an answer to another leaves it.
Respond(t, label, code, pdu, data) ==
  LET fragments == WritePdu(code, pdu, data)
      same == t.held # <<>> /\ t.held[1].pdu = pdu
  IN [tg |-> IF Len(fragments) > 1 \/ same THEN [t EXCEPT !.held = Tail(fragments)] ELSE t,
      out |-> <<On(label, Head(fragments))>>]

Rejected(t, label, pdu) == Respond(t, label, "Rejected", pdu, <<"InvalidParameter">>)
Stable(t, label, pdu, data) == Respond(t, label, "Stable", pdu, data)

Snapshot(t, event) ==
  CASE event = StatusEvent -> t.status [] event = TrackEvent -> t.index [] event = "VOLUME_CHANGED" -> t.volume

\* notify_event: the listener's CHANGED is queued, and its registration spent.
NotifyEvent(t, event) ==
  IF t.listeners[event] = NoLabel THEN t
  ELSE LET r == Respond(t, t.listeners[event], "Changed", "Register", <<<<event, Snapshot(t, event)>>>>)
       IN [r.tg EXCEPT !.outbound = @ \o r.out, !.listeners[event] = NoLabel]

SetPlaybackStatus(t, status) ==
  IF t.status = status THEN t ELSE NotifyEvent([t EXCEPT !.status = status], StatusEvent)

PublishTrack(t, index) == NotifyEvent([t EXCEPT !.index = index], TrackEvent)

ApplyKey(t, key) ==
  CASE key = "PLAY" -> SetPlaybackStatus(t, "Playing")
    [] key = "PAUSE" -> SetPlaybackStatus(t, "Paused")
    [] key = "STOP" -> SetPlaybackStatus(t, "Stopped")
    [] key = "FORWARD" -> IF t.index + 1 \in Track THEN PublishTrack(t, t.index + 1) ELSE t
    [] key = "BACKWARD" -> IF t.index > 1 THEN PublishTrack(t, t.index - 1) ELSE t

\* on_register_notification: an event that is declared and not modelled is not answered.
OnRegister(t, label, event) ==
  IF event \notin SupportedEvents THEN Respond(t, label, "NotImplemented", "Register", <<>>)
  ELSE IF event = PosEvent THEN [tg |-> t, out |-> <<>>]
  ELSE LET r == Respond(t, label, "Interim", "Register", <<<<event, Snapshot(t, event)>>>>)
       IN [r EXCEPT !.tg.listeners[event] = label]

Metadata(index) == [i \in 1 .. Pieces[index] |-> <<index, i>>]

\* Mutant of ContinueResponse: the fragment is made again, of the track now playing.
ContinueRegenerated(t, label, pdu) ==
  IF t.held = <<>> \/ Head(t.held).pdu # pdu THEN Rejected(t, label, "Continue")
  ELSE [tg |-> [t EXCEPT !.held = Tail(t.held)],
        out |-> <<On(label, [Head(t.held) EXCEPT !.data = [i \in DOMAIN @ |-> <<t.index, @[i][2]>>]])>>]

\* continue_response: the next fragment, under the PDU it belongs to.
ContinueResponse(t, label, pdu) ==
  IF t.held = <<>> \/ Head(t.held).pdu # pdu THEN Rejected(t, label, "Continue")
  ELSE [tg |-> [t EXCEPT !.held = Tail(t.held)], out |-> <<On(label, Head(t.held))>>]

AbortContinuing(t, label, pdu) ==
  IF t.held = <<>> \/ Head(t.held).pdu # pdu THEN Rejected(t, label, "Abort")
  ELSE Respond([t EXCEPT !.held = <<>>], label, "Accepted", "Abort", <<>>)

\* on_command and dispatch_command, with what AvrcpTarget does of a key.  The key
\* is answered; what it changed is told when the host polls.
OnCommand(t, label, pdu, arg) ==
  CASE pdu = "Press" -> [tg |-> ApplyKey(t, arg), out |-> <<On(label, [code |-> "Accepted", pdu |-> "Press"])>>]
    [] pdu = "Release" -> [tg |-> t, out |-> <<On(label, [code |-> "Accepted", pdu |-> "Release"])>>]
    [] pdu = "Continue" -> ContinueResponse(t, label, arg)
    [] pdu = "Abort" -> AbortContinuing(t, label, arg)
    [] pdu = "Register" -> OnRegister(t, label, arg)
    [] pdu = "GetPlayStatus" -> Stable(t, label, pdu, <<t.status>>)
    [] pdu = "GetElementAttributes" -> Stable(t, label, pdu, Metadata(t.index))
    [] pdu = "GetCapabilities" -> Stable(t, label, pdu, <<SupportedEvents>>)
    [] pdu = "SetAbsoluteVolume" -> Respond([t EXCEPT !.volume = arg], label, "Accepted", pdu, <<arg>>)
    [] pdu = "SetAddressedPlayer" -> Rejected(t, label, pdu)

TargetReceives ==
  /\ toTg # <<>>
  /\ LET c == Head(toTg)
         r == OnCommand(tg, c.label, c.pdu, c.arg)
     IN tg' = r.tg /\ toCt' = toCt \o r.out
  /\ toTg' = Tail(toTg)
  /\ UNCHANGED <<ct, isUp, sessions, ops>>

\* poll_channel_output
TargetPolled ==
  /\ isUp /\ tg.outbound # <<>>
  /\ toCt' = toCt \o tg.outbound
  /\ tg' = [tg EXCEPT !.outbound = <<>>]
  /\ UNCHANGED <<ct, toTg, isUp, sessions, ops>>

--------------------------------------------------------------------------------
(* The controller *)

\* allocate_label: the first free one from next_transaction on.
Free(c) == {l \in Label : c.pending[l] = NoPdu}
Distance(c, l) == (l + Labels - c.next) % Labels

AllocateLabel(c) == CHOOSE l \in Free(c) : \A m \in Free(c) : Distance(c, l) <= Distance(c, m)

\* send_avrcp_command, send_key_event and queue
Queue(c, pdu, arg) ==
  IF Free(c) = {} THEN [c EXCEPT !.failed = TRUE]
  ELSE LET l == AllocateLabel(c)
       IN [c EXCEPT !.pending[l] = [pdu |-> pdu, arg |-> arg], !.next = (l + 1) % Labels,
                    !.outbound = Append(@, [label |-> l, pdu |-> pdu, arg |-> arg])]

Tap(c, key) == Queue(Queue(c, "Press", key), "Release", key)

Monitor(c, event) == Queue([c EXCEPT !.monitored = @ \cup {event}], "Register", event)

\* Mutant of AbsorbNotification: the registration a CHANGED spent is not renewed.
AbsorbOnce(c, event, value, interim) ==
  CASE event = StatusEvent -> [c EXCEPT !.remote.status = value]
    [] event = TrackEvent -> [c EXCEPT !.remote.track = value]
    [] OTHER -> c

\* absorb: a CHANGED spent the registration, so it is made again.
AbsorbNotification(c, event, value, interim) ==
  LET told == CASE event = StatusEvent -> [c EXCEPT !.remote.status = value]
                [] event = TrackEvent -> [c EXCEPT !.remote.track = value]
                [] OTHER -> c
  IN IF ~interim /\ event \in c.monitored THEN Queue(told, "Register", event) ELSE told

\* dispatch_response: an answer to another PDU ends the transaction; INTERIM does not.
DispatchResponse(c, label, code, pdu, data) ==
  LET ended == [c EXCEPT !.pending[label] = NoPdu]
  IN IF c.pending[label].pdu # pdu \/ code \in {"Rejected", "NotImplemented"} THEN ended
     ELSE IF pdu = "Register" THEN
       AbsorbNotification(IF code = "Interim" THEN c ELSE ended, data[1][1], data[1][2], code = "Interim")
     ELSE CASE pdu = "GetPlayStatus" -> [ended EXCEPT !.remote.status = data[1]]
            [] pdu = "GetElementAttributes" -> [ended EXCEPT !.remote.metadata = data]
            [] OTHER -> ended

\* on_response: a fragment with another code throws the assembly away and the
\* transaction stays; a fragment that is not the last is followed by a request.
OnResponse(c, label, f) ==
  LET a == c.asm[label]
      kept == IF f.type \in {"Continue", "End"} THEN a.data ELSE <<>>
      odd == f.type \in {"Continue", "End"} /\ (~a.on \/ a.pdu # f.pdu)
      clear == [c EXCEPT !.asm[label] = NoAssembly]
  IN IF c.pending[label] = NoPdu THEN [ct |-> c, out |-> <<>>]
     ELSE IF f.pdu \in {"Press", "Release"} THEN [ct |-> [c EXCEPT !.pending[label] = NoPdu], out |-> <<>>]
     ELSE IF (a.on /\ a.code # f.code) \/ odd THEN [ct |-> clear, out |-> <<>>]
     ELSE IF f.type \in {"Single", "End"} THEN
       [ct |-> DispatchResponse(clear, label, f.code, f.pdu, kept \o f.data), out |-> <<>>]
     ELSE [ct |-> [c EXCEPT !.asm[label] = [on |-> TRUE, code |-> f.code, pdu |-> f.pdu, data |-> kept \o f.data]],
           out |-> <<[label |-> label, pdu |-> "Continue", arg |-> f.pdu]>>]

ControllerReceives ==
  /\ toCt # <<>>
  /\ LET p == Head(toCt)
         r == OnResponse(ct, p.label, p.f)
     IN ct' = r.ct /\ toTg' = toTg \o r.out
  /\ toCt' = Tail(toCt)
  /\ UNCHANGED <<tg, isUp, sessions, ops>>

ControllerPolled ==
  /\ isUp /\ ct.outbound # <<>>
  /\ toTg' = toTg \o ct.outbound
  /\ ct' = [ct EXCEPT !.outbound = <<>>]
  /\ UNCHANGED <<tg, toCt, isUp, sessions, ops>>

--------------------------------------------------------------------------------
(* The users and the channel *)

Uses(op) == op \in Ops /\ ops < MaxOps /\ ops' = ops + 1 /\ UNCHANGED <<toTg, toCt, isUp, sessions>>

\* Whether a query of that kind is in flight.
InFlight(pdu) == \E l \in Label : ct.pending[l].pdu = pdu

Press == \E key \in {"PLAY", "PAUSE", "STOP", "FORWARD", "BACKWARD"} :
  Uses("key") /\ ct' = Tap(ct, key) /\ UNCHANGED tg
QueryPlayStatus == Uses("status") /\ ct' = Queue(ct, "GetPlayStatus", "all") /\ UNCHANGED tg
QueryMetadata ==
  /\ Uses("metadata") \/ Uses("overlap")
  /\ "overlap" \in Ops \/ ~InFlight("GetElementAttributes")
  /\ ct' = Queue(ct, "GetElementAttributes", "all") /\ UNCHANGED tg
AbortMetadata == Uses("abort") /\ ct' = Queue(ct, "Abort", "GetElementAttributes") /\ UNCHANGED tg
MonitorEvent == \E event \in {StatusEvent, TrackEvent} :
  /\ Uses("monitor") /\ event \notin ct.monitored
  /\ ct' = Monitor(ct, event) /\ UNCHANGED tg
MonitorAgain == \E event \in ct.monitored : Uses("again") /\ ct' = Monitor(ct, event) /\ UNCHANGED tg
RegisterPosition == Uses("position") /\ ct' = Queue(ct, "Register", PosEvent) /\ UNCHANGED tg
SendOther == \E c \in {<<"Register", OtherEvent>>, <<"GetCapabilities", "events">>, <<"SetAbsoluteVolume", 2>>,
                       <<"SetAddressedPlayer", 1>>} :
  Uses("other") /\ ct' = Queue(ct, c[1], c[2]) /\ UNCHANGED tg
SetStatusLocally == \E s \in Status \ {tg.status} : Uses("player") /\ tg' = SetPlaybackStatus(tg, s) /\ UNCHANGED ct
SetTrackLocally == \E t \in Track : Uses("player") /\ tg' = PublishTrack(tg, t) /\ UNCHANGED ct

OpenChannel ==
  /\ ~isUp /\ sessions < MaxSessions
  /\ isUp' = TRUE /\ sessions' = sessions + 1
  /\ UNCHANGED <<tg, ct, toTg, toCt, ops>>

\* on_channel_closed at both ends: the music stays, the session does not.
CloseChannel ==
  /\ isUp /\ sessions < MaxSessions
  /\ isUp' = FALSE /\ toTg' = <<>> /\ toCt' = <<>>
  /\ tg' = NewTarget(tg.status, tg.index, tg.volume)
  /\ ct' = [NewController(ct.remote, ct.monitored) EXCEPT !.failed = ct.failed]
  /\ UNCHANGED <<sessions, ops>>

User ==
  \/ Press \/ QueryPlayStatus \/ QueryMetadata \/ AbortMetadata \/ MonitorEvent \/ MonitorAgain
  \/ RegisterPosition \/ SendOther \/ SetStatusLocally \/ SetTrackLocally

Deliver == TargetReceives \/ TargetPolled \/ ControllerReceives \/ ControllerPolled

Next == User \/ Deliver \/ OpenChannel \/ CloseChannel

Spec == Init /\ [][Next]_vars
\* The hosts deliver and poll; the users need not do anything.
FairSpec == Spec /\ WF_vars(Deliver) /\ WF_vars(OpenChannel)

--------------------------------------------------------------------------------
Quiet == isUp /\ toTg = <<>> /\ toCt = <<>> /\ tg.outbound = <<>> /\ ct.outbound = <<>>

\* The controller shows the player's state once nothing is under way: an event it
\* monitors is registered again after each change, and no answer that was
\* overtaken has the last word (device/avrcp.rs: "or the second track change is
\* never reported and the state above silently stops tracking the player").  A
\* controller that ran out of labels has said so.
MonitoredMirrored ==
  Quiet /\ ~ct.failed =>
    /\ StatusEvent \in ct.monitored => ct.remote.status = tg.status
    /\ TrackEvent \in ct.monitored => ct.remote.track = tg.index

\* Metadata arrives whole and of one track, however notifications, keys and
\* other answers fall between its fragments.
MetadataWhole == ct.remote.metadata # <<>> => \E t \in Track : ct.remote.metadata = Metadata(t)

\* Once nothing is under way, a label is in flight only for a registration the
\* target holds under that label: no answer was lost or given to another command.
LabelsAccounted ==
  Quiet => \A l \in Label : ct.pending[l] # NoPdu =>
             ct.pending[l].pdu = "Register" /\ tg.listeners[ct.pending[l].arg] = l

\* A query for metadata is answered, unless its channel is closed.
MetadataAnswered == [](InFlight("GetElementAttributes") => <>(~InFlight("GetElementAttributes")))
================================================================================
