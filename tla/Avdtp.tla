--------------------------------- MODULE Avdtp ---------------------------------
(***************************************************************************)
(* AVDTP signalling between two devices (classic/avdtp.rs): commands under *)
(* transaction labels, the stream state each end keeps for its own stream  *)
(* endpoints, what it learned of the other's, and the media channels that  *)
(* ride on open streams.                                                   *)
(*                                                                         *)
(* Messages are well formed, whole (AvdtpFraming cuts and joins them) and  *)
(* arrive in order.  A codec configuration is a value that an endpoint can *)
(* render or not.  Security Control and Delay Report commands only raise   *)
(* events and are left out.                                                *)
(***************************************************************************)
EXTENDS Naturals, FiniteSets, Sequences

CONSTANTS Seids,      \* stream endpoint identifiers of either end: 1 .. n
          Configs,    \* codec configurations
          Rendered,   \* Rendered[e][s]: those endpoint s of end e advertised
          Labels,     \* number of transaction labels (16 in the code)
          Serial,     \* whether a host waits for the answer to one stream command before the next
          Ops         \* <<e, command>>: what the hosts of this instance do

End == {1, 2}
Other(e) == 3 - e
None == 0

VARIABLES
  ep,       \* ep[e][s]: LocalStreamEndPoint
  known,    \* known[e][s]: what e knows of the other's endpoint s
  pending,  \* pending[e][l]: the command of e under label l, <<>> for none
  next,     \* next[e]: the label e tries first
  wire,     \* wire[e]: messages on their way to e
  media     \* media[e]: endpoints of e with a media transport channel

vars == <<ep, known, pending, next, wire, media>>

IdleEndPoint == [state |-> "Idle", remote |-> None, config |-> None]

Init ==
  /\ ep = [e \in End |-> [s \in Seids |-> IdleEndPoint]]
  /\ known = [e \in End |-> [s \in Seids |-> "unknown"]]
  /\ pending = [e \in End |-> [l \in 0 .. Labels - 1 |-> <<>>]]
  /\ next = [e \in End |-> 0]
  /\ wire = [e \in End |-> <<>>]
  /\ media = [e \in End |-> {}]

Waiting(e) == {l \in 0 .. Labels - 1 : pending[e][l] # <<>>}

--------------------------------------------------------------------------------
(* Commands of the initiating end. *)

\* Mutant of FreeLabels: the next label, in flight or not.
NextLabel(e) == {next[e]}

\* The first label from next[e] on that no command of e waits under, if there is one.
FreeLabels(e) ==
  {(next[e] + o) % Labels : o \in {o \in 0 .. Labels - 1 :
     /\ (next[e] + o) % Labels \notin Waiting(e)
     /\ \A p \in 0 .. o - 1 : (next[e] + p) % Labels \in Waiting(e)}}

\* A command names the acceptor's endpoints, acp, and this end's, int.
Command(signal, acp, int, config) == [signal |-> signal, acp |-> acp, int |-> int, config |-> config]

SendCommand(e, cmd) ==
  /\ <<e, cmd.signal>> \in Ops
  /\ Serial /\ cmd.int # {} => \A l \in Waiting(e) : pending[e][l][1].int = {}
  /\ \E l \in FreeLabels(e) :
        /\ pending' = [pending EXCEPT ![e][l] = <<cmd>>]
        /\ next' = [next EXCEPT ![e] = (l + 1) % Labels]
        /\ wire' = [wire EXCEPT ![Other(e)] = Append(@, [type |-> "Command", label |-> l, body |-> cmd])]
  /\ UNCHANGED <<ep, known, media>>

\* local_endpoint_by_remote_seid: the first one, if there is any.
StreamsWith(e, acp) ==
  {s \in Seids : ep[e][s].remote = acp /\ \A r \in Seids : r < s => ep[e][r].remote # acp}

Discover(e) == SendCommand(e, Command("Discover", {}, {}, None))

GetCapabilities(e, acp) == SendCommand(e, Command("GetCapabilities", {acp}, {}, None))

GetConfiguration(e, acp) == SendCommand(e, Command("GetConfiguration", {acp}, {}, None))

SetConfiguration(e, acp, int, config) ==
  /\ ep[e][int].state = "Idle"
  /\ SendCommand(e, Command("SetConfiguration", {acp}, {int}, config))

\* require_stream, for each of the endpoints.
OnStreams(e, signal, acps, states, config) ==
  LET ints == UNION {StreamsWith(e, acp) : acp \in acps}
  IN /\ \A acp \in acps : StreamsWith(e, acp) # {}
     /\ \A int \in ints : ep[e][int].state \in states
     /\ SendCommand(e, Command(signal, acps, ints, config))

Reconfigure(e, acp, config) == OnStreams(e, "Reconfigure", {acp}, {"Open"}, config)
Open(e, acp) == OnStreams(e, "Open", {acp}, {"Configured"}, None)
Start(e, acps) == OnStreams(e, "Start", acps, {"Open"}, None)
Suspend(e, acps) == OnStreams(e, "Suspend", acps, {"Streaming"}, None)
Close(e, acp) == OnStreams(e, "Close", {acp}, {"Open", "Streaming"}, None)
Abort(e, acp) == OnStreams(e, "Abort", {acp}, {"Configured", "Open", "Streaming"}, None)

--------------------------------------------------------------------------------
(* What a command does at the accepting end, and its response at the other. *)

ConfigurationError(e, s, config) == config \notin Rendered[e][s]

AcceptsAt(e, cmd, s) ==
  LET state == ep[e][s].state
  IN CASE cmd.signal = "SetConfiguration" -> state = "Idle" /\ ~ConfigurationError(e, s, cmd.config)
       [] cmd.signal = "GetConfiguration" -> state \in {"Configured", "Open", "Streaming"}
       [] cmd.signal = "Reconfigure" -> state = "Open" /\ ~ConfigurationError(e, s, cmd.config)
       [] cmd.signal = "Open" -> state = "Configured"
       [] cmd.signal = "Start" -> state = "Open"
       [] cmd.signal = "Suspend" -> state = "Streaming"
       [] cmd.signal = "Close" -> state \in {"Open", "Streaming"}
       [] OTHER -> TRUE  \* Discover, GetCapabilities, and Abort, which is never refused

\* A command on several endpoints is accepted for all of them or for none.
Accepts(e, cmd) == \A s \in cmd.acp : AcceptsAt(e, cmd, s)

\* An endpoint after a command that was accepted: s and its partner at the other end.
Moved(point, signal, partner, config) ==
  CASE signal = "SetConfiguration" -> [state |-> "Configured", remote |-> partner, config |-> config]
    [] signal = "Reconfigure" -> [point EXCEPT !.config = config]
    [] signal \in {"Open", "Suspend"} -> [point EXCEPT !.state = "Open"]
    [] signal = "Start" -> [point EXCEPT !.state = "Streaming"]
    [] signal \in {"Close", "Abort"} -> [point EXCEPT !.state = "Idle", !.remote = None]
    [] OTHER -> point

\* Mutant of Detached: only a Close takes the media channel down.
DetachedByClose(e, signal, points) ==
  media' = IF signal = "Close" THEN [media EXCEPT ![e] = @ \ points] ELSE media

\* detach_media_by_seid
Detached(e, signal, points) ==
  media' = IF signal \in {"Close", "Abort"} THEN [media EXCEPT ![e] = @ \ points] ELSE media

Partner(points) == IF points = {} THEN None ELSE CHOOSE s \in points : TRUE

\* on_command: an accepted one moves the endpoints it names, and is answered either way.
OnCommand(e) ==
  /\ wire[e] # <<>> /\ Head(wire[e]).type = "Command"
  /\ LET msg == Head(wire[e])
         cmd == msg.body
         ok == Accepts(e, cmd)
     IN /\ wire' = [wire EXCEPT ![e] = Tail(@),
                                ![Other(e)] = Append(@, [type |-> IF ok THEN "Accept" ELSE "Reject",
                                                         label |-> msg.label, body |-> cmd.signal])]
        /\ ep' = IF ok THEN [ep EXCEPT ![e] = [s \in Seids |->
                               IF s \in cmd.acp THEN Moved(@[s], cmd.signal, Partner(cmd.int), cmd.config) ELSE @[s]]]
                 ELSE ep
        /\ IF ok THEN Detached(e, cmd.signal, cmd.acp) ELSE UNCHANGED media
  /\ UNCHANGED <<known, pending, next>>

\* What Discover and Get_Capabilities teach; Discover forgets the capabilities.
Learned(e, cmd) ==
  [s \in Seids |-> IF cmd.signal = "Discover" THEN "discovered"
                   ELSE IF cmd.signal = "GetCapabilities" /\ s \in cmd.acp /\ known[e][s] # "unknown" THEN "capable"
                   ELSE known[e][s]]

\* Mutant of Confirmed: any answer to the command will do.
Answered(found, msg) == found # <<>> /\ found[1].signal = msg.body

\* The answer found its command and accepts it.
Confirmed(found, msg) == found # <<>> /\ found[1].signal = msg.body /\ msg.type = "Accept"

\* on_response: the label finds the command; its endpoints move whatever state they are in by now.
OnResponse(e) ==
  /\ wire[e] # <<>> /\ Head(wire[e]).type # "Command"
  /\ wire' = [wire EXCEPT ![e] = Tail(@)]
  /\ LET msg == Head(wire[e])
         found == pending[e][msg.label]
     IN /\ pending' = [pending EXCEPT ![e][msg.label] = <<>>]
        /\ IF Confirmed(found, msg)
           THEN LET cmd == found[1]
                IN /\ ep' = [ep EXCEPT ![e] = [s \in Seids |->
                               IF s \in cmd.int THEN Moved(@[s], cmd.signal, Partner(cmd.acp), cmd.config) ELSE @[s]]]
                   /\ known' = [known EXCEPT ![e] = Learned(e, cmd)]
                   /\ Detached(e, cmd.signal, cmd.int)
           ELSE UNCHANGED <<ep, known, media>>
  /\ UNCHANGED next

--------------------------------------------------------------------------------
(* Media transport channels, which L2CAP opens and closes. *)

AttachMediaChannel(e, s) ==
  /\ <<e, "media">> \in Ops
  /\ s \notin media[e]
  /\ ep[e][s].state \in {"Open", "Streaming"}
  /\ media' = [media EXCEPT ![e] = @ \cup {s}]
  /\ UNCHANGED <<ep, known, pending, next, wire>>

DetachMediaChannel(e, s) ==
  /\ s \in media[e]
  /\ media' = [media EXCEPT ![e] = @ \ {s}]
  /\ UNCHANGED <<ep, known, pending, next, wire>>

Next ==
  \E e \in End :
    \/ Discover(e)
    \/ OnCommand(e)
    \/ OnResponse(e)
    \/ \E acps \in SUBSET Seids \ {{}} : Start(e, acps) \/ Suspend(e, acps)
    \/ \E s \in Seids : \/ GetCapabilities(e, s) \/ GetConfiguration(e, s)
                        \/ Open(e, s) \/ Close(e, s) \/ Abort(e, s)
                        \/ AttachMediaChannel(e, s) \/ DetachMediaChannel(e, s)
                        \/ \E config \in Configs : \/ Reconfigure(e, s, config)
                                                   \/ \E int \in Seids : SetConfiguration(e, s, int, config)

Spec == Init /\ [][Next]_vars

--------------------------------------------------------------------------------
(* Properties. *)

Quiet == \A e \in End : wire[e] = <<>>

\* Once nothing is under way, a stream is in the same state with the same
\* configuration at both ends, and each names the other's endpoint (on_command,
\* on_response): a refused command changed neither end, an accepted one both.
StreamsAgree ==
  Quiet => \A e \in End, s \in Seids :
             LET mine == ep[e][s]
                 theirs == ep[Other(e)][mine.remote]
             IN mine.state # "Idle" =>
                  /\ mine.remote # None /\ theirs.remote = s
                  /\ theirs.state = mine.state /\ theirs.config = mine.config

\* A media channel belongs to a stream that is open: closing or aborting a stream,
\* from either end and whatever crosses it, takes the channel with it
\* (detach_media_by_seid: "leaving it registered would let media for a closed
\* stream keep arriving").
MediaRidesStream ==
  \A e \in End : \A s \in media[e] : ep[e][s].state \in {"Open", "Streaming"}

\* A label stands for one transaction: a command waits under it exactly as long as
\* that command or its answer is under way, also when all labels are in use (send_command).
LabelsInFlight ==
  \A e \in End :
    LET going == {i \in DOMAIN wire[Other(e)] : wire[Other(e)][i].type = "Command"}
        coming == {i \in DOMAIN wire[e] : wire[e][i].type # "Command"}
    IN /\ Waiting(e) = {wire[Other(e)][i].label : i \in going} \cup {wire[e][i].label : i \in coming}
       /\ Cardinality(Waiting(e)) = Cardinality(going) + Cardinality(coming)
================================================================================
