-------------------------------- MODULE Hid --------------------------------
(***************************************************************************)
(* A BR/EDR keyboard or mouse and the computer it types on: HidDevice and  *)
(* HidHost (classic/hid.rs) behind the handlers that own their channels    *)
(* (device/classic_hid.rs).  The host asks for the control channel and,    *)
(* once it is open, for the interrupt channel; each end learns of a        *)
(* channel at its own poll (module ClassicHost has that handshake).  A     *)
(* channel keeps order; a lost link drops what is on it.  Buffer sizes are  *)
(* left out.                                                               *)
(***************************************************************************)
EXTENDS Naturals, Sequences, SequencesExt

CONSTANTS
  Reports,    \* reports the device has: <<type, id>>
  Inputs,     \* input reports the device makes: [len, v], an octet count and its contents
  Requests,   \* requests the host makes
  MaxInputs, MaxAsks, MaxLinks  \* bounds: input reports, requests, links

VARIABLES
  up, links,  \* whether there is a link, and links so far
  dev,        \* the device: protocol mode, reports, channels it knows open, input reports waiting, events
  host,       \* the host: channels it knows open and wants, output waiting, what it was told, what was typed
  toDev, toHost, \* messages on each channel
  made,       \* input reports made that no lost link took
  want,       \* the protocol mode and the reports the host has set last
  asks        \* requests so far, and those that are answered

vars == <<up, links, dev, host, toDev, toHost, made, want, asks>>

Channels == {"control", "interrupt"}
Wires == [c \in Channels |-> <<>>]

NewDevice == [mode |-> "Report", reports |-> [r \in Reports |-> 0], open |-> {}, pending |-> <<>>, events |-> 0, rx |-> 0]
NewHost == [open |-> {}, wanted |-> {"control"}, asked |-> {}, control |-> <<>>, interrupt |-> <<>>, told |-> <<>>, input |-> <<>>]

Init ==
  /\ up = FALSE /\ links = 0
  /\ dev = NewDevice /\ host = NewHost
  /\ toDev = Wires /\ toHost = Wires
  /\ made = <<>>
  /\ want = [mode |-> "Report", reports |-> NewDevice.reports]
  /\ asks = [made |-> 0, due |-> 0]

--------------------------------------------------------------------------------
\* HidDevice::receive_control: the answer to a request, what it leaves, and whether the owner is told.
Handshake(code) == <<[t |-> "Handshake", v |-> code]>>
Data(v) == <<[t |-> "Data", v |-> v]>>
Took(d, answer, told) == [dev |-> [d EXCEPT !.events = @ + told], out |-> answer]

ReceiveControl(d, m) ==
  CASE m.t = "GetReport" -> Took(d, IF m.r \in Reports THEN Data(d.reports[m.r]) ELSE Handshake("InvalidReportId"), 0)
    [] m.t = "SetReport" ->
         IF m.empty THEN Took(d, Handshake("InvalidParameter"), 0)
         ELSE IF m.r \notin Reports THEN Took(d, Handshake("InvalidReportId"), 0)
         ELSE Took([d EXCEPT !.reports[m.r] = m.v], Handshake("Successful"), 1)
    [] m.t = "GetProtocol" -> Took(d, Data(d.mode), 0)
    [] m.t = "SetProtocol" -> Took([d EXCEPT !.mode = m.mode], Handshake("Successful"), 1)
    [] m.t = "Data" -> Took(d, <<>>, 1)
    [] m.t = "Control" -> Took(d, <<>>, IF m.op \in {"Suspend", "ExitSuspend", "Unplug"} THEN 1 ELSE 0)
    [] m.t = "Handshake" -> Took(d, <<>>, 0)
    [] m.t = "unknown" -> Took(d, Handshake("UnsupportedRequest"), 0)
    [] m.t = "empty" -> Took(d, <<>>, 0)

Answered(m) == m.t \in {"GetReport", "SetReport", "GetProtocol", "SetProtocol", "unknown"}

\* on_channel_data of the device.
DeviceReceive(c) ==
  /\ toDev[c] # <<>>
  /\ toDev' = [toDev EXCEPT ![c] = Tail(@)]
  /\ LET m == Head(toDev[c])
         r == ReceiveControl(dev, m)
     IN IF c = "interrupt"
        THEN dev' = [dev EXCEPT !.rx = @ + 1] /\ UNCHANGED <<toHost, asks>>
        ELSE /\ dev' = r.dev
             /\ toHost' = [toHost EXCEPT ![c] = @ \o r.out]
             /\ asks' = [asks EXCEPT !.due = @ + IF Answered(m) THEN 1 ELSE 0]
  /\ UNCHANGED <<up, links, host, made, want>>

\* decode_input: eight octets are a keyboard's report, at least three a mouse's.
DecodeInput(x) == [kind |-> IF x.len = 8 THEN "Keyboard" ELSE IF x.len >= 3 THEN "Mouse" ELSE "Raw", v |-> x.v]

\* HidHost::receive_control: what an answer tells the host.
HostTold(m) == IF m.t \in {"Handshake", "Data"} \/ (m.t = "Control" /\ m.op = "Unplug") THEN <<m>> ELSE <<>>

HostReceive(c) ==
  /\ toHost[c] # <<>>
  /\ toHost' = [toHost EXCEPT ![c] = Tail(@)]
  /\ LET m == Head(toHost[c])
     IN host' = IF c = "interrupt" THEN [host EXCEPT !.input = Append(@, DecodeInput(m))]
                ELSE [host EXCEPT !.told = @ \o HostTold(m)]
  /\ UNCHANGED <<up, links, dev, toDev, made, want, asks>>

--------------------------------------------------------------------------------
\* press, move_pointer, send_input_report: kept until the interrupt channel takes it.
SendInput(x) ==
  /\ Len(made) < MaxInputs
  /\ dev' = [dev EXCEPT !.pending = Append(@, x)]
  /\ made' = Append(made, x)
  /\ UNCHANGED <<up, links, host, toDev, toHost, want, asks>>

\* get_report, set_report, get_protocol, set_protocol, and send_output_report.
Request(m) ==
  /\ asks.made < MaxAsks
  /\ asks' = [asks EXCEPT !.made = @ + 1]
  /\ host' = IF m.t = "Output" THEN [host EXCEPT !.interrupt = Append(@, m)] ELSE [host EXCEPT !.control = Append(@, m)]
  /\ want' = CASE m.t = "SetProtocol" -> [want EXCEPT !.mode = m.mode]
               [] m.t = "SetReport" /\ m.r \in Reports /\ ~m.empty -> [want EXCEPT !.reports[m.r] = m.v]
               [] OTHER -> want
  /\ UNCHANGED <<up, links, dev, toDev, toHost, made>>

--------------------------------------------------------------------------------
\* The first poll that finds a channel open announces it: on_channel_open.
DeviceOpens(c) ==
  /\ up /\ c \in host.asked /\ c \notin dev.open
  /\ dev' = [dev EXCEPT !.open = @ \cup {c}]
  /\ UNCHANGED <<up, links, host, toDev, toHost, made, want, asks>>

\* The control channel is open at the host, which then wants the interrupt channel.
HostOpens(c) ==
  /\ up /\ c \in host.asked /\ c \notin host.open
  /\ host' = [host EXCEPT !.open = @ \cup {c}, !.wanted = IF c = "control" THEN @ \cup {"interrupt"} ELSE @]
  /\ UNCHANGED <<up, links, dev, toDev, toHost, made, want, asks>>

\* poll_channel_requests.
HostAsks ==
  /\ up /\ host.wanted # {}
  /\ host' = [host EXCEPT !.asked = @ \cup host.wanted, !.wanted = {}]
  /\ UNCHANGED <<up, links, dev, toDev, toHost, made, want, asks>>

\* poll_channel_output of the device: the interrupt channel takes every report waiting.
DevicePoll ==
  /\ "interrupt" \in dev.open /\ dev.pending # <<>>
  /\ dev' = [dev EXCEPT !.pending = <<>>]
  /\ toHost' = [toHost EXCEPT !["interrupt"] = @ \o dev.pending]
  /\ UNCHANGED <<up, links, host, toDev, made, want, asks>>

\* poll_channel_output of the host, by channel.
HostPoll(c) ==
  /\ c \in host.open /\ host[c] # <<>>
  /\ host' = [host EXCEPT ![c] = <<>>]
  /\ toDev' = [toDev EXCEPT ![c] = @ \o host[c]]
  /\ UNCHANGED <<up, links, dev, toHost, made, want, asks>>

LinkUp ==
  /\ ~up /\ links < MaxLinks
  /\ up' = TRUE /\ links' = links + 1
  /\ UNCHANGED <<dev, host, toDev, toHost, made, want, asks>>

\* on_channel_lost and on_channel_closed, at each end.  The protocol mode and the reports stay.
DeviceClosed(d) == [d EXCEPT !.open = {}, !.pending = <<>>]
HostClosed(h) == [h EXCEPT !.open = {}, !.wanted = {"control"}, !.asked = {}, !.control = <<>>, !.interrupt = <<>>]

LinkLost ==
  /\ up /\ up' = FALSE
  /\ dev' = DeviceClosed(dev) /\ host' = HostClosed(host)
  /\ toDev' = Wires /\ toHost' = Wires
  /\ made' = SubSeq(made, 1, Len(host.input))
  /\ want' = [mode |-> dev.mode, reports |-> dev.reports]
  /\ asks' = [asks EXCEPT !.due = Len(host.told)]
  /\ UNCHANGED links

Next ==
  \/ \E c \in Channels : DeviceReceive(c) \/ HostReceive(c) \/ DeviceOpens(c) \/ HostOpens(c) \/ HostPoll(c)
  \/ \E x \in Inputs : SendInput(x)
  \/ \E m \in Requests : Request(m)
  \/ HostAsks \/ DevicePoll \/ LinkUp \/ LinkLost

Fairness ==
  /\ \A c \in Channels : WF_vars(DeviceReceive(c)) /\ WF_vars(HostReceive(c)) /\ WF_vars(DeviceOpens(c))
                         /\ WF_vars(HostOpens(c)) /\ WF_vars(HostPoll(c))
  /\ WF_vars(HostAsks) /\ WF_vars(DevicePoll)

Spec == Init /\ [][Next]_vars /\ Fairness

--------------------------------------------------------------------------------
\* What was typed is what the computer reads: every input report once, in order, decoded by its
\* length, but those a lost link took (pending_input, poll_channel_output, on_channel_closed).
InputArrives == host.input \o [i \in 1 .. Len(toHost["interrupt"]) |-> DecodeInput(toHost["interrupt"][i])]
                  \o [i \in 1 .. Len(dev.pending) |-> DecodeInput(dev.pending[i])]
                = [i \in 1 .. Len(made) |-> DecodeInput(made[i])]

\* Once nothing is on its way the device has the protocol mode and the reports the host set last,
\* and has answered every request that asks for an answer (receive_control).
RequestsTakeEffect ==
  host.control = <<>> /\ toDev["control"] = <<>> /\ toHost["control"] = <<>> =>
    /\ dev.mode = want.mode /\ dev.reports = want.reports
    /\ Len(host.told) = asks.due
================================================================================
