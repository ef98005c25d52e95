--------------------------------- MODULE CarKit ---------------------------------
(***************************************************************************)
(* A phone and a head unit on one link (device/car_kit.rs): the two HFP    *)
(* machines of module Hfp over an RFCOMM data link, the queue in front of  *)
(* the head unit's command slot, the call that the phone keeps, and the    *)
(* synchronous link (device/classic_device.rs) that carries its audio.     *)
(*                                                                         *)
(* The data link is open and delivers lines in order, one at a time.  The  *)
(* controllers bring the synchronous link up and down some time after they *)
(* are asked (module ClassicLink); setups repeated meanwhile change        *)
(* nothing.  The clock that walks an outgoing call forward, gains, ringing *)
(* and the transcript are left out: the call may move on at any time.      *)
(***************************************************************************)
EXTENDS Hfp

CONSTANTS Operators,  \* network operator names; the head unit knows none of them at first
          Ops,        \* what the users of this instance do
          MaxOps      \* and how often, in all

VARIABLES hf, ag,   \* the machines of the head unit and of the phone
          up,       \* commands on their way to the phone
          down,     \* lines on their way to the head unit
          phase,    \* LinkPhase, from the opening of the data link on
          queue,    \* commands the head unit holds back
          call,     \* CallPhase
          sco,      \* the phone's synchronous link: wanted, opened here, its state and codec
          audioUp,  \* whether the machines were told the link is up
          known,    \* the operator the head unit shows
          ops       \* operations of the users so far

vars == <<hf, ag, up, down, phase, queue, call, sco, audioUp, known, ops>>

CallInd == 1
CallSetupInd == 2
ServiceInd == 3

Init ==
  /\ hf = HfNew
  /\ \E o \in Operators : ag = AgNew(<<0, 0, 1>>, o)
  /\ up = <<>> /\ down = <<>>
  /\ phase = "OpeningDlc"
  /\ queue = <<>>
  /\ call = "Idle"
  /\ sco = [requested |-> FALSE, openedHere |-> FALSE, link |-> "none", params |-> Cvsd, codec |-> Cvsd]
  /\ audioUp = FALSE
  /\ known = "unknown"
  /\ ops = 0

\* Whether the phone has a synchronous link, and whether the machines know as much:
\* they are told in the step of the scene that changed it.
ScoUp == sco.link \in {"up", "hanging"}
Told == ScoUp = audioUp

--------------------------------------------------------------------------------
(* The phone.  A phone state is its machine, its call, its link and the lines sent. *)

Phone == [ag |-> ag, call |-> call, sco |-> sco, sent |-> <<>>]

BecomesPhone(p) == ag' = p.ag /\ call' = p.call /\ sco' = p.sco /\ down' = down \o p.sent

\* A +CIEV goes out only once the HF turned reports on.
PushIndicator(p, index, value) ==
  LET r == UpdateAgIndicator(p.ag, index, value)
  IN [p EXCEPT !.ag = r.machine, !.sent = IF p.ag.report THEN @ \o r.out ELSE @]

OpenAudioConnection(p, codec) ==
  [p EXCEPT !.sco.requested = TRUE, !.sco.openedHere = TRUE, !.sco.params = codec]

StartAgAudio(p) ==
  LET r == StartAudioConnection(p.ag)
      started == [p EXCEPT !.ag = r.machine, !.sent = @ \o r.out]
  IN IF r.events = <<>> THEN started ELSE OpenAudioConnection(started, r.events[1].codec)

CloseAudioConnection(p) == [p EXCEPT !.sco.requested = FALSE]

IncomingCall(p) ==
  StartAgAudio(PushIndicator([p EXCEPT !.call = "Incoming"], CallSetupInd, 1))

BeginOutgoing(p) == PushIndicator([p EXCEPT !.call = "Dialing"], CallSetupInd, 2)

FarEndAlerts(p) == PushIndicator([p EXCEPT !.call = "Alerting"], CallSetupInd, 3)

\* call goes to 1 before callsetup drops to 0; a connected call always has audio.
ActivateCall(p) ==
  StartAgAudio(PushIndicator(PushIndicator([p EXCEPT !.call = "Active"], CallInd, 1), CallSetupInd, 0))

\* Mutant of ClearCall: callsetup drops whatever the call was.
ClearSetup(p) ==
  PushIndicator([CloseAudioConnection(p) EXCEPT !.call = "Idle"], CallSetupInd, 0)

ClearCall(p) ==
  LET closed == [CloseAudioConnection(p) EXCEPT !.call = "Idle"]
  IN IF p.call = "Idle" THEN closed
     ELSE PushIndicator(closed, IF p.call = "Active" THEN CallInd ELSE CallSetupInd, 0)

\* What the phone makes of what the head unit asked for.
OnAgEvent(p, event) ==
  CASE event.type = "Answer" /\ p.call \in {"Incoming", "Alerting"} -> ActivateCall(p)
    [] event.type = "HangUp" -> ClearCall(p)
    [] event.type = "Dial" /\ p.call = "Idle" -> BeginOutgoing(p)
    [] event.type = "AudioConnectionRequested" -> OpenAudioConnection(p, event.codec)
    [] OTHER -> p

PhoneReceives ==
  /\ up # <<>>
  /\ LET r == Dispatch(ag, Head(up))
         answered == [Phone EXCEPT !.ag = r.machine, !.sent = r.out]
     IN BecomesPhone(IF r.events = <<>> THEN answered ELSE OnAgEvent(answered, r.events[1]))
  /\ up' = Tail(up)
  /\ UNCHANGED <<hf, phase, queue, audioUp, known, ops>>

--------------------------------------------------------------------------------
(* The head unit. *)

SetupCommands == <<"CMEE", "CLIP", "CCWA", "COPS=", "COPS?", "VGS", "VGM">>

\* The next command of the queue, if the slot is free.
Pumped(machine, waiting) ==
  IF machine.pending # <<>> \/ waiting = <<>>
  THEN [hf |-> machine, queue |-> waiting, out |-> <<>>]
  ELSE LET r == SendCommand(machine, Head(waiting), 0)
       IN [hf |-> r.machine, queue |-> Tail(waiting), out |-> r.out]

BecomesHeadUnit(pumped, lines) ==
  /\ hf' = pumped.hf
  /\ queue' = pumped.queue
  /\ up' = up \o lines \o pumped.out

FollowLink ==
  /\ phase = "OpeningDlc"
  /\ phase' = "EstablishingSlc"
  /\ LET r == StartSlc(hf) IN hf' = r.machine /\ up' = up \o r.out
  /\ UNCHANGED <<ag, down, queue, call, sco, audioUp, known, ops>>

\* The machine has taken the line; then its caller acts on the event, if there is one.
HeadUnitReceives ==
  /\ down # <<>>
  /\ down' = Tail(down)
  /\ LET r == HandleResponse(hf, Head(down))
         type == IF r.events = <<>> THEN "none" ELSE r.events[1].type
         event == r.events[1]
     IN CASE type = "SlcComplete" ->
               /\ phase' = "ConfiguringHeadUnit"
               /\ BecomesHeadUnit(Pumped(r.machine, queue \o SetupCommands), r.out)
               /\ UNCHANGED known
          [] type = "CommandCompleted" ->
               /\ phase' = IF queue = <<>> /\ phase = "ConfiguringHeadUnit" THEN "Ready" ELSE phase
               /\ known' = IF event.of = "COPS?" /\ event.responses # <<>>
                           THEN event.responses[1].val ELSE known
               /\ BecomesHeadUnit(Pumped(r.machine, queue), r.out)
          [] OTHER ->
               /\ BecomesHeadUnit([hf |-> r.machine, queue |-> queue, out |-> <<>>], r.out)
               /\ UNCHANGED <<phase, known>>
  /\ UNCHANGED <<ag, call, sco, audioUp, ops>>

\* tick calls pump_command_queue too.
PumpCommandQueue ==
  /\ Told /\ hf.pending = <<>> /\ queue # <<>>
  /\ BecomesHeadUnit(Pumped(hf, queue), <<>>)
  /\ UNCHANGED <<ag, down, phase, call, sco, audioUp, known, ops>>

--------------------------------------------------------------------------------
(* The users. *)

Uses(op) == Told /\ op \in Ops /\ ops < MaxOps /\ ops' = ops + 1

PhoneUser(op, p) ==
  /\ Uses(op)
  /\ BecomesPhone(p)
  /\ UNCHANGED <<hf, up, phase, queue, audioUp, known>>

PhoneIncoming == phase = "Ready" /\ call = "Idle" /\ PhoneUser("incoming", IncomingCall(Phone))
PhoneDial == phase = "Ready" /\ call = "Idle" /\ PhoneUser("phone_dial", BeginOutgoing(Phone))
PhoneEndCall == call # "Idle" /\ PhoneUser("end", ClearCall(Phone))

\* set_indicator has no guard on the phase of the link.
SetIndicator ==
  \E value \in {0, 1} : /\ value # ag.inds[ServiceInd]
                        /\ PhoneUser("indicator", PushIndicator(Phone, ServiceInd, value))

\* The far end of an outgoing call: service_outgoing, more than a second later.
\* By then the controllers have done what they were asked.
ServiceOutgoing ==
  /\ Told /\ sco.link \in {"none", "up"}
  /\ \/ call = "Dialing" /\ BecomesPhone(FarEndAlerts(Phone))
     \/ call = "Alerting" /\ BecomesPhone(ActivateCall(Phone))
  /\ UNCHANGED <<hf, up, phase, queue, audioUp, known, ops>>

\* enqueue refuses before the link is usable.
Enqueue(op, name) ==
  /\ Uses(op)
  /\ phase \in {"ConfiguringHeadUnit", "Ready"}
  /\ BecomesHeadUnit(Pumped(hf, Append(queue, name)), <<>>)
  /\ UNCHANGED <<ag, down, phase, call, sco, audioUp, known>>

AnswerButton == call = "Incoming" /\ Enqueue("answer", "A")
HangUpButton == call # "Idle" /\ Enqueue("hang_up", "CHUP")
CarDial == call = "Idle" /\ Enqueue("car_dial", "D")
Knob == \E name \in {"VGS", "VGM", "BVRA", "CLCC"} : Enqueue("knob", name)

\* A new operator: the head unit asks again, if it is ready.
SetOperator ==
  /\ Uses("operator")
  /\ \E o \in Operators \ {ag.operator} : ag' = [ag EXCEPT !.operator = o]
  /\ BecomesHeadUnit(IF phase = "Ready" THEN Pumped(hf, Append(queue, "COPS?"))
                     ELSE [hf |-> hf, queue |-> queue, out |-> <<>>], <<>>)
  /\ UNCHANGED <<down, phase, call, sco, audioUp, known>>

--------------------------------------------------------------------------------
(* The synchronous link: produce_sco of the phone, and follow_audio. *)

\* Every step while the link is wanted and not there.
SetupSco ==
  /\ Told /\ sco.requested /\ sco.link = "none"
  /\ sco' = [sco EXCEPT !.link = "asked", !.codec = sco.params]
  /\ UNCHANGED <<hf, ag, up, down, phase, queue, call, audioUp, known, ops>>

\* The end that opened the link hangs it up once the request is withdrawn.
DisconnectSco ==
  /\ Told /\ ~sco.requested /\ sco.link = "up" /\ sco.openedHere
  /\ sco' = [sco EXCEPT !.link = "hanging", !.openedHere = FALSE]
  /\ UNCHANGED <<hf, ag, up, down, phase, queue, call, audioUp, known, ops>>

\* The controller's events: Synchronous Connection Complete, Disconnection Complete.
ScoChanges ==
  /\ Told
  /\ \/ sco.link = "asked" /\ sco' = [sco EXCEPT !.link = "up"]
     \/ sco.link = "hanging" /\ sco' = [sco EXCEPT !.link = "none"]
  /\ UNCHANGED <<hf, ag, up, down, phase, queue, call, audioUp, known, ops>>

FollowAudio ==
  /\ ~Told
  /\ audioUp' = ScoUp
  /\ ag' = SetAudioState(ag, IF ScoUp THEN "Connected" ELSE "Disconnected")
  /\ hf' = SetAudioState(hf, IF ScoUp THEN "Connected" ELSE "Disconnected")
  /\ UNCHANGED <<up, down, phase, queue, call, sco, known, ops>>

--------------------------------------------------------------------------------
Step ==
  \/ FollowLink \/ PhoneReceives \/ HeadUnitReceives \/ PumpCommandQueue
  \/ ServiceOutgoing \/ SetupSco \/ DisconnectSco \/ ScoChanges \/ FollowAudio

User ==
  \/ PhoneIncoming \/ PhoneDial \/ PhoneEndCall \/ SetIndicator
  \/ AnswerButton \/ HangUpButton \/ CarDial \/ Knob \/ SetOperator

\* Every tick steps the scene and pumps the queue; the users need not do anything.
Next == Step \/ User
Spec == Init /\ [][Next]_vars /\ WF_vars(Step)

--------------------------------------------------------------------------------
\* Nothing is under way.
Quiet ==
  /\ up = <<>> /\ down = <<>> /\ queue = <<>> /\ hf.pending = <<>>
  /\ sco.link \in {"none", "up"} /\ ScoUp = sco.requested /\ Told
\* What the head unit learned during set-up is what the phone has: features, call
\* holds, HF indicators that both know, and the AG's indicators by position.
LearnedAgrees ==
  Quiet /\ hf.slc =>
    /\ hf.features = AgFeatures /\ ag.features = HfFeatures
    /\ hf.holds = IF "three_way" \in Shared THEN CallHolds ELSE {}
    /\ hf.enabled = IF "indicators" \in Shared THEN HfIndicators \cap AgHfIndicators ELSE {}
    /\ ag.remaining = {}
    /\ hf.inds = ag.inds

\* The head unit shows the call the phone has, once every line has arrived.
CallMirrored ==
  Quiet /\ phase = "Ready" =>
    /\ hf.inds[CallInd] = IF call = "Active" THEN 1 ELSE 0
    /\ hf.inds[CallSetupInd] = CASE call = "Incoming" -> 1 [] call = "Dialing" -> 2
                                 [] call = "Alerting" -> 3 [] OTHER -> 0

\* A link that carries audio carries the codec both ends settled on, one that both can do.
CodecsAgree ==
  ScoUp /\ Told =>
    /\ sco.codec = hf.codec /\ sco.codec = ag.codec
    /\ sco.codec = Cvsd \/ sco.codec \in HfCodecs \cap AgCodecs

\* No final status is on its way while the slot is free: what has_pending_command
\* and the queue in front of it are for.
SlotTellsTruth ==
  hf.pending = <<>> => up = <<>> /\ \A k \in DOMAIN down : down[k].code \notin {"OK", "ERROR"}

\* The head unit shows the operator the phone is on, once it has asked.
OperatorKnown == Quiet /\ phase = "Ready" => known = ag.operator

\* No call, no audio: the audio goes with the call.
AudioGoesWithCall == Quiet /\ call = "Idle" => ~ScoUp

\* Set-up ends: the head unit gets ready whatever the users do.
BecomesReady == <>(phase = "Ready")

\* A connected call that nobody ends gets its audio.
CallGetsAudio == [](call = "Active" => <>(call # "Active" \/ ag.audio = "Connected"))
================================================================================
