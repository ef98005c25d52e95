---------------------------------- MODULE Hfp ----------------------------------
(***************************************************************************)
(* The two protocol machines of the Hands-Free Profile (classic/hfp.rs):   *)
(* the hands-free end (HfProtocol) that sets up the Service Level          *)
(* Connection and sends AT commands one at a time, and the audio gateway   *)
(* (AgProtocol) that answers them and speaks unasked.  Neither has a       *)
(* transport: an operator maps the state of a machine and one line to the  *)
(* new state, the lines to send and the events for the caller.             *)
(*                                                                         *)
(* A command is its name and argument; an answer line also carries, for    *)
(* the properties alone, the command it answers.  Volume, caller id and    *)
(* ring lines only raise events and are left out, as are the refusals of   *)
(* commands that are malformed.                                            *)
(***************************************************************************)
EXTENDS Naturals, Sequences, FiniteSets

CONSTANTS HfFeatures,   \* "codecs", "three_way", "indicators": what the HF advertises
          AgFeatures,   \* and the AG
          HfCodecs,     \* codecs of the HF: 1 CVSD, 2 mSBC, 3 LC3-SWB
          AgCodecs,
          HfIndicators, \* HF indicators each end knows
          AgHfIndicators,
          CallHolds     \* AT+CHLD operations of the AG

Cvsd == 1
Shared == HfFeatures \cap AgFeatures

Command(name, arg) == [name |-> name, arg |-> arg]

\* The response code that the text of a command contains.
Code(name) ==
  CASE name \in {"CIND=?", "CIND?"} -> "CIND"
    [] name \in {"BIND=", "BIND=?", "BIND?"} -> "BIND"
    [] name \in {"COPS=", "COPS?"} -> "COPS"
    [] name \in {"CHLD=", "CHLD=?"} -> "CHLD"
    [] OTHER -> name

Line(code, val) == [code |-> code, val |-> val, of |-> "none"]
Status(code, cmd) == [code |-> code, val |-> 0, of |-> cmd.name]

--------------------------------------------------------------------------------
(* HfProtocol. *)

HfNew ==
  [pending |-> <<>>, step |-> FALSE, responses |-> <<>>, features |-> {}, holds |-> {},
   inds |-> <<>>, supported |-> {}, enabled |-> {}, codec |-> Cvsd,
   audio |-> "Disconnected", slc |-> FALSE]

\* A machine, what it sends and what it tells its caller.
Result(machine, out, events) == [machine |-> machine, out |-> out, events |-> events]

\* begin_step and send_command: the single slot for the command under way.
Occupied(hf, cmd, step) ==
  [hf EXCEPT !.pending = <<cmd>>, !.responses = <<>>, !.step = step]

BeginStep(hf, name, arg) ==
  Result(Occupied(hf, Command(name, arg), TRUE), <<Command(name, arg)>>, <<>>)

SendCommand(hf, name, arg) ==
  Result(Occupied(hf, Command(name, arg), FALSE), <<Command(name, arg)>>, <<>>)

StartSlc(hf) == BeginStep(hf, "BRSF", HfFeatures)

SetAudioState(machine, state) == [machine EXCEPT !.audio = state]

StartHfIndicatorsOrFinish(hf) ==
  IF "indicators" \in HfFeatures \cap hf.features
  THEN BeginStep(hf, "BIND=", HfIndicators)
  ELSE Result([hf EXCEPT !.slc = TRUE], <<>>, <<[type |-> "SlcComplete", of |-> "none"]>>)

\* What the answers to a step taught the HF: nothing when there were none.
Learned(hf, name, responses) ==
  CASE name = "BRSF" ->
         [hf EXCEPT !.features = IF responses = <<>> THEN {} ELSE responses[1].val]
    [] name = "CIND=?" ->
         [hf EXCEPT !.inds = IF responses = <<>> THEN <<>> ELSE responses[1].val]
    [] name = "CIND?" ->
         [hf EXCEPT !.inds = [i \in DOMAIN @ |->
            IF responses # <<>> /\ i <= Len(responses[1].val) THEN responses[1].val[i] ELSE @[i]]]
    [] name = "CHLD=?" ->
         [hf EXCEPT !.holds = IF responses = <<>> THEN @ ELSE responses[1].val]
    [] name = "BIND=?" ->
         [hf EXCEPT !.supported = IF responses = <<>> THEN @
                                  ELSE @ \cup (HfIndicators \cap responses[1].val)]
    [] name = "BIND?" ->
         [hf EXCEPT !.enabled = @ \cup (HfIndicators \cap {responses[k].val : k \in DOMAIN responses})]
    [] OTHER -> hf

AdvanceSlc(before, name, responses) ==
  LET hf == Learned(before, name, responses)
  IN CASE name = "BRSF" -> IF "codecs" \in HfFeatures \cap hf.features
                           THEN BeginStep(hf, "BAC", HfCodecs) ELSE BeginStep(hf, "CIND=?", 0)
       [] name = "BAC" -> BeginStep(hf, "CIND=?", 0)
       [] name = "CIND=?" -> BeginStep(hf, "CIND?", 0)
       [] name = "CIND?" -> BeginStep(hf, "CMER", 1)
       [] name = "CMER" -> IF "three_way" \in HfFeatures \cap hf.features
                           THEN BeginStep(hf, "CHLD=?", 0) ELSE StartHfIndicatorsOrFinish(hf)
       [] name = "CHLD=?" -> StartHfIndicatorsOrFinish(hf)
       [] name = "BIND=" -> BeginStep(hf, "BIND=?", 0)
       [] name = "BIND=?" -> BeginStep(hf, "BIND?", 0)
       [] name = "BIND?" -> Result([hf EXCEPT !.slc = TRUE], <<>>,
                                   <<[type |-> "SlcComplete", of |-> "none"]>>)

\* Of the lines the AG sends unasked, +BCS is answered by a command that takes no slot.
HandleUnsolicited(hf, line) ==
  CASE line.code = "BCS" ->
         Result(SetAudioState([hf EXCEPT !.codec = line.val], "Connecting"),
                <<Command("BCS", line.val)>>, <<>>)
    [] line.code = "CIEV" ->
         Result([hf EXCEPT !.inds = [i \in DOMAIN @ |->
                   IF i = line.val.index THEN line.val.value ELSE @[i]]], <<>>, <<>>)
    [] OTHER -> Result(hf, <<>>, <<>>)

\* Any final status, and any line whose code the command contains, is taken for
\* an answer to the command under way.
HandleResponse(hf, line) ==
  LET cmd == hf.pending[1]
      freed == [hf EXCEPT !.pending = <<>>, !.responses = <<>>, !.step = FALSE]
      completed == <<[type |-> "CommandCompleted", of |-> cmd.name, responses |-> hf.responses]>>
  IN IF hf.pending = <<>> \/ line.code \notin {"OK", "ERROR", Code(cmd.name)}
     THEN HandleUnsolicited(hf, line)
     ELSE IF line.code = "OK" /\ hf.step THEN AdvanceSlc(freed, cmd.name, hf.responses)
     ELSE IF line.code \in {"OK", "ERROR"} THEN Result(freed, <<>>, completed)
     ELSE Result([hf EXCEPT !.responses = Append(@, line)], <<>>, <<>>)

--------------------------------------------------------------------------------
(* AgProtocol. *)

AgNew(inds, operator) ==
  [features |-> {}, remaining |-> {}, codecs |-> {}, hfInds |-> {}, inds |-> inds,
   codec |-> Cvsd, audio |-> "Disconnected", report |-> FALSE,
   operator |-> operator, cops |-> FALSE]

\* Mutant of CodecToNegotiate: the best codec of the AG alone.
BestOwnCodec(ag) ==
  IF "codecs" \in AgFeatures \cap ag.features THEN {CHOOSE c \in AgCodecs : \A d \in AgCodecs : d <= c} ELSE {}

\* The widest codec both ends support; none when the feature is not shared.
CodecToNegotiate(ag) ==
  IF "codecs" \in AgFeatures \cap ag.features
  THEN {c \in AgCodecs \cap ag.codecs : \A d \in AgCodecs \cap ag.codecs : d <= c}
  ELSE {}

Event(type) == [type |-> type, codec |-> Cvsd]
AudioRequested(codec) == [type |-> "AudioConnectionRequested", codec |-> codec]

StartAudioConnection(ag) ==
  IF ag.audio # "Disconnected" THEN Result(ag, <<>>, <<>>)
  ELSE IF CodecToNegotiate(ag) # {}
  THEN LET codec == CHOOSE c \in CodecToNegotiate(ag) : TRUE
       IN Result(SetAudioState([ag EXCEPT !.codec = codec], "Negotiating"),
                 <<Line("BCS", codec)>>, <<>>)
  ELSE Result(SetAudioState([ag EXCEPT !.codec = Cvsd], "Connecting"), <<>>,
              <<AudioRequested(Cvsd)>>)

CheckRemaining(remaining) == IF remaining = {} THEN <<Event("SlcComplete")>> ELSE <<>>

Answer(ag, lines, cmd, events) == Result(ag, Append(lines, Status("OK", cmd)), events)
Refusal(ag, cmd) == Result(ag, <<Status("ERROR", cmd)>>, <<>>)

OnBcs(ag, cmd) ==
  LET settled == [ag EXCEPT !.codec = cmd.arg]
  IN IF ag.audio = "Negotiating"
     THEN Answer(SetAudioState(settled, "Connecting"), <<>>, cmd, <<AudioRequested(cmd.arg)>>)
     ELSE Answer(settled, <<>>, cmd, <<>>)

OnChldTest(ag, cmd) ==
  LET left == ag.remaining \ {"three_way"}
  IN IF "three_way" \notin AgFeatures THEN Refusal(ag, cmd)
     ELSE Answer([ag EXCEPT !.remaining = left], <<Line("CHLD", CallHolds)>>, cmd,
                 CheckRemaining(left))

OnBindRead(ag, cmd) ==
  LET left == ag.remaining \ {"indicators"}
      lines == [k \in 1 .. Cardinality(ag.hfInds) |->
                  Line("BIND", CHOOSE i \in ag.hfInds : Cardinality({j \in ag.hfInds : j < i}) = k - 1)]
  IN IF "indicators" \notin AgFeatures THEN Refusal(ag, cmd)
     ELSE Answer([ag EXCEPT !.remaining = left], lines, cmd, CheckRemaining(left))

\* Every other command that the AG only answers, with an event at most.
OnSimple(ag, cmd) ==
  LET type == CASE cmd.name = "A" -> "Answer" [] cmd.name = "CHUP" -> "HangUp"
                [] cmd.name = "D" -> "Dial" [] OTHER -> "none"
  IN Answer(ag, <<>>, cmd, <<Event(type)>>)

OnBrsf(ag, cmd) ==
  Answer([ag EXCEPT !.features = cmd.arg,
                    !.remaining = @ \cup (AgFeatures \cap cmd.arg \cap {"indicators", "three_way"})],
         <<Line("BRSF", AgFeatures)>>, cmd, <<>>)

OnBac(ag, cmd) == Answer([ag EXCEPT !.codecs = cmd.arg], <<>>, cmd, <<>>)

OnCindTest(ag, cmd) == Answer(ag, <<Line("CIND", [i \in DOMAIN ag.inds |-> 0])>>, cmd, <<>>)

OnCindRead(ag, cmd) == Answer(ag, <<Line("CIND", ag.inds)>>, cmd, CheckRemaining(ag.remaining))

OnCmer(ag, cmd) == Answer([ag EXCEPT !.report = cmd.arg # 0], <<>>, cmd, <<>>)

OnBind(ag, cmd) ==
  IF "indicators" \notin AgFeatures THEN Refusal(ag, cmd)
  ELSE Answer([ag EXCEPT !.hfInds = AgHfIndicators \cap cmd.arg], <<>>, cmd, <<>>)

OnBindTest(ag, cmd) ==
  IF "indicators" \notin AgFeatures THEN Refusal(ag, cmd)
  ELSE Answer(ag, <<Line("BIND", AgHfIndicators)>>, cmd, <<>>)

OnCopsSet(ag, cmd) == Answer([ag EXCEPT !.cops = TRUE], <<>>, cmd, <<>>)

OnCopsRead(ag, cmd) ==
  IF ag.cops THEN Answer(ag, <<Line("COPS", ag.operator)>>, cmd, <<>>) ELSE Refusal(ag, cmd)

Dispatch(ag, cmd) ==
  CASE cmd.name = "BRSF" -> OnBrsf(ag, cmd)
    [] cmd.name = "BAC" -> OnBac(ag, cmd)
    [] cmd.name = "BCS" -> OnBcs(ag, cmd)
    [] cmd.name = "CIND=?" -> OnCindTest(ag, cmd)
    [] cmd.name = "CIND?" -> OnCindRead(ag, cmd)
    [] cmd.name = "CMER" -> OnCmer(ag, cmd)
    [] cmd.name = "CHLD=?" -> OnChldTest(ag, cmd)
    [] cmd.name = "BIND=" -> OnBind(ag, cmd)
    [] cmd.name = "BIND=?" -> OnBindTest(ag, cmd)
    [] cmd.name = "BIND?" -> OnBindRead(ag, cmd)
    [] cmd.name = "COPS=" -> OnCopsSet(ag, cmd)
    [] cmd.name = "COPS?" -> OnCopsRead(ag, cmd)
    [] OTHER -> OnSimple(ag, cmd)

\* update_ag_indicator: the line is the caller's to send or not.
UpdateAgIndicator(ag, index, value) ==
  Result([ag EXCEPT !.inds[index] = value],
         <<Line("CIEV", [index |-> index, value |-> value])>>, <<>>)
================================================================================
