------------------------------- MODULE MCSessions -------------------------------
(***************************************************************************)
(* Session protocols side by side, for one run of TLC: `part` says which   *)
(* of them a behaviour is about, and s1 .. s15 are that one's variables.   *)
(* The components do not interact; each keeps its module, its constants    *)
(* and its fairness.                                                       *)
(***************************************************************************)
EXTENDS Naturals, Sequences

VARIABLES part, s1, s2, s3, s4, s5, s6, s7, s8, s9, s10, s11, s12, s13, s14, s15

End == {1, 2}

\* Pairing: Secure Connections and legacy, with all, some and none of the keys distributed.
Config(sc, i, r) == [sc |-> sc, bonding |-> TRUE, defer |-> FALSE, initKeys |-> i, respKeys |-> r]
PairConfigs ==
  {Config(TRUE, {"ENC", "ID"}, {"ENC", "ID"}), Config(FALSE, {"ENC"}, {"ENC", "SIGN"}),
   Config(TRUE, {"ID"}, {}), Config(TRUE, {}, {"ID"})}

Smp == INSTANCE SmpPairing WITH
  Configs <- PairConfigs, Starters <- {1, 2}, Defers <- {2}, MaxStarts <- 2, MaxLinks <- 2, Restart <- FALSE,
  conn <- s1, bond <- s2, wire <- s3, fresh <- s4, starts <- s5, links <- s6

\* RFCOMM: the responder serves channels 1 and 2 but not 3; the initiator ends the session.
Mux == INSTANCE RfcommMux WITH
  Channels <- {1, 2, 3}, Listened <- <<{}, {1, 2}>>, MaxWire <- 3,
  Ops <- {<<1, "start">>, <<1, "open">>, <<1, "close">>, <<2, "close">>, <<1, "disconnect">>},
  state <- s1, dlcs <- s2, pending <- s3, wire <- s4, told <- s5, openDue <- s6

\* Hands-free: everything negotiable, a codec only the phone has, an indicator only the car has.
Features == {"codecs", "three_way", "indicators"}
Car == INSTANCE CarKit WITH
  HfFeatures <- Features, AgFeatures <- Features, HfCodecs <- {1, 2}, AgCodecs <- {1, 2, 3},
  HfIndicators <- {1, 2}, AgHfIndicators <- {2}, CallHolds <- {0, 1}, Operators <- {"A"}, MaxOps <- 4,
  Ops <- {"incoming", "phone_dial", "end", "answer", "hang_up", "car_dial"},
  hf <- s1, ag <- s2, up <- s3, down <- s4, phase <- s5, queue <- s6, call <- s7, sco <- s8,
  audioUp <- s9, known <- s10, ops <- s11

\* Remote control: metadata that takes three fragments, and two.
Rc == INSTANCE Avrcp WITH
  Labels <- 4, Pieces <- <<3, 2>>, Room <- 1, MaxSessions <- 1, MaxOps <- 2,
  Ops <- {"key", "status", "metadata", "monitor", "player", "other"},
  tg <- s1, ct <- s2, toTg <- s3, toCt <- s4, isUp <- s5, sessions <- s6, ops <- s7

\* Paging: a controller that may never scan, a host that may never answer.
Page == INSTANCE ClassicLink WITH
  N <- 2, PageTimeoutTicks <- 3, MaxHandle <- 1, MaxActions <- 1, Ops <- {"scan", "create", "cancel", "answer"},
  phase <- s1, turn <- s2, actions <- s3, scan <- s4, page <- s5, inbound <- s6, conns <- s7, inboundSco <- s8, sco <- s9,
  nextHandle <- s10, told <- s11, createDue <- s12, answerDue <- s13, setupDue <- s14, orphaned <- s15

FreeFrom12 == s12 = 0 /\ s13 = 0 /\ s14 = 0 /\ s15 = 0
FreeFrom8 == s8 = 0 /\ s9 = 0 /\ s10 = 0 /\ s11 = 0 /\ FreeFrom12
FreeFrom7 == s7 = 0 /\ FreeFrom8

Init ==
  \/ part = "smp" /\ Smp!Init /\ FreeFrom7
  \/ part = "mux" /\ Mux!Init /\ FreeFrom7
  \/ part = "car" /\ Car!Init /\ FreeFrom12
  \/ part = "rc" /\ Rc!Init /\ FreeFrom8
  \/ part = "page" /\ Page!Init

\* A step of a component, which leaves the part and the variables it has no use for alone.
SmpStep(A) == part = "smp" /\ A /\ UNCHANGED <<part, s7, s8, s9, s10, s11, s12, s13, s14, s15>>
MuxStep(A) == part = "mux" /\ A /\ UNCHANGED <<part, s7, s8, s9, s10, s11, s12, s13, s14, s15>>
CarStep(A) == part = "car" /\ A /\ UNCHANGED <<part, s12, s13, s14, s15>>
PageStep(A) == part = "page" /\ A /\ UNCHANGED part
RcStep(A) == part = "rc" /\ A /\ UNCHANGED <<part, s8, s9, s10, s11, s12, s13, s14, s15>>

Next == SmpStep(Smp!Next) \/ MuxStep(Mux!Next) \/ CarStep(Car!Next) \/ RcStep(Rc!Next) \/ PageStep(Page!Next)

vars == <<part, s1, s2, s3, s4, s5, s6, s7, s8, s9, s10, s11, s12, s13, s14, s15>>

\* The fairness of the components.  Only one of them runs in a behaviour, so one
\* condition can hold the conditions of several.
Fairness ==
  /\ \A e \in End :
       /\ WF_vars(SmpStep(Smp!Receive(e)) \/ MuxStep(Mux!Receive(e)))
       /\ WF_vars(SmpStep(Smp!Expire(e)))
       /\ WF_vars(SmpStep(Smp!EncryptionChanged(e)))
  /\ WF_vars(CarStep(Car!Step) \/ RcStep(Rc!Deliver) \/ PageStep(Page!Tick))
  /\ WF_vars(RcStep(Rc!OpenChannel))

Spec == Init /\ [][Next]_vars /\ Fairness

--------------------------------------------------------------------------------
\* Two ends whose pairing stands and who both hold the link for encrypted hold it
\* with the same key, what both stored of it opens the same link again, and when
\* nothing is under way no session is still in progress but one that waits for a
\* session that timed out (process_smp_packet, pairing_keys, on_link_encrypted).
PairingAgrees == part = "smp" => Smp!KeysAgree /\ Smp!BondsAgree /\ Smp!PairingCompletes

\* When nothing is under way, both multiplexers have the same connections and both
\* hosts know exactly those; none outlives the session (close_all_dlcs).
SessionsAgree == part = "mux" => Mux!SessionsAgree

\* What the head unit learned while setting up is what the phone has, it shows the
\* call the phone has once every line has arrived, and a link that carries audio
\* carries the codec both ends settled on (advance_slc, clear_call, codec_to_negotiate).
HandsFreeAgrees == part = "car" => Car!LearnedAgrees /\ Car!CallMirrored /\ Car!CodecsAgree

\* What may be waited for: a pairing in progress at an end, an open_dlc of a
\* channel, the set-up of the service level connection, a query for metadata, the
\* completion of a Create Connection.
Waiting(k) ==
  CASE part = "smp" -> k \in End /\ Smp!InProgress(k)
    [] part = "mux" -> \E e \in End : k \in s6[e]
    [] part = "car" -> k = 1 /\ s5 # "Ready"
    [] part = "rc" -> k = 1 /\ Rc!InFlight("GetElementAttributes")
    [] part = "page" -> k \in s12

\* Nothing is waited for without end: the pairing timer runs until the session
\* completes or fails (tick), every open_dlc is answered by the connection, a
\* refusal or the end of the session, the head unit gets ready whatever its users
\* do, metadata arrives unless its channel is closed, and a page ends whether or not
\* its target scans and its host answers (page timeout).
WaitsEnd == \A k \in 1 .. 3 : Waiting(k) ~> ~Waiting(k)
================================================================================
