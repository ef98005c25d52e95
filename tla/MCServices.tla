------------------------------- MODULE MCServices -------------------------------
(***************************************************************************)
(* Attribute services and the profiles over them, side by side, for one    *)
(* run of TLC: `part` says which a behaviour is about, and s1 .. s16 are   *)
(* that one's variables.  The parts do not interact.                       *)
(***************************************************************************)
EXTENDS Integers, Sequences, AttributeTable

VARIABLES part, s1, s2, s3, s4, s5, s6, s7, s8, s9, s10, s11, s12, s13, s14, s15, s16

vars == <<part, s1, s2, s3, s4, s5, s6, s7, s8, s9, s10, s11, s12, s13, s14, s15, s16>>

\* GATT: two services with three characteristics, of both UUID lengths, one that
\* notifies and one that indicates.  A bonded peer comes back ("again"), operations
\* are aimed at handles and at what is not there ("aimed"), links fail ("found").
Char(u, long, notify, indicate, write) ==
  [uuid |-> u, long |-> long, notify |-> notify, indicate |-> indicate, write |-> write]
GattServices ==
  <<[uuid |-> "s1", long |-> FALSE, chars |-> <<Char("a", FALSE, TRUE, FALSE, TRUE), Char("b", TRUE, FALSE, TRUE, FALSE)>>],
    [uuid |-> "s2", long |-> TRUE, chars |-> <<Char("c", FALSE, FALSE, FALSE, TRUE)>>]>>
GattAttributes == AttributesOf(GattServices)
GattBounds ==
  [again |-> [ops |-> 1, changes |-> 1, links |-> 2], aimed |-> [ops |-> 1, changes |-> 2, links |-> 1],
   found |-> [ops |-> 0, changes |-> 0, links |-> 2]]
GattParts == DOMAIN GattBounds
GattTargets(p) ==
  {[uuid |-> "a"], [uuid |-> "b"]} \cup (IF p = "aimed" THEN {[handle |-> 9], [uuid |-> "z"]} ELSE {})
Gatt(p) == INSTANCE Gatt WITH
  Services <- GattServices, Attributes <- GattAttributes, Values <- {7, 8}, Targets <- GattTargets(p),
  OpBound <- GattBounds[p].ops, ChangeBound <- GattBounds[p].changes, LinkBound <- GattBounds[p].links,
  phase <- s1, at <- s2, services <- s3, pending <- s4, inFlight <- s5, values <- s6, subscribed <- s7, up <- s8, down <- s9,
  conn <- s10, db <- s11, last <- s12, indicating <- s13, bond <- s14, told <- s15, budget <- s16

\* Control points: three presets, one not writable and one not available.
CpParts == {"volume", "offset", "input", "hearing", "media"}
CpPresets == [i \in 1 .. 3 |-> [writable |-> i # 2, available |-> i # 3, name |-> "p"]]
CpInput(mode, mute) == [gain |-> 0, mute |-> mute, mode |-> mode, counter |-> 0]
Cp(p) == INSTANCE ControlPoints WITH
  Service <- p, Clients <- IF p = "hearing" THEN {1} ELSE {1, 2}, Top <- 3, Step <- 2, Wrap <- 8,
  Configured <- {CpInput("Manual", "NotMuted"), CpInput("AutomaticOnly", "NotMuted"), CpInput("ManualOnly", "Disabled")},
  Presets <- CpPresets, Durations <- {2, 5}, MaxOps <- IF p = "hearing" THEN 3 ELSE 4,
  svc <- s1, db <- s2, raw <- s3, seen <- s4, last <- s5, told <- s6, mirror <- s7, ops <- s8

\* Unicast audio: a sink and a source endpoint; one other write and one loss.
Audio == INSTANCE LeAudio WITH
  Roles <- <<"Sink", "Source">>, Room <- 1, MaxSdus <- 3, MaxWrites <- 1, MaxFaults <- 1,
  ase <- s1, shown <- s2, answer <- s3, src <- s4, writes <- s5, hci <- s6, events <- s7, stream <- s8, sent <- s9, budget <- s10

\* Broadcast assistant: a delegator with one receive state, and one with two.
BassSlots == [bass |-> 1, bass2 |-> 2]
BassParts == DOMAIN BassSlots
Bass(p) == INSTANCE Bass WITH
  Slots <- BassSlots[p], IdWrap <- 4, Casts <- {1, 2}, MaxOps <- 3, MaxRadio <- 1,
  Asks <- [op : {"add"}, cast : {1, 2}, pa : {"PastNotAvailable"}] \cup [op : {"remove"}, id : {0, 1}]
          \cup {[op |-> "modify", id |-> 0, pa |-> "PastAvailable"], [op |-> "scan_started"]},
  source <- s1, nextId <- s2, scanning <- s3, shown <- s4, flushed <- s5, cccd <- s6, attempt <- s7, central <- s8, as <- s9,
  added <- s10, up <- s11, down <- s12, ops <- s13

\* A phone's notifications: two categories, a text with a zero in it, labels that allow an
\* action; answers cut anywhere, questions the phone refuses.
Note(category, flags, title, label) ==
  [category |-> category, flags |-> flags,
   text |-> [i \in 0 .. 7 |-> CASE i = 0 -> <<65>> [] i = 1 -> title [] i = 3 -> <<7, 7, 7>> [] i = 6 -> label [] OTHER -> <<>>]]
Want(id, max) == [id |-> id, max |-> max]
Question(u, wants) == [op |-> "attributes", uid |-> u, wants |-> wants, short |-> FALSE]
AppQuestion(wants) == [op |-> "app", app |-> 65, wants |-> wants, short |-> FALSE]
NoteRequests ==
  {Question(0, <<Want(1, 2), Want(0, 0)>>), Question(1, <<Want(1, 9), Want(4, 0)>>), Question(0, <<Want(9, 0)>>),
   [Question(0, <<>>) EXCEPT !.short = TRUE], AppQuestion(<<Want(0, 0)>>), AppQuestion(<<Want(3, 0)>>), [AppQuestion(<<>>) EXCEPT !.short = TRUE]}
    \cup [op : {"perform"}, uid : {0, 1}, flag : {8, 16}, short : BOOLEAN]
Phone == INSTANCE Ancs WITH
  Contents <- {Note(1, {1}, <<1, 0, 3>>, <<>>), Note(1, {}, <<>>, <<9>>), Note(2, {2}, <<5>>, <<9>>)},
  Apps <- [a \in {65} |-> <<66, 67>>], Requests <- NoteRequests, MaxUid <- 2, MaxOps <- 4, Serial <- TRUE,
  notes <- s1, nextUid <- s2, apps <- s3, events <- s4, answers <- s5, client <- s6, known <- s7, ops <- s8

\* A phone's player, by what is played and how.
MediaOps ==
  [tracks |-> {"Play", "TogglePlayPause", "Pause", "NextTrack", "PreviousTrack", "SkipForward", "SkipBackward", "info", "track", "queue"},
   sound |-> {"VolumeUp", "VolumeDown", "AdvanceRepeatMode", "AdvanceShuffleMode", "LikeTrack", "supported", "modes", "volume", "name"}]
MediaParts == DOMAIN MediaOps
Media(p) == INSTANCE Ams WITH
  Texts <- {[v |-> "x", long |-> FALSE], [v |-> "y", long |-> TRUE]}, Times <- {0, 2}, Ops <- MediaOps[p], MaxOps <- 3,
  player <- s1, subscriptions <- s2, updates <- s3, selected <- s4, client <- s5, fetching <- s6, ops <- s7

FreeFrom14 == s14 = 0 /\ s15 = 0 /\ s16 = 0
FreeFrom11 == s11 = 0 /\ s12 = 0 /\ s13 = 0 /\ FreeFrom14
FreeFrom9 == s9 = 0 /\ s10 = 0 /\ FreeFrom11

Init ==
  \/ \E p \in GattParts : part = p /\ Gatt(p)!Init
  \/ \E p \in CpParts : part = p /\ Cp(p)!Init /\ FreeFrom9
  \/ part = "audio" /\ Audio!Init /\ FreeFrom11
  \/ \E p \in BassParts : part = p /\ Bass(p)!Init /\ FreeFrom14
  \/ part = "phone" /\ Phone!Init /\ FreeFrom9
  \/ \E p \in MediaParts : part = p /\ Media(p)!Init /\ s8 = 0 /\ FreeFrom9

\* A step of a part, which leaves the variables it has no use for alone.
GattStep(p, A) == part = p /\ A /\ UNCHANGED part
CpStep(p, A) == part = p /\ A /\ UNCHANGED <<part, s9, s10, s11, s12, s13, s14, s15, s16>>
AudioStep(A) == part = "audio" /\ A /\ UNCHANGED <<part, s11, s12, s13, s14, s15, s16>>
BassStep(p, A) == part = p /\ A /\ UNCHANGED <<part, s14, s15, s16>>
PhoneStep(A) == part = "phone" /\ A /\ UNCHANGED <<part, s9, s10, s11, s12, s13, s14, s15, s16>>
MediaStep(p, A) == part = p /\ A /\ UNCHANGED <<part, s8, s9, s10, s11, s12, s13, s14, s15, s16>>

Next ==
  \/ \E p \in GattParts : GattStep(p, Gatt(p)!Next)
  \/ \E p \in CpParts : CpStep(p, Cp(p)!Next)
  \/ AudioStep(Audio!Next)
  \/ \E p \in BassParts : BassStep(p, Bass(p)!Next)
  \/ PhoneStep(Phone!Next)
  \/ \E p \in MediaParts : MediaStep(p, Media(p)!Next)

\* The fairness of Gatt, where it is asked whether discovery ends.
Fairness ==
  /\ WF_vars(GattStep("found", Gatt("found")!ServerReceive)) /\ WF_vars(GattStep("found", Gatt("found")!CentralReceive))
  /\ WF_vars(GattStep("found", Gatt("found")!Flush)) /\ WF_vars(GattStep("found", Gatt("found")!Tick))

Spec == Init /\ [][Next]_vars /\ Fairness

--------------------------------------------------------------------------------
\* What a service shows in its characteristics is the state it keeps: volume,
\* input, presets and player as the last command or the device left them, each
\* stream endpoint in its state, and each broadcast source with the outcome that
\* was measured for it (publish, publish_slot, set_value after every change).
StateShown ==
  /\ \A p \in CpParts : part = p => Cp(p)!StateShown
  /\ part = "audio" => Audio!EndpointsShown
  /\ \A p \in BassParts : part = p => Bass(p)!ReceiveStatesRight

\* A command that names the change counter its client read is applied to the state
\* that client read, however the clients' reads and writes interleave
\* (VolumeState::apply, AudioInputState::apply, VolumeOffsetState::apply).
AppliedAsSeen == [][\A p \in CpParts : part = p => Cp(p)!Applied]_vars

\* What a client knows is what the server has: the services it discovered, the
\* answer to the operation it asked for, the values it subscribed to once every
\* notification is in, the subscriptions a bond keeps, the sources of a scan delegator, the
\* notifications of a phone with the attributes it asked for, and its player; a source
\* of audio that says it streams has a stream with a data path (dispatch_att,
\* complete_operation, flush_value_notifications, on_receive_state, emit_event,
\* on_data_source_notification, emit_update, advance_stream).
ClientsKnow ==
  /\ \A p \in GattParts : part = p => Gatt(p)!Discovered /\ Gatt(p)!AnswersMatch /\ Gatt(p)!SubscribersUpToDate /\ Gatt(p)!BondKeepsSubscriptions
  /\ part = "audio" => Audio!StreamReady
  /\ \A p \in BassParts : part = p => Bass(p)!SourcesKnown
  /\ part = "phone" => Phone!EventsTellAll /\ Phone!AnswersWhole
  /\ \A p \in MediaParts : part = p => Media(p)!PlayerMirrored

\* Audio queued before its stream ran and audio sent after are sent in the order
\* the application gave them, none twice (send_audio, drain_audio).
AudioInOrder == part = "audio" => Audio!AudioInOrder

\* Discovery comes to an end: ready, or without its link (next_discovery).
DiscoveryEnds == (part = "found" /\ Gatt("found")!Discovering) ~> (part = "found" /\ s1 \in {"Ready", "Disconnected"})
================================================================================
