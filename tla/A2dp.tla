---------------------------------- MODULE A2dp ----------------------------------
(***************************************************************************)
(* A phone that finds a speaker and plays to it (device/a2dp.rs,           *)
(* device/a2dp_source_runner.rs, device/profile_scene.rs): the ladder from *)
(* inquiry to AVDTP, the source that drives the stream from one AVDTP      *)
(* event to the next, the sink, their two channels on one PSM, and the     *)
(* audio that is fed, encoded, sent and received.                          *)
(*                                                                         *)
(* What ClassicHost makes of the controller's events is a small record;    *)
(* AVDTP's endpoints are the ones Avdtp models, here one at either end and *)
(* one command at a time.  PCM is counted in samples, numbered from 0; a   *)
(* frame names its first one.  The channels of a link are numbered in the  *)
(* order they were asked for; a link carries everything in order, so that  *)
(* no message overtakes what opens or closes a channel.                    *)
(***************************************************************************)
EXTENDS Naturals, FiniteSets, Sequences, TLC

CONSTANTS Cases,     \* what the phone is to do, and which speaker it meets; see below
          PcmLen,    \* interleaved samples of one SBC frame (256 in the code)
          Lead,      \* samples of either channel fed ahead of time (8820 in the code)
          Rate,      \* samples of either channel played between two ticks of the clock
          Wrap,      \* timestamps count modulo this (2^32 in the code)
          MaxNow,      \* bound on the clock
          MaxLinks,    \* bound on the number of links
          MaxChannels  \* bound on the channels of one link

\* A case is a record of ladder, "runner" (A2dpSourceRunner) or "scene" (ProfileScene);
\* target, the set of the device to find, {} for any Audio/Video one; devices[d], whether
\* it is an Audio/Video one and named in its inquiry response, where 1 is the speaker;
\* pair, whether the runner pairs; can, what the speaker's endpoint offers; forced, the
\* set of the configuration of misconfigure_with; pcm, the samples to play; peer, the
\* commands the speaker gives by itself; losses, of "link" and "channel".

None == 0
Channels == 1 .. MaxChannels

VARIABLES
  case,  \* the element of Cases this behaviour is about
  run,   \* A2dpSourceRunner, or ProfileScene
  host,  \* the phone's ClassicHost
  src,   \* A2dpSource
  snk,   \* A2dpSink
  wire,  \* wire[c]: the messages on channel c, to the sink and to the source
  open,  \* channels of this link: asked for by the source, open at either end, gone
  now

vars == <<case, run, host, src, snk, wire, open, now>>

--------------------------------------------------------------------------------
(* SBC operating points. *)

Sbc(sf, mode, blocks, subbands, alloc, low, high) ==
  [sf |-> sf, mode |-> mode, blocks |-> blocks, subbands |-> subbands, alloc |-> alloc, low |-> low, high |-> high]

FullCapability ==
  Sbc({16000, 32000, 44100, 48000}, {"Mono", "Dual", "Stereo", "Joint"}, {4, 8, 12, 16}, {4, 8}, {"SNR", "Loudness"}, 2, 53)

HighQuality == Sbc({44100}, {"Joint"}, {16}, {8}, {"Loudness"}, 2, 53)

Fields == {"sf", "mode", "blocks", "subbands", "alloc"}

\* SbcMediaCodecInformation::intersect, and whether it returns anything.
Larger(x, y) == IF x > y THEN x ELSE y
Smaller(x, y) == IF x < y THEN x ELSE y
Intersect(a, b) ==
  Sbc(a.sf \cap b.sf, a.mode \cap b.mode, a.blocks \cap b.blocks, a.subbands \cap b.subbands, a.alloc \cap b.alloc,
      Larger(a.low, b.low), Smaller(a.high, b.high))
Operable(i) == i.low <= i.high /\ \A f \in Fields : i[f] # {}
\* Mutant of Proposed: the bitpool is the one the source would like.
ProposedFull(can) == IF case.forced # {} THEN CHOOSE config \in case.forced : TRUE ELSE HighQuality

\* The configuration the source proposes to a speaker that offers `can`.
Proposed(can) ==
  IF case.forced # {} THEN CHOOSE config \in case.forced : TRUE
  ELSE [HighQuality EXCEPT !.low = Intersect(HighQuality, can).low, !.high = Intersect(HighQuality, can).high]

\* configuration_error finds nothing wrong with it.
Rendered(want, can) ==
  /\ \A f \in Fields : Cardinality(want[f]) = 1 /\ want[f] \subseteq can[f]
  /\ can.low <= want.low /\ want.low <= want.high /\ want.high <= can.high

--------------------------------------------------------------------------------
(* The sink. *)

NewSink == [state |-> "Idle", config |-> {}, sig |-> None, media |-> None, awaiting |-> FALSE, attached |-> None]

\* on_channel_open: the first channel is the signalling one, a later one carries the
\* stream that was opened, if its endpoint is ready for it.
SinkOnChannelOpen(s, c) ==
  IF s.sig = None THEN [s EXCEPT !.sig = c]
  ELSE IF ~s.awaiting THEN s
  ELSE IF s.state \in {"Open", "Streaming"} THEN [s EXCEPT !.awaiting = FALSE, !.media = c, !.attached = c]
  ELSE [s EXCEPT !.awaiting = FALSE]

SinkOnChannelLost(s, c) ==
  IF s.media = c THEN [s EXCEPT !.media = None, !.attached = IF @ = c THEN None ELSE @]
  ELSE IF s.sig = c THEN [s EXCEPT !.sig = None]
  ELSE s

\* with_capability, keeping what was received.
SinkOnChannelClosed(s) == NewSink @@ s

\* An endpoint's state after a command it accepts, and the states it accepts it in.
AllowedIn(signal) ==
  CASE signal = "SetConfiguration" -> {"Idle"}
    [] signal = "Open" -> {"Configured"}
    [] signal = "Start" -> {"Open"}
    [] signal = "Suspend" -> {"Streaming"}
    [] signal = "Close" -> {"Open", "Streaming"}
    [] OTHER -> {"Idle", "Configured", "Open", "Streaming"}
After(signal, state) ==
  CASE signal = "SetConfiguration" -> "Configured"
    [] signal \in {"Open", "Suspend"} -> "Open"
    [] signal = "Start" -> "Streaming"
    [] signal \in {"Close", "Abort"} -> "Idle"
    [] OTHER -> state

\* absorb: what an opened, closed or aborted stream means for the media channel.
Absorb(s, signal) ==
  CASE signal = "Open" -> [s EXCEPT !.awaiting = TRUE]
    [] signal \in {"Close", "Abort"} -> [s EXCEPT !.awaiting = FALSE, !.media = None, !.attached = None]
    [] OTHER -> s

SinkMoves(s, signal, config) ==
  Absorb([s EXCEPT !.state = After(signal, @), !.config = IF signal = "SetConfiguration" THEN config ELSE @], signal)

SinkAccepts(s, msg) ==
  s.state \in AllowedIn(msg.signal) /\ (msg.signal = "SetConfiguration" => \A config \in msg.config : Rendered(config, case.can))

--------------------------------------------------------------------------------
(* The source. *)

NewSource ==
  [phase |-> "Connecting", state |-> "Idle", config |-> {}, sig |-> None, media |-> None, attached |-> None,
   remote |-> FALSE, wanted |-> 1, bitpool |-> 0, ts |-> 0]

\* Where the source stands: its fields and the messages it adds to its channels.
At(s) == [src |-> s, out |-> [c \in Channels |-> <<>>]]
Fail(w, why) == [w EXCEPT !.src.phase = "Failed", !.src.error = why]

\* send_signalling: a command needs the signalling channel and, where AVDTP asks for it,
\* an endpoint in the right state.
SendSignalling(w, phase, signal, config) ==
  LET v == [w EXCEPT !.src.phase = phase]
      ready == signal \in {"Discover", "GetCapabilities"} \/ v.src.state \in AllowedIn(signal)
  IN IF v.src.sig = None THEN Fail(v, "no signalling")
     ELSE IF ~ready THEN Fail(v, "not ready")
     ELSE [v EXCEPT !.out[v.src.sig] = Append(@, [kind |-> "Command", signal |-> signal, config |-> config])]

\* advance, for one event: the next command, a channel, or the end.
Advance(w, answer) ==
  CASE ~answer.ok -> Fail(w, "rejected")
    [] answer.signal = "Discover" ->
         IF answer.inUse THEN Fail(w, "no free sink")
         ELSE SendSignalling([w EXCEPT !.src.remote = TRUE], "ReadingCapabilities", "GetCapabilities", {})
    [] answer.signal = "GetCapabilities" ->
         IF case.forced = {} /\ ~Operable(Intersect(HighQuality, case.can)) THEN Fail(w, "no common point")
         ELSE IF Proposed(case.can).high \notin 2 .. 250 THEN Fail(w, "encoder")
         ELSE SendSignalling([w EXCEPT !.src.bitpool = Proposed(case.can).high], "Configuring",
                             "SetConfiguration", {Proposed(case.can)})
    [] answer.signal = "SetConfiguration" ->
         IF w.src.remote THEN SendSignalling(w, "Opening", "Open", {}) ELSE Fail(w, "no remote endpoint")
    [] answer.signal = "Open" -> [w EXCEPT !.src.phase = "OpeningTransport", !.src.wanted = @ + 1]
    [] answer.signal = "Start" -> [w EXCEPT !.src.phase = "Streaming"]
    [] answer.signal \in {"Suspend", "Close"} -> [w EXCEPT !.src.phase = "Opening"]
    [] OTHER -> w  \* Abort among them

\* The endpoint moves with an accepted command, whoever gave it (Protocol::receive).
SourceMoves(s, signal, config) ==
  [s EXCEPT !.state = After(signal, @), !.config = IF signal = "SetConfiguration" THEN config ELSE @,
            !.attached = IF signal \in {"Close", "Abort"} THEN None ELSE @]

SourceOnChannelOpen(w, c) ==
  IF w.src.sig = None THEN SendSignalling([w EXCEPT !.src.sig = c], "Discovering", "Discover", {})
  ELSE IF ~w.src.remote THEN w
  ELSE IF w.src.state \notin {"Open", "Streaming"} THEN Fail(w, "media refused")
  ELSE SendSignalling([w EXCEPT !.src.media = c, !.src.attached = c], "Starting", "Start", {})

SourceOnChannelLost(s, c) ==
  IF s.media = c THEN [s EXCEPT !.media = None, !.attached = IF @ = c THEN None ELSE @]
  ELSE IF s.sig = c THEN [s EXCEPT !.sig = None]
  ELSE s

\* A source like new, keeping the PCM, what was sent and the error.
SourceOnChannelClosed(s) == NewSource @@ s

\* produce_media: every whole frame of the PCM that is queued leaves in one batch with
\* one timestamp; what AVDTP refuses to send was taken from the queue all the same.
ProduceMedia(w) ==
  LET s == w.src
      n == s.pcm \div PcmLen
      taken == [w EXCEPT !.src.pcm = @ - n * PcmLen, !.src.first = @ + n * PcmLen]
  IN IF s.media = None \/ s.bitpool = 0 \/ s.phase # "Streaming" \/ n = 0 THEN w
     ELSE IF s.state # "Streaming" \/ s.attached = None THEN [taken EXCEPT !.src.error = "not sent", !.src.dropped = @ + n]
     ELSE [taken EXCEPT !.src.ts = (s.ts + (PcmLen \div 2) * n) % Wrap,
             !.out[s.attached] = @ \o <<[kind |-> "Media", at |-> s.first, frames |-> n, ts |-> s.ts, bitpool |-> s.bitpool]>>]

--------------------------------------------------------------------------------
(* The phone's host: every packet and every tick ends in a poll, which lets the source *)
(* produce on its open channels and opens those it asked for.                          *)

Asked(w) == open.asked \cup {Cardinality(open.asked) + i : i \in 1 .. w.src.wanted}

\* ClassicHost::poll with the source as w has it.
Poll(w) ==
  IF host.link # "up" \/ ~run.registered THEN src' = w.src /\ UNCHANGED <<wire, open>>
  ELSE LET v == IF w.src.media \in open.src THEN ProduceMedia(w) ELSE w
       IN /\ src' = [v.src EXCEPT !.wanted = 0]
          /\ wire' = [c \in DOMAIN wire |-> [wire[c] EXCEPT !.toSink = @ \o v.out[c]]]
          /\ open' = [open EXCEPT !.asked = Asked(w)]

SourceOpens(c) ==
  /\ c \in open.asked \ (open.src \cup open.gone)
  /\ LET w == SourceOnChannelOpen(At(src), c)
         v == IF w.src.media = c THEN ProduceMedia(w) ELSE w
     IN /\ src' = [v.src EXCEPT !.wanted = 0]
        /\ wire' = [d \in DOMAIN wire |-> [wire[d] EXCEPT !.toSink = @ \o v.out[d]]]
        /\ open' = [open EXCEPT !.src = @ \cup {c}, !.asked = Asked(w)]
  /\ UNCHANGED <<case, run, host, snk, now>>

\* on_channel_data at the source: an answer, or a command of the speaker's.
ToSource(c) ==
  /\ c \in open.src /\ open.snk \subseteq open.src /\ wire[c].toSource # <<>>
  /\ LET msg == Head(wire[c].toSource)
         moved == IF msg.ok THEN SourceMoves(src, msg.signal, msg.config) ELSE src
         w == Advance(At(moved), msg)
         v == IF w.src.media \in open.src THEN ProduceMedia(w) ELSE w
     IN IF src.media = c THEN wire' = [wire EXCEPT ![c].toSource = Tail(@)] /\ UNCHANGED <<src, open>>
        ELSE IF msg.kind = "Command" /\ src.state \notin AllowedIn(msg.signal)
        THEN wire' = [wire EXCEPT ![c].toSource = Tail(@)] /\ UNCHANGED <<src, open>>
        ELSE /\ src' = [v.src EXCEPT !.wanted = 0]
             /\ wire' = [d \in DOMAIN wire |-> [toSink |-> wire[d].toSink \o v.out[d],
                                                toSource |-> IF d = c THEN Tail(wire[d].toSource) ELSE wire[d].toSource]]
             /\ open' = [open EXCEPT !.asked = Asked(w)]
  /\ UNCHANGED <<case, run, host, snk, now>>

--------------------------------------------------------------------------------
(* The speaker's host. *)

SinkOpens(c) ==
  /\ c \in open.asked \ (open.snk \cup open.gone)
  /\ open' = [open EXCEPT !.snk = @ \cup {c}]
  /\ snk' = SinkOnChannelOpen(snk, c)
  /\ UNCHANGED <<case, run, host, src, wire, now>>

\* on_channel_data at the sink: media on the media channel, else a command, which is answered.
ToSink(c) ==
  /\ c \in open.snk /\ open.src \subseteq open.snk /\ wire[c].toSink # <<>>
  /\ LET msg == Head(wire[c].toSink)
         rest == [wire EXCEPT ![c].toSink = Tail(@)]
         ok == SinkAccepts(snk, msg)
         inUse == snk.state # "Idle"
     IN IF snk.media = c
        THEN /\ snk' = IF msg.kind = "Media" /\ snk.attached = c
                       THEN [snk EXCEPT !.frames = Append(@, [at |-> msg.at, frames |-> msg.frames, ts |-> msg.ts,
                                                              bitpool |-> msg.bitpool, link |-> host.links])]
                       ELSE snk
             /\ wire' = rest
        ELSE IF msg.kind = "Media" THEN snk' = snk /\ wire' = rest
        ELSE /\ snk' = IF ok THEN SinkMoves(snk, msg.signal, msg.config) ELSE snk
             /\ wire' = [rest EXCEPT ![c].toSource = Append(@, [kind |-> "Answer", signal |-> msg.signal, ok |-> ok,
                                                                config |-> msg.config, inUse |-> inUse])]
  /\ UNCHANGED <<case, run, host, src, open, now>>

\* A speaker of another make suspends, starts, closes or aborts the stream by itself;
\* its endpoint moves with the answer, here at once.
SpeakerCommands(signal) ==
  /\ signal \in case.peer
  /\ snk.sig # None /\ snk.sig \in open.src /\ \A c \in DOMAIN wire : wire[c].toSink = <<>> /\ wire[c].toSource = <<>>
  /\ src.state = snk.state /\ snk.state \in AllowedIn(signal) \cap {"Open", "Streaming"}
  /\ snk' = SinkMoves(snk, signal, {})
  /\ wire' = [wire EXCEPT ![snk.sig].toSource = Append(@, [kind |-> "Command", signal |-> signal, ok |-> TRUE, config |-> {}])]
  /\ UNCHANGED <<case, run, host, src, open, now>>

--------------------------------------------------------------------------------
(* What is lost. *)

Silent == [c \in Channels |-> [toSink |-> <<>>, toSource |-> <<>>]]

\* The other side closes one channel; the last one ends the session (DISCONNECTION_REQUEST).
LoseChannel(c) ==
  /\ "channel" \in case.losses
  /\ c \in open.src /\ open.src = open.snk
  /\ Cardinality(open.asked) < MaxChannels - 1
  /\ LET lastOne == open.asked \ open.gone = {c}
         left == SourceOnChannelLost(src, c)
         rest == SinkOnChannelLost(snk, c)
     IN /\ src' = IF lastOne THEN SourceOnChannelClosed(left) ELSE left
        /\ snk' = IF lastOne THEN SinkOnChannelClosed(rest) ELSE rest
  /\ open' = [open EXCEPT !.src = @ \ {c}, !.snk = @ \ {c}, !.gone = @ \cup {c}]
  /\ wire' = [wire EXCEPT ![c] = Silent[c]]
  /\ UNCHANGED <<case, run, host, now>>

NoChannels == [asked |-> {}, src |-> {}, snk |-> {}, gone |-> {}]

\* Disconnection Complete, at both ends.
LoseLink ==
  /\ "link" \in case.losses /\ host.link = "up"
  /\ host' = [host EXCEPT !.link = "no", !.pairing = "no", !.encrypted = "no"]
  /\ src' = IF run.registered THEN SourceOnChannelClosed(src) ELSE src
  /\ snk' = SinkOnChannelClosed(snk)
  /\ wire' = Silent /\ open' = NoChannels
  /\ UNCHANGED <<case, run, now>>

\* The owner of a scene connects again; the runner never does.
Relink ==
  /\ case.ladder = "scene" /\ run.rung = "Connected" /\ host.link = "no" /\ host.links < MaxLinks
  /\ host' = [host EXCEPT !.link = "up", !.links = @ + 1]
  /\ UNCHANGED <<case, run, src, snk, wire, open, now>>

--------------------------------------------------------------------------------
(* What the controller and the peer answer (external). *)

Device == DOMAIN case.devices

\* Inquiry results, in any order, until the inquiry ends.
Discovered(d) ==
  /\ host.inquiry = "running" /\ \A i \in DOMAIN host.seen : host.seen[i] # d
  /\ host' = [host EXCEPT !.seen = Append(@, d)]
  /\ UNCHANGED <<case, run, src, snk, wire, open, now>>

Answers ==
  /\ \/ host.inquiry = "running" /\ host' = [host EXCEPT !.inquiry = "over"]
     \/ host.naming = "asked" /\ host' = [host EXCEPT !.naming = "known"]
     \/ host.link = "paging" /\ host' = [host EXCEPT !.link = "refused"]
     \/ host.link = "paging" /\ run.target = {1} /\ host' = [host EXCEPT !.link = "up", !.links = @ + 1]
     \/ /\ host.link = "up" /\ host.pairing = "asked"
        /\ \E answer \in {"done", "refused"} : host' = [host EXCEPT !.pairing = answer]
     \/ host.link = "up" /\ host.encrypted = "asked" /\ host' = [host EXCEPT !.encrypted = "yes"]
     \/ /\ host.link = "up" /\ host.sdp = "asked"
        /\ \E answer \in {"record", "none", "error"} : host' = [host EXCEPT !.sdp = answer]
  /\ UNCHANGED <<case, run, src, snk, wire, open, now>>

--------------------------------------------------------------------------------
(* The ladders. *)

Standing(r, h) == [run |-> r, host |-> h]
Enter(r, rung) == [r EXCEPT !.rung = rung]
Ends(r, why) == [r EXCEPT !.failure = why]

\* pick_speaker: the first Audio/Video device that answered.
PickSpeaker(seen) ==
  LET audio == {i \in DOMAIN seen : case.devices[seen[i]].audio}
  IN {seen[i] : i \in {i \in audio : \A j \in audio : i <= j}}

Found(r, seen) == \E i \in DOMAIN seen : seen[i] \in r.target

Inquiring(r, h) ==
  LET t == IF r.target = {} THEN [r EXCEPT !.target = PickSpeaker(h.seen)] ELSE r
      named == \A d \in t.target : case.devices[d].named
  IN IF Found(t, h.seen)
     THEN IF named THEN Standing(Enter(t, "Paging"), [h EXCEPT !.link = "paging", !.naming = "known"])
          ELSE Standing(Enter(t, "ResolvingName"), [h EXCEPT !.naming = "asked"])
     ELSE IF h.inquiry = "over" THEN Standing(Ends(t, "not found"), h)
     ELSE Standing(t, h)

\* advance_sdp: with an Audio Sink record the source is registered, and asks for its channel.
AdvanceSdp(r, h) ==
  CASE h.sdp \in {"error", "none"} -> Standing(Ends(r, "no record"), h)
    [] h.sdp = "record" -> Standing([Enter(r, "Avdtp") EXCEPT !.registered = TRUE], h)
    [] OTHER -> Standing(r, h)

\* step: one rung, when what it waits for is there.
Step(r, h) ==
  CASE r.rung = "Starting" -> Standing(Enter(r, "Inquiring"), [h EXCEPT !.inquiry = "running"])
    [] r.rung = "Inquiring" -> Inquiring(r, h)
    [] r.rung = "ResolvingName" /\ h.naming = "known" -> Standing(Enter(r, "Paging"), [h EXCEPT !.link = "paging"])
    [] r.rung = "Paging" /\ h.link = "refused" -> Standing(Ends(r, "page refused"), h)
    [] r.rung = "Paging" /\ h.link = "up" ->
         IF case.pair THEN Standing(Enter(r, "Pairing"), [h EXCEPT !.pairing = "asked"])
         ELSE Standing(Enter(r, "QueryingSdp"), [h EXCEPT !.sdp = "asked"])
    [] r.rung = "Pairing" /\ h.pairing = "refused" -> Standing(Ends(r, "pairing refused"), h)
    [] r.rung = "Pairing" /\ h.pairing = "done" -> Standing(Enter(r, "Encrypting"), [h EXCEPT !.encrypted = "asked"])
    [] r.rung = "Encrypting" /\ h.encrypted = "yes" -> Standing(Enter(r, "QueryingSdp"), [h EXCEPT !.sdp = "asked"])
    [] r.rung = "QueryingSdp" -> AdvanceSdp(r, h)
    [] r.rung \in {"Avdtp", "Streaming"} /\ src.phase = "Failed" -> Standing(Ends(r, src.error), h)
    [] r.rung = "Avdtp" /\ src.phase = "Streaming" -> Standing([Enter(r, "Streaming") EXCEPT !.since = {now}], h)
    [] OTHER -> Standing(r, h)

\* ProfileScene::advance: the inquiry is waited for, a refused page is not noticed.
SceneAdvance(r, h) ==
  CASE r.rung = "Starting" -> Standing(Enter(r, "Inquiring"), [h EXCEPT !.inquiry = "running"])
    [] r.rung = "Inquiring" /\ h.inquiry = "over" ->
         IF Found(r, h.seen) THEN Standing(Enter(r, "ResolvingName"), [h EXCEPT !.naming = "asked"])
         ELSE Standing(Ends(r, "not found"), h)
    [] r.rung = "ResolvingName" /\ h.naming = "known" -> Standing(Enter(r, "Paging"), [h EXCEPT !.link = "paging"])
    [] r.rung = "Paging" /\ h.link = "up" -> Standing(Enter(r, "Connected"), h)
    [] OTHER -> Standing(r, h)

\* feed: as much as the clock has played and the lead, in whole pairs of samples.
Fed(r) ==
  LET due(since) == 2 * (Lead + Rate * (now - since))
      take(since) == IF due(since) <= r.queued THEN 0 ELSE Smaller(due(since) - r.queued, r.left)
  IN IF r.since = {} THEN 0 ELSE LET n == take(CHOOSE t \in r.since : TRUE) IN 2 * (n \div 2)

\* One tick of the runner's owner: step, feed, poll; it ends with the first failure.
Tick ==
  /\ case.ladder = "runner" /\ run.failure = "none"
  /\ LET s == Step(run, host)
         n == Fed(s.run)
     IN IF s.run.failure # "none" THEN run' = s.run /\ host' = s.host /\ UNCHANGED <<src, wire, open>>
        ELSE /\ run' = [s.run EXCEPT !.queued = @ + n, !.left = @ - n]
             /\ host' = s.host
             /\ Poll(At([src EXCEPT !.pcm = @ + n]))
  /\ UNCHANGED <<case, snk, now>>

\* One tick of a scene's initiator.
SceneTick ==
  /\ case.ladder = "scene" /\ run.failure = "none"
  /\ LET s == SceneAdvance(run, host) IN run' = s.run /\ host' = s.host
  /\ Poll(At(src))
  /\ UNCHANGED <<case, snk, now>>

\* finish, the end of the music.
Finish ==
  /\ case.ladder = "runner" /\ run.rung = "Streaming" /\ run.left = 0
  /\ run' = Enter(run, "Done")
  /\ UNCHANGED <<case, host, src, snk, wire, open, now>>

Clock ==
  /\ now < MaxNow /\ run.since # {}
  /\ now' = now + 1
  /\ UNCHANGED <<case, run, host, src, snk, wire, open>>

Init ==
  /\ case \in Cases
  /\ run = [rung |-> "Starting", failure |-> "none", target |-> case.target, registered |-> case.ladder = "scene",
            since |-> {}, left |-> IF case.ladder = "runner" THEN case.pcm ELSE 0, queued |-> 0]
  /\ host = [inquiry |-> "off", seen |-> <<>>, naming |-> "no", link |-> "no", links |-> 0,
             pairing |-> "no", encrypted |-> "no", sdp |-> "no"]
  /\ src = NewSource @@ [pcm |-> IF case.ladder = "scene" THEN case.pcm ELSE 0, first |-> 0, dropped |-> 0, error |-> "none"]
  /\ snk = NewSink @@ [frames |-> <<>>]
  /\ wire = Silent /\ open = NoChannels /\ now = 0

Next ==
  \/ Tick \/ SceneTick \/ Finish \/ Clock
  \/ Answers \/ \E d \in Device : Discovered(d)
  \/ \E c \in Channels : SourceOpens(c) \/ SinkOpens(c) \/ ToSource(c) \/ ToSink(c) \/ LoseChannel(c)
  \/ \E signal \in case.peer : SpeakerCommands(signal)
  \/ LoseLink \/ Relink

Spec == Init /\ [][Next]_vars

--------------------------------------------------------------------------------
(* Properties. *)

Quiet ==
  /\ wire = Silent
  /\ open.asked \ open.gone \subseteq open.src \cap open.snk

\* Once nothing is under way, a source that says it streams does, to an endpoint that
\* streams at the same operating point, which the speaker offered, over the media channel
\* the speaker expects (advance, on_channel_open at either end).
StreamAgreed ==
  Quiet /\ src.phase = "Streaming" =>
    /\ src.state = "Streaming" /\ snk.state = "Streaming"
    /\ src.config = snk.config /\ \A config \in src.config : Rendered(config, case.can) /\ src.bitpool = config.high
    /\ src.media = snk.media /\ src.attached = src.media /\ snk.attached = snk.media

\* A speaker that gives no commands of its own refuses only what was forced on it: what
\* both offer is an operating point the sink's check accepts, and nothing the source asks
\* for comes too early (intersect, configuration_error, advance).
RefusedOnlyForced == src.error = "rejected" => case.forced # {} \/ case.peer # {}

\* The samples that arrive are the ones that were fed, in order and once; on one link
\* none is missing and the timestamps tell how many were played before (produce_media).
AudioWhole ==
  /\ src.dropped = 0
  /\ \A i \in DOMAIN snk.frames : i > 1 =>
       LET this == snk.frames[i]
           before == snk.frames[i - 1]
           end == before.at + before.frames * PcmLen
       IN IF this.link = before.link /\ "channel" \notin case.losses
          THEN this.at = end /\ this.ts = (before.ts + (PcmLen \div 2) * before.frames) % Wrap
          ELSE this.at >= end

\* The runner feeds no more than the clock has played and the lead, keeps the two
\* channels together, and plays nothing over a link it was to encrypt and did not (step, feed).
FedInTime ==
  /\ run.queued % 2 = 0
  /\ \A since \in run.since : run.queued <= 2 * (Lead + Rate * (now - since))
  /\ case.ladder = "runner" => run.queued + run.left = case.pcm /\ src.first + src.pcm = run.queued
  /\ case.ladder = "runner" /\ case.pair /\ host.link = "up" /\ open.asked # {} => host.encrypted = "yes"
================================================================================
