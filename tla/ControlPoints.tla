----------------------------- MODULE ControlPoints -----------------------------
(***************************************************************************)
(* Five services that clients drive through a control point: volume (VCS), *)
(* volume offset (VOCS), an audio input (AICS), the presets of a hearing   *)
(* aid (HAS) and a media player (MCS).  A service keeps its state behind a *)
(* mutex and shows a copy of it in the attribute database; several clients *)
(* read the copy and write commands that name the change counter they saw. *)
(* GattDatabase::write runs a handler to its end, so a command is a step.  *)
(***************************************************************************)
EXTENDS Integers, Sequences, SequencesExt

CONSTANTS
  Service,     \* "volume", "offset", "input", "hearing" or "media"
  Clients,
  Top,         \* the largest volume, offset or gain
  Step,        \* what a relative volume command adds
  Wrap,        \* how many values a change counter has
  Configured,  \* the states a device may force upon an audio input before it is used
  Presets,     \* the presets a hearing aid starts with
  Durations,   \* lengths of tracks, -1 for unknown
  MaxOps       \* commands and device operations in a behaviour

VARIABLES
  svc,     \* the state behind the mutex
  db,      \* the readable values
  raw,     \* the readable values are not the service's
  seen,    \* what each client read, and whether it was the service's
  last,    \* the last command: who wrote it, and its result
  told,    \* control point indications not taken yet
  mirror,  \* the presets as told by the indications taken
  ops

vars == <<svc, db, raw, seen, last, told, mirror, ops>>

Lower(a, b) == IF a < b THEN a ELSE b
Upper(a, b) == IF a < b THEN b ELSE a
Clamp(x, lo, hi) == Upper(lo, Lower(x, hi))
Unknown == -1
Commands(names, args) == [op : names, whole : BOOLEAN, arg : args]
Result(r, s) == [result |-> r, svc |-> s]

\* Mutant of Bumped: the counter stays.
NotBumped(s) == s
\* wrapping_add: the counter moves on by one.
Bumped(s) == [s EXCEPT !.counter = (@ + 1) % Wrap]

--------------------------------------------------------------------------------
\* Volume Control Service.
VolumeOps == {"down", "up", "unmute_down", "unmute_up", "absolute", "unmute", "mute"}
VolumeCommands == Commands(VolumeOps \cup {"unknown", "empty"}, {0, Top - 1})
VolumeError(s, c, counter) ==
  CASE c.op = "empty" -> "length"
    [] c.op \notin VolumeOps \cup {"empty"} -> "opcode"
    [] c.op \in VolumeOps /\ ~c.whole -> "length"
    [] c.op \in VolumeOps /\ c.whole /\ counter # s.counter -> "counter"
    [] OTHER -> "done"
VolumeSet(s, c) ==
  [s EXCEPT !.volume = CASE c.op \in {"down", "unmute_down"} -> Upper(0, @ - Step)
                         [] c.op \in {"up", "unmute_up"} -> Lower(Top, @ + Step)
                         [] c.op = "absolute" -> c.arg
                         [] OTHER -> @,
            !.mute = CASE c.op = "mute" -> TRUE
                       [] c.op \in {"unmute", "unmute_down", "unmute_up"} -> FALSE
                       [] OTHER -> @]
VolumeApply(s, c, counter) ==
  LET e == VolumeError(s, c, counter) new == VolumeSet(s, c)
  IN IF e # "done" THEN Result(e, s) ELSE IF new = s THEN Result("same", s) ELSE Result("done", Bumped(new))

\* Volume Offset Control Service.
OffsetCommands == Commands({"set", "unknown", "empty"}, {-Top - 1, -Top, Top, Top + 1})
OffsetApply(s, c, counter) ==
  CASE c.op = "empty" -> Result("length", s)
    [] c.op = "unknown" -> Result("opcode", s)
    [] c.op = "set" /\ ~c.whole -> Result("length", s)
    [] c.op = "set" /\ c.whole /\ counter # s.counter -> Result("counter", s)
    [] c.op = "set" /\ c.whole /\ counter = s.counter ->
         IF -Top <= c.arg /\ c.arg <= Top THEN Result("done", Bumped([s EXCEPT !.offset = c.arg]))
                                          ELSE Result("range", s)

\* Audio Input Control Service.
InputOps == {"gain", "unmute", "mute", "manual", "automatic"}
InputCommands == Commands(InputOps \cup {"unknown", "empty"}, {0, Top, Top + 1})
SetGain(s, arg) ==
  IF s.mode \notin {"Manual", "ManualOnly"} THEN Result("done", s)
  ELSE IF arg > Top THEN Result("range", s) ELSE Result("done", [s EXCEPT !.gain = arg])
SetMute(s, m) == Result("done", IF s.mute = m THEN s ELSE Bumped([s EXCEPT !.mute = m]))
SetMode(s, m) ==
  IF s.mode \in {"AutomaticOnly", "ManualOnly"} THEN Result("mode", s)
  ELSE Result("done", IF s.mode = m THEN s ELSE Bumped([s EXCEPT !.mode = m]))
InputApply(s, c, counter) ==
  CASE c.op = "empty" -> Result("length", s)
    [] c.op = "unknown" -> Result("opcode", s)
    [] c.op \in InputOps /\ ~c.whole -> Result("length", s)
    [] c.op \in {"unmute", "mute"} /\ c.whole /\ s.mute = "Disabled" -> Result("disabled", s)
    [] c.op \in InputOps /\ c.whole /\ ~(c.op \in {"unmute", "mute"} /\ s.mute = "Disabled") ->
         CASE counter # s.counter -> Result("counter", s)
           [] counter = s.counter /\ c.op = "gain" -> SetGain(s, c.arg)
           [] counter = s.counter /\ c.op = "unmute" -> SetMute(s, "NotMuted")
           [] counter = s.counter /\ c.op = "mute" -> SetMute(s, "Muted")
           [] counter = s.counter /\ c.op = "manual" -> SetMode(s, "Manual")
           [] counter = s.counter /\ c.op = "automatic" -> SetMode(s, "Automatic")
InputDefault == [gain |-> 0, mute |-> "NotMuted", mode |-> "Manual", counter |-> 0]

--------------------------------------------------------------------------------
\* Hearing Access Service.  An indication carries a record, or only an index.
Sorted(S) == SetToSortSeq(S, <)
Available(s) == Sorted({i \in DOMAIN s.presets : s.presets[i].available})
Record(t, i, r) == [t |-> t, index |-> i, rec |-> r]
Changed(t, i) == [t |-> t, index |-> i, rec |-> [writable |-> FALSE, available |-> FALSE, name |-> "-"]]

HearingCommands ==
  [op : {"read", "next", "previous", "unknown", "empty"}, sync : BOOLEAN, index : {0, 1, 3}, arg : {"-"}]
    \cup [op : {"name", "active"}, sync : BOOLEAN, index : DOMAIN Presets, arg : {"n", ""}]

\* read_presets_request: the records from an index on, two at most here, the last one marked.
ReadPresets(s, start) ==
  LET from == Sorted({i \in DOMAIN s.presets : i >= start})
      chosen == SubSeq(from, 1, Lower(2, Len(from)))
  IN [k \in 1 .. Len(chosen) |->
        Record(IF k = Len(chosen) THEN "last" ELSE "response", chosen[k], s.presets[chosen[k]])]
\* set_next_or_previous_preset: around the available ones, from the active one.
Neighbour(s, d) ==
  LET a == Available(s) p == CHOOSE k \in 1 .. Len(a) : a[k] = s.active
  IN a[((p + Len(a) - 1 + d) % Len(a)) + 1]
Moved(s, d) ==
  IF \A k \in 1 .. Len(Available(s)) : Available(s)[k] # s.active THEN Result("impossible", s)
  ELSE IF Neighbour(s, d) = s.active THEN Result("impossible", s) ELSE Result("done", [s EXCEPT !.active = Neighbour(s, d)])
\* on_write of the preset control point, with the indications it queues.
HearingApply(s, c) ==
  CASE c.op = "empty" -> Result("length", s)
    [] c.op = "unknown" -> Result("opcode", s)
    [] c.op = "read" -> Result(IF c.index = 0 \/ ReadPresets(s, c.index) = <<>> THEN "range" ELSE "done", s)
    [] c.op = "name" ->
         CASE c.index \notin DOMAIN s.presets -> Result("name", s)
           [] c.index \in DOMAIN s.presets /\ ~s.presets[c.index].writable -> Result("name", s)
           [] c.index \in DOMAIN s.presets /\ s.presets[c.index].writable /\ c.arg = "" -> Result("length", s)
           [] OTHER -> Result("done", [s EXCEPT !.presets[c.index].name = c.arg])
    [] c.op \in {"active", "next", "previous"} /\ c.sync /\ ~s.sync -> Result("sync", s)
    [] c.op = "active" /\ (c.sync => s.sync) ->
         IF c.index \in DOMAIN s.presets /\ s.presets[c.index].available
           THEN Result("done", [s EXCEPT !.active = c.index]) ELSE Result("impossible", s)
    [] c.op = "next" /\ (c.sync => s.sync) -> Moved(s, 1)
    [] c.op = "previous" /\ (c.sync => s.sync) -> Moved(s, -1)
Indications(r, c) ==
  CASE r.result = "done" /\ c.op = "read" -> ReadPresets(r.svc, c.index)
    [] r.result = "done" /\ c.op = "name" -> <<Record("update", c.index, r.svc.presets[c.index])>>
    [] OTHER -> <<>>

\* What the device itself does with its presets: the new state and the indication.
Renewed(s, i, r) == [s EXCEPT !.presets = [k \in DOMAIN @ \cup {i} |-> IF k = i THEN r ELSE @[k]]]
Without(s, i) == [s EXCEPT !.presets = [k \in DOMAIN @ \ {i} |-> @[k]]]
\* Whether delete_preset and set_preset_unavailable may touch a preset: never the active one.
MayGo(s, i) == i \in DOMAIN s.presets /\ i # s.active
\* What a client makes of an indication.
Learn(m, n) ==
  CASE n.t \in {"update", "response", "last"} ->
         [k \in DOMAIN m \cup {n.index} |-> IF k = n.index THEN n.rec ELSE m[k]]
    [] n.t = "deleted" -> [k \in DOMAIN m \ {n.index} |-> m[k]]
    [] OTHER -> [m EXCEPT ![n.index].available = (n.t = "available")]

--------------------------------------------------------------------------------
\* Media Control Service.  The track position lives in the database only.
MediaCommands ==
  [op : {"play", "pause", "seek", "stop", "track", "goto", "unknown"}, arg : {0}]
    \cup [op : {"move"}, arg : {-3, 1, Top}] \cup {[op |-> "move_bare", arg |-> 0], [op |-> "empty", arg |-> 0]}
Limit == 2 * Top  \* where saturating_add stops
\* set_track_position: within the track when its length is known.
Positioned(s, p) == IF s.duration = Unknown THEN Upper(p, 0) ELSE Clamp(p, 0, s.duration)
\* opcodes_supported::DEFAULT leaves out the segments, the groups and Goto Track.
Unsupported == {"goto", "unknown"}
MediaError(s, c) ==
  CASE c.op \in Unsupported -> "unsupported"
    [] c.op \notin Unsupported /\ s.state = "Inactive" -> "inactive"
    [] c.op = "move_bare" /\ s.state # "Inactive" -> "impossible"
    [] OTHER -> "success"
\* apply_opcode: the state a command that succeeds leads to, and the position.
MediaState(s, c) ==
  [s EXCEPT !.state = CASE c.op = "play" -> "Playing"
                        [] c.op \in {"pause", "stop"} -> "Paused"
                        [] c.op = "seek" -> "Seeking"
                        [] OTHER -> @]
MediaPosition(s, p, c) ==
  CASE c.op \in {"stop", "track"} -> Positioned(s, 0)
    [] c.op = "move" -> Positioned(s, Clamp(p + c.arg, -Limit, Limit))
    [] OTHER -> p

--------------------------------------------------------------------------------
\* register: the states a service may start with, and what it shows of a state.
VolumeStart == {[volume |-> v, mute |-> FALSE, counter |-> 0] : v \in {0, Top}}
OffsetStart == {[offset |-> 0, counter |-> 0]}
HearingStart == {[presets |-> Presets, active |-> Sorted(DOMAIN Presets)[1], sync |-> b] : b \in BOOLEAN}
MediaStart == {[state |-> "Paused", duration |-> Unknown]}
Initial ==
  CASE Service = "volume" -> VolumeStart
    [] Service = "offset" -> OffsetStart
    [] Service = "input" -> Configured
    [] Service = "hearing" -> HearingStart
    [] Service = "media" -> MediaStart
Shown(s) ==
  CASE Service = "hearing" -> [active |-> s.active]
    [] Service = "media" -> [state |-> s.state, duration |-> s.duration, position |-> 0]
    [] Service = "volume" -> [volume |-> s.volume, mute |-> s.mute, counter |-> s.counter, flags |-> 0]
    [] OTHER -> s

Init ==
  /\ svc \in Initial
  /\ db = Shown(IF Service = "input" THEN InputDefault ELSE svc)
  /\ raw = (Service = "input" /\ svc # InputDefault)
  /\ seen = [c \in Clients |-> [state |-> db, own |-> ~raw]]
  /\ last = [client |-> 0, result |-> "-"]
  /\ told = <<>>
  /\ mirror = (IF Service = "hearing" THEN Presets ELSE <<>>)
  /\ ops = 0

\* A client reads, or is notified.
Read(c) ==
  /\ seen' = [seen EXCEPT ![c] = [state |-> db, own |-> ~raw]]
  /\ UNCHANGED <<svc, db, raw, last, told, mirror, ops>>

Counted == ops < MaxOps /\ ops' = ops + 1
Answered(c, r) == last' = [client |-> c, result |-> r.result] /\ svc' = r.svc /\ UNCHANGED seen
\* set_value of the volume state and its flags, only when something changed.
VolumeWrite(c) ==
  \E m \in VolumeCommands : LET r == VolumeApply(svc, m, seen[c].state.counter) IN
    /\ Service = "volume" /\ Counted /\ Answered(c, r)
    /\ db' = IF r.result = "done" THEN [Shown(r.svc) EXCEPT !.flags = 1] ELSE db
    /\ UNCHANGED <<raw, told, mirror>>
OffsetWrite(c) ==
  \E m \in OffsetCommands : LET r == OffsetApply(svc, m, seen[c].state.counter) IN
    /\ Service = "offset" /\ Counted /\ Answered(c, r)
    /\ db' = IF r.result = "done" THEN r.svc ELSE db
    /\ UNCHANGED <<raw, told, mirror>>
InputWrite(c) ==
  \E m \in InputCommands : LET r == InputApply(svc, m, seen[c].state.counter) IN
    /\ Service = "input" /\ Counted /\ Answered(c, r)
    /\ db' = IF r.result = "done" THEN r.svc ELSE db
    /\ raw' = (raw /\ r.result # "done")
    /\ UNCHANGED <<told, mirror>>
HearingWrite(c) ==
  \E m \in HearingCommands : LET r == HearingApply(svc, m) IN
    /\ Service = "hearing" /\ Counted /\ Answered(c, r)
    /\ db' = Shown(r.svc)
    /\ told' = told \o Indications(r, m)
    /\ UNCHANGED <<raw, mirror>>
MediaWrite(c) ==
  \E m \in MediaCommands : LET r == MediaError(svc, m) IN
    /\ Service = "media" /\ Counted
    /\ Answered(c, Result(r, IF r = "success" THEN MediaState(svc, m) ELSE svc))
    /\ db' = IF r = "success" THEN [db EXCEPT !.state = svc'.state, !.position = MediaPosition(svc, @, m)] ELSE db
    /\ raw' = (raw /\ ~(r = "success" /\ m.op \in {"stop", "track", "move"}))
    /\ UNCHANGED <<told, mirror>>
\* A client writes the track position, which no handler looks at.
PositionWrite ==
  \E p \in {-1, Top} :
    /\ Service = "media" /\ Counted
    /\ db' = [db EXCEPT !.position = p] /\ raw' = TRUE
    /\ UNCHANGED <<svc, seen, last, told, mirror>>

\* The device's own operations: on its presets, and on its player.
Device(s, n) == Counted /\ svc' = s /\ told' = told \o n /\ UNCHANGED <<db, raw, seen, last, mirror>>
GenericUpdate ==
  \E i \in DOMAIN Presets, r \in [writable : {TRUE}, available : BOOLEAN, name : {"u"}] :
    Service = "hearing" /\ Device(Renewed(svc, i, r), <<Record("update", i, r)>>)
DeletePreset ==
  \E i \in DOMAIN Presets :
    Service = "hearing" /\ MayGo(svc, i) /\ Device(Without(svc, i), <<Changed("deleted", i)>>)
SetPresetAvailable ==
  \E i \in DOMAIN Presets :
    /\ Service = "hearing" /\ i \in DOMAIN svc.presets
    /\ Device([svc EXCEPT !.presets[i].available = TRUE], <<Changed("available", i)>>)
SetPresetUnavailable ==
  \E i \in DOMAIN Presets :
    /\ Service = "hearing" /\ MayGo(svc, i)
    /\ Device([svc EXCEPT !.presets[i].available = FALSE], <<Changed("unavailable", i)>>)
\* take_control_point_indications: they are handed to the client.
Take ==
  /\ told # <<>> /\ told' = <<>>
  /\ mirror' = FoldLeft(Learn, mirror, told)
  /\ UNCHANGED <<svc, db, raw, seen, last, ops>>
SetTrack ==
  \E d \in Durations :
    /\ Service = "media" /\ Counted
    /\ svc' = [svc EXCEPT !.duration = d]
    /\ db' = [db EXCEPT !.duration = d, !.position = Positioned(svc', 0)]
    /\ raw' = FALSE
    /\ UNCHANGED <<seen, last, told, mirror>>
SetMediaState ==
  \E m \in {"Inactive", "Playing", "Paused"} :
    /\ Service = "media" /\ Counted
    /\ svc' = [svc EXCEPT !.state = m] /\ db' = [db EXCEPT !.state = m]
    /\ UNCHANGED <<raw, seen, last, told, mirror>>

Next ==
  \/ \E c \in Clients :
       Read(c) \/ VolumeWrite(c) \/ OffsetWrite(c) \/ InputWrite(c) \/ HearingWrite(c) \/ MediaWrite(c)
  \/ PositionWrite \/ GenericUpdate \/ DeletePreset \/ SetPresetAvailable \/ SetPresetUnavailable
  \/ Take \/ SetTrack \/ SetMediaState

Spec == Init /\ [][Next]_vars

--------------------------------------------------------------------------------
\* A client's command has effect only on the state that client saw: the change
\* counter moves with everything a command may depend on (check_change_counter).
\* The gain is not among it, as aics.rs:203 says, and a counter that came round
\* would not tell: a behaviour has fewer commands than a counter has values.
Basis(s) ==
  CASE Service = "volume" -> <<s.volume, s.mute>>
    [] Service = "offset" -> <<s.offset>>
    [] Service = "input" -> <<s.mute, s.mode>>
    [] OTHER -> <<>>
Applied ==
  \A c \in Clients : ops' # ops /\ last'.client = c /\ last'.result = "done" /\ seen[c].own
    => Basis(seen[c].state) = Basis(svc)
AppliedAsSeen == [][Applied]_vars

\* Whatever clients and the device do, what can be read is what the service holds:
\* its counter, the active preset, which is always one of the presets, the state of
\* the player and a position within the track, unless a client wrote that itself; and
\* the indications, taken or still queued, tell every change of the presets.
StateShown ==
  /\ Service = "volume" => [f \in DOMAIN svc |-> db[f]] = svc
  /\ Service \in {"offset", "input"} => raw \/ db = svc
  /\ Service = "hearing" =>
       /\ db.active = svc.active /\ svc.active \in DOMAIN svc.presets
       /\ FoldLeft(Learn, mirror, told) = svc.presets
  /\ Service = "media" =>
       /\ db.state = svc.state /\ db.duration = svc.duration
       /\ raw \/ (0 <= db.position /\ (svc.duration # Unknown => db.position <= svc.duration))
================================================================================
