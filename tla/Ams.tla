----------------------------------- MODULE Ams -----------------------------------
(***************************************************************************)
(* The Apple Media Service (profiles/ams.rs): a player that tells a client *)
(* of every change of the attributes it subscribed to, and obeys its       *)
(* commands.  An update carries seventeen octets; of a longer value the    *)
(* client learns that it was cut, and fetches it: it writes a selector,    *)
(* then reads.  A text is a value that is `long` or not; times are counted *)
(* in intervals of SKIP_INTERVAL, the volume in VOLUME_STEPs.              *)
(***************************************************************************)
EXTENDS Integers, Sequences, SequencesExt

CONSTANTS
  Texts,     \* names and titles: [v, long]
  Times,     \* elapsed times and durations a player may set; a duration 0 is unknown
  Ops,       \* what happens: names of commands and of the player's operations
  MaxOps     \* bound: commands and operations

VARIABLES
  player,    \* AmsState
  subscriptions,
  updates,   \* pending_entity_updates, and those under way
  selected,  \* the value of Entity Attribute, and what selected it
  client,    \* AmsClient
  fetching,  \* the attribute a fetch is under way for, those it is due for, and those that changed under it
  ops

vars == <<player, subscriptions, updates, selected, client, fetching, ops>>

VolumeTop == 16
\* PlayerAttributeId, QueueAttributeId, TrackAttributeId.
Player == {"Name", "PlaybackInfo", "Volume"}
QueueAttributes == {"Index", "Count", "ShuffleMode", "RepeatMode"}
Track == {"Artist", "Album", "Title", "Duration"}
Attributes == Player \cup QueueAttributes \cup Track
\* RemoteCommandId.
RemoteCommands ==
  {"Play", "Pause", "TogglePlayPause", "NextTrack", "PreviousTrack", "VolumeUp", "VolumeDown", "AdvanceRepeatMode",
   "AdvanceShuffleMode", "SkipForward", "SkipBackward", "LikeTrack", "DislikeTrack", "BookmarkTrack"}

Empty == [v |-> "", long |-> FALSE]
NewPlayer ==
  [name |-> Empty, state |-> "Paused", rate |-> Empty, elapsed |-> 0, volume |-> 8, index |-> 0, count |-> 0, shuffle |-> 0,
   repeat |-> 0, artist |-> Empty, album |-> Empty, title |-> Empty, duration |-> 0, supported |-> RemoteCommands]

\* attribute_value: what is sent for an attribute; a playback rate with many digits makes the text long.
AttributeValue(p, a) ==
  CASE a = "Name" -> p.name
    [] a = "PlaybackInfo" -> [v |-> <<p.state, p.rate.v, p.elapsed>>, long |-> p.rate.long]
    [] a = "Volume" -> [v |-> p.volume, long |-> FALSE]
    [] a = "Index" -> [v |-> p.index, long |-> FALSE]
    [] a = "Count" -> [v |-> p.count, long |-> FALSE]
    [] a = "ShuffleMode" -> [v |-> p.shuffle, long |-> FALSE]
    [] a = "RepeatMode" -> [v |-> p.repeat, long |-> FALSE]
    [] a = "Artist" -> p.artist
    [] a = "Album" -> p.album
    [] a = "Title" -> p.title
    [] a = "Duration" -> [v |-> p.duration, long |-> FALSE]

Nobody == "none"
Unset == [a |-> Nobody]
NoValue == [v |-> "unset", long |-> FALSE]

Init ==
  /\ player = NewPlayer /\ subscriptions = {} /\ updates = <<>> /\ selected = Unset
  /\ client = [cache |-> [a \in Attributes |-> NoValue], supported |-> {}]
  /\ fetching = [now |-> Nobody, due |-> {}, changed |-> {}]
  /\ ops = 0

--------------------------------------------------------------------------------
\* emit_update for each attribute, in order, if it is subscribed to.
Update(p, a) == [a |-> a, value |-> AttributeValue(p, a)]
Emit(p, attributes) == LET told == SelectSeq(attributes, LAMBDA a : a \in subscriptions) IN [i \in DOMAIN told |-> Update(p, told[i])]

\* A change of the player, and the attributes it tells of.
Changes(p, attributes) ==
  /\ ops < MaxOps /\ ops' = ops + 1
  /\ player' = p
  /\ updates' = updates \o Emit(p, attributes)
  /\ fetching' = [fetching EXCEPT !.changed = @ \cup {a \in Attributes : a = fetching.now /\ AttributeValue(p, a) # AttributeValue(player, a)}]
  /\ UNCHANGED <<subscriptions, selected, client>>

Clamp(x, lo, hi) == IF x < lo THEN lo ELSE IF x > hi THEN hi ELSE x
Skipped(p, step) == LET e == p.elapsed + step IN IF p.duration > 0 THEN Clamp(e, 0, p.duration) ELSE IF e < 0 THEN 0 ELSE e
\* apply_command: what a command does to the player.
Obeyed(p, c) ==
  CASE c = "Play" -> [p EXCEPT !.state = "Playing"]
    [] c = "Pause" -> [p EXCEPT !.state = "Paused"]
    [] c = "TogglePlayPause" -> [p EXCEPT !.state = IF @ = "Playing" THEN "Paused" ELSE "Playing"]
    [] c = "NextTrack" -> [p EXCEPT !.index = IF p.count > 0 THEN (@ + 1) % p.count ELSE @, !.elapsed = 0]
    [] c = "PreviousTrack" -> [p EXCEPT !.index = IF p.count > 0 THEN (@ + p.count - 1) % p.count ELSE @, !.elapsed = 0]
    [] c = "VolumeUp" -> [p EXCEPT !.volume = Clamp(@ + 1, 0, VolumeTop)]
    [] c = "VolumeDown" -> [p EXCEPT !.volume = Clamp(@ - 1, 0, VolumeTop)]
    [] c = "AdvanceRepeatMode" -> [p EXCEPT !.repeat = (@ + 1) % 3]
    [] c = "AdvanceShuffleMode" -> [p EXCEPT !.shuffle = (@ + 1) % 3]
    [] c = "SkipForward" -> [p EXCEPT !.elapsed = Skipped(p, 1)]
    [] c = "SkipBackward" -> [p EXCEPT !.elapsed = Skipped(p, -1)]
    [] OTHER -> p

Told(c) ==
  CASE c \in {"Play", "Pause", "TogglePlayPause", "SkipForward", "SkipBackward"} -> <<"PlaybackInfo">>
    [] c \in {"NextTrack", "PreviousTrack"} -> <<"Index", "PlaybackInfo">>
    [] c \in {"VolumeUp", "VolumeDown"} -> <<"Volume">>
    [] c = "AdvanceRepeatMode" -> <<"RepeatMode">>
    [] c = "AdvanceShuffleMode" -> <<"ShuffleMode">>
    [] OTHER -> <<>>

\* RemoteCommandHandler: a command the player does not support is refused.
RemoteCommand(c) == c \in player.supported /\ Changes(Obeyed(player, c), Told(c))

\* The player's own operations, by the attribute they are about.
SetPlayerName(t) == Changes([player EXCEPT !.name = t], <<"Name">>)
SetPlaybackInfo(s, t, e) == Changes([player EXCEPT !.state = s, !.rate = t, !.elapsed = e], <<"PlaybackInfo">>)
SetVolume(v) == Changes([player EXCEPT !.volume = Clamp(v, 0, VolumeTop)], <<"Volume">>)
SetQueue(i, n) == Changes([player EXCEPT !.index = i, !.count = n], <<"Index", "Count">>)
SetModes(s, r) == Changes([player EXCEPT !.shuffle = s], <<"ShuffleMode">>) \/ Changes([player EXCEPT !.repeat = r], <<"RepeatMode">>)
SetTrack(t, d) ==
  Changes([player EXCEPT !.artist = t, !.album = t, !.title = t, !.duration = d, !.elapsed = 0],
          <<"Artist", "Album", "Title", "Duration", "PlaybackInfo">>)

\* set_supported_commands, which the client is notified of.
SetSupportedCommands(cs) ==
  /\ ops < MaxOps /\ ops' = ops + 1
  /\ player' = [player EXCEPT !.supported = cs]
  /\ updates' = Append(updates, [a |-> "supported", value |-> cs])
  /\ UNCHANGED <<subscriptions, selected, client, fetching>>

\* EntityUpdateHandler: nothing is subscribed to when one of the attributes does not exist.
Subscribe(as) ==
  /\ ops < MaxOps /\ ops' = ops + 1
  /\ ToSet(as) \subseteq Attributes
  /\ subscriptions' = subscriptions \cup ToSet(as)
  /\ updates' = updates \o [i \in DOMAIN as |-> Update(player, as[i])]
  /\ UNCHANGED <<player, selected, client, fetching>>

--------------------------------------------------------------------------------
\* cache_full_value.
Cached(a, value) == client' = [client EXCEPT !.cache[a] = value]

\* on_entity_update_notification, on_remote_command_notification: a cut value is not cached but fetched.
OnUpdate ==
  /\ updates # <<>> /\ updates' = Tail(updates)
  /\ LET u == Head(updates)
     IN IF u.a = "supported" THEN client' = [client EXCEPT !.supported = u.value] /\ UNCHANGED fetching
        ELSE IF u.value.long THEN fetching' = [fetching EXCEPT !.due = @ \cup {u.a}] /\ UNCHANGED client
        ELSE Cached(u.a, u.value) /\ fetching' = [fetching EXCEPT !.due = @ \ {u.a}, !.changed = IF fetching.now = u.a THEN @ ELSE @ \ {u.a}]
  /\ UNCHANGED <<player, subscriptions, selected, ops>>

\* EntityAttributeHandler: the value as it is now is kept for the read that follows.
Select(a) ==
  /\ fetching.now = Nobody /\ a \in fetching.due
  /\ selected' = [a |-> a, value |-> AttributeValue(player, a)]
  /\ fetching' = [now |-> a, due |-> fetching.due \ {a}, changed |-> fetching.changed \ {a}]
  /\ UNCHANGED <<player, subscriptions, updates, client, ops>>

\* The read, answered in order with the updates before it.
Read ==
  /\ fetching.now # Nobody /\ updates = <<>>
  /\ Cached(selected.a, selected.value)
  /\ fetching' = [fetching EXCEPT !.now = Nobody]
  /\ UNCHANGED <<player, subscriptions, updates, selected, ops>>

Next ==
  \/ \E c \in RemoteCommands \cap Ops : RemoteCommand(c)
  \/ \E t \in Texts : \/ "name" \in Ops /\ SetPlayerName(t)
                      \/ "info" \in Ops /\ \E s \in {"Playing", "Rewinding"}, e \in Times : SetPlaybackInfo(s, t, e)
                      \/ "track" \in Ops /\ \E d \in Times : SetTrack(t, d)
  \/ "volume" \in Ops /\ \E v \in {0, 15, 20} : SetVolume(v)
  \/ "queue" \in Ops /\ \E n \in 0 .. 2 : SetQueue(0, n)
  \/ "modes" \in Ops /\ \E m \in 0 .. 2 : SetModes(m, m)
  \/ "supported" \in Ops /\ \E cs \in {{}, {"Play", "NextTrack"}} : SetSupportedCommands(cs)
  \/ \E as \in {<<"PlaybackInfo", "Index">>, <<"Title", "Duration", "Name">>, <<"Volume", "ShuffleMode", "RepeatMode", "Count">>} : Subscribe(as)
  \/ \E a \in Attributes : Select(a)
  \/ OnUpdate \/ Read

Spec == Init /\ [][Next]_vars

--------------------------------------------------------------------------------
\* The client shows the player as it is: once every update is in and every cut value fetched, each
\* attribute it subscribed to is cached as the player has it, but one that changed between selecting
\* and reading it (emit_update after every change, TRUNCATED, cache_full_value).
PlayerMirrored ==
  updates = <<>> /\ fetching.now = Nobody /\ fetching.due = {} =>
    \A a \in subscriptions \ fetching.changed : client.cache[a] = AttributeValue(player, a)
================================================================================
