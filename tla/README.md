# SimBLE in TLA+

SimBLE is a Bluetooth stack and a simulated radio in one Rust program: hosts,
controllers, profiles, scenes of scripted devices and bridges to real
transports. This directory holds TLA+ modules of its protocols, the TLC
configurations that check them on small instances, and TLAPS proofs of what
holds on every instance. `PROJECT.json` lists, for each definition that models
code, the lines it models, for each run what it asks, for each property a
change of the code that breaks it, and for each hazard of the code the
properties that watch it. Paths below are relative to the crate's `src/`.

## The system

| Part | Code | State | Operations | What makes it hard |
|---|---|---|---|---|
| Simulated controllers and their medium | `controller/sim.rs` | per controller: advertising, links, pages, requests, pairing mode, streams, sounding sessions; per medium: the controllers, pairings, next handle | `Link::tick`, HCI commands of each host | every tick runs in phases (drain commands, advertise, connect, page, route deferred actions, sound, flush); a command checked in one phase takes effect in a later one, after other hosts' commands |
| LMP handshake | `controller/lmp.rs` | one link end | request, accept, reject, features | run to its end within one routing step |
| Scene | `scene/` | device slots, started, stopped | add, stop, tick | links of the medium name controllers by index, stop removes controllers |
| Broadcast | `controller/sim.rs`, `device/big_*.rs`, `scripting/broadcast.rs` | advertising sets, trains, synchronizations, BIGs; two hosts; a script's view of them | start, stop, update, join, leave, send | three queues between a state and the callback that reports it |
| SMP | `smp/pairing.rs` | pairing machine of one end, timer, keys, bonds | start, PDU handlers, tick, link encrypted | two machines, two generations of the protocol, a timeout |
| Classic host, L2CAP | `device/classic_host.rs`, `l2cap/` | channels, configuration, buffers, profiles | HCI events, signalling, polls | two-sided configuration, profiles told by polling |
| RFCOMM | `classic/rfcomm.rs` | multiplexer state, DLCs, credits, buffers | start, open, write, close, disconnect, receive | both ends act on their own; frames cross |
| Classic profiles | `classic/{avdtp,avrcp,hfp,sdp,hid}.rs`, `device/{a2dp,avrcp,car_kit,classic_hid}.rs`, `obex/` | signalling machines, transactions, pending responses | commands and responses, feeding, pushing | transactions that cross, fragmentation, channels that go |
| GATT and ATT | `gatt/`, `device/{att_server,virtual_device,central,scripted_peripheral}.rs` | attribute table, subscriptions, bonds; the central's discovery and queue | ATT requests, notifications, reconnects | per-client state in one table, values that change while a client is away |
| LE profiles | `profiles/`, `device/{cis_central,hid_host}.rs` | volume, inputs, presets, players, stream endpoints, receive states, notifications | control points, notifications | several clients, stale commands, answers in pieces |
| Channel sounding | `controller/sim.rs`, `device/{channel_sounding,ranging_scene}.rs`, `profiles/ras.rs` | a ladder of commands, two halves of each procedure | configure, enable, sound, segment, reassemble, combine | halves by two routes, segments lost, a link that ends at any rung |
| Bulk transfer | `device/throughput.rs` | bytes sent, buffers charged, reports | stream, finish, report, time out | a controller slow to free its buffers |
| Packets | `packets/` and the profiles | none | write, read | writer and reader are different code |
| Control and transport | `scene/runner.rs`, `v1.rs`, `mcp.rs`, `transport/` | sessions, queues | requests, reconnects | threads, sockets |
| Crypto, audio, geometry | `crypto/`, `audio/`, `cs/`, `df/` | none | pure functions | arithmetic |

The parts interact by HCI packets through queues (host to controller, drained
once per tick), by routed `Action`s between controllers (within a tick, in
order), by L2CAP frames along ACL links, and by direct calls from a scene to
its devices. The simulation itself is single-threaded; its concurrency is that
of hosts whose commands and frames are under way at once.

What correctness means: a link, an SCO link, a channel or a stream exists at
both ends or at neither and its hosts know; every Command Status is followed by
the event it promises; no link outlives the one it rides on; a key nobody
agreed to does not exist and two stored keys are the same key; bytes, samples,
messages and measurements arrive whole, in order and once; a client knows what
its server has; nothing waits for ever.

## Modules

### Controllers and medium

**ClassicLink** (`ClassicLinkProofs`). BR/EDR link control of
any number of controllers: Create Connection and its cancel, accept and reject,
paging with its timeout, synchronous (SCO) links, Disconnect, Reset, Write Scan
Enable. `phase` and `turn` are the position within `Link::tick`; in the drain
phase each host issues any of its commands, the deferred ones go to `actions`
in order, the paging phase visits the controllers in turn, the route phase
takes the actions one at a time. `told`, `createDue`, `answerDue` and
`setupDue` record what the hosts were told and are owed; `orphaned` holds the
handles of links one of whose ends was Reset, because Reset tells the peer
nothing.

**ClassicSecurity** (`MCClassicSecurity`, `ClassicSecurityProofs`). Authentication, Secure Simple
Pairing, encryption and link key change over links that come and go: the hosts'
stored keys, the conversations (`pairings`) with the answers of both ends, and
the hosts' replies, stale ones included. Keys are abstract values that record
how they were made; the association model follows from the two IO capabilities
as in `association_model`.

**LeLink** (`MCLeLink`, `LeLinkProofs`). LE connections from advertising to Disconnect,
connection parameters, PHYs, encryption with a key request at the peripheral,
connected isochronous streams, and ACL data along them. `MaxCis` bounds the
streams of a controller whose host creates one more, `HandleMask` stands for the
twelve bits an ACL header has for a handle.

**Broadcast** (`MCBroadcast`, `BroadcastProofs`). A broadcast source and its receivers: the
controllers' advertising, periodic trains, synchronizations and BIGs within a
tick, `BigBroadcaster` and `BigReceiver` above them, and the script's
observations that turn their states into callbacks.

**SceneMedium**. The scene's device slots against the medium's vector of
controllers, and the links between controllers by index.

**Subsequences**. What `Vec::retain` leaves of a vector, as a function on the
places that stay (`At`), with the facts the proofs need of it. The provers know
nothing of `SelectSeq`; LeLink's streams, ClassicSecurity's conversations,
SceneMedium's controllers and the packets of ClassicHost are picked with `At`.

**Ranging**. `RangingScene` end to end: the locator discovers the tag's ranging
service, climbs the ladder of sounding commands, both controllers configure,
enable and sound within the phases of `Link::tick`, the tag segments its half
and notifies it, the locator reassembles it and combines it with its own.
Segments may be lost (as many as the case says), the connection may be ended,
and each command may be refused, at its status or its completion.

### BR/EDR hosts and profiles

**ClassicHost** (`ClassicHostProofs`). Two hosts with L2CAP channels to each other
over links that come and go: connection and configuration in both directions,
refusals, closing, the CID allocator, the profiles' callbacks at the next poll,
and the queue for the controller's buffers.

**Framing**. How AVDTP, AVCTP, ACL/L2CAP and the media payload cut messages
into packets and join them again, senders that stop in the middle included.

**RfcommMux**. Two multiplexers over one L2CAP channel; the hosts' calls are
actions, and so is the arrival of each kind of frame.

**RfcommDlc** (`RfcommDlcProofs`) and **ByteStream**. One open
connection with credit-based flow control; `ProcessTx` is the loop of
`process_tx` in closed form: the refill frame, then as many full frames as
credits and data allow. `ByteStream` is what the connection promises, and
`IsByteStream` says that RfcommDlc implements it under the mapping "frames
under way, then the buffer".

**Avdtp** and **A2dp**. Avdtp has the stream endpoints and transactions of two
ends, either of which may command. A2dp has a phone that inquires, asks for
names, connects, chooses an operating point, streams and paces its samples, and
a speaker that may suspend or close; channel and link may go.

**Avrcp**. The controller and target roles over one control channel: keys,
queries, fragmented metadata and its continuation or abort, notifications that
are spent and registered again, sessions lost and opened again.

**Hfp** and **CarKit**. Hfp has the two protocol machines of the hands-free
profile as operators from a state and a line to a state and lines; CarKit runs
them at both ends of a link with calls, codec negotiation and the audio link.

**Sdp**. What every profile publishes and what each reads out of a record, the
server with its continuation, the clients and the host's query over a channel
that goes.

**Hid**, **HidReports** and **Hogp**. Hid is a BR/EDR keyboard and its computer
over two channels; HidReports the report maps and key tables; Hogp typing over
GATT from discovery to what the host shows.

**Obex**. An object pushed packet by packet, aborted, refused, or cut off.

### LE hosts and profiles

**SmpPairing**. Both ends of a pairing, legacy and Secure Connections, with
deferred key distribution, the timer, bonds, and a second link that uses them.

**AttributeTable** and **Gatt**. The table `GattDatabase` builds, and a central
that discovers, reads, writes and subscribes at a peripheral whose values
change, over links that fail and come back with or without a bond.

**ControlPoints**. Volume, volume offset, audio input, hearing presets and
media control, one constant choosing the service: each command's checks in
their order, its effect, what is shown, and who is told.

**LeAudio**. The sink's stream endpoints, the source's configuration of one,
the connected stream and its data path, and audio given before it runs.

**Bass**. A scan delegator's sources and receive states, and the assistant of
`scripting/broadcast.rs` that drives it over GATT.

**Ancs** and **Ams**. A phone's notifications with the answers to a client's
questions in pieces, and its player with the updates a client subscribed to.

**BulkTransfer**. `BulkCentral` and `BulkSink` with a controller that frees its
buffers when it likes.

### Packets

**Layout**, **PacketFormats**, **Codecs**. A packet format is data:
a sequence of fields, each with its width, its code or its place for a value,
once as its writer and once as its reader has it. PacketFormats
transcribes both sides of every format from the code; Codecs sends one message
of every kind, whole and cut short at every place.

### Run modules

`MCSessions`, `MCMachines` and `MCServices` put machines that do not interact
into one run each: `part` says which a behaviour is about, and a property of
the run is the conjunction of the parts' own.

## Runs

| Run | Instance | Shows |
|---|---|---|
| `classic_all` | 2 controllers, all commands, 1 action a tick | types, promises of Create Connection, hosts informed, links mirrored, handles unique, SCO rides its ACL, requests alive |
| `classic_crossing` | 2 hosts page each other | *violated*: two ACL links between one pair, contrary to the comment quoted in `PROJECT.json` |
| `security_pair` | keyboard and display hosts, fair ticks, answering hosts | answers awaited were asked for; an authenticated key needs a user's yes; every conversation ends |
| `security_link` | key change, encryption, Reset | both ends of a link in the same security state; two stored keys are one key |
| `le_links` | 2 controllers, 2 actions a tick, Reset | both ends agree on interval, PHYs and encryption |
| `le_streams` | 2 controllers, 2 links, 2 streams | a stream dies with its link and is established at both ends |
| `dlc_stream` | MTU 2, limit 3, mark 1, 6 bytes each way, fair delivery | credits conserved; the byte stream is implemented; everything written arrives |
| `host_channels` | 2 hosts, 2 PSMs, one not served by both | channels are pairs once the wire is quiet; a profile told of a channel, and not since of its end, has it open |
| `broadcast` | 1 receiver, 2 streams, 2 starts, 1 stop, update and leave | receivers are told, callbacks follow the states in order, SDUs arrive in order, a receiver that wants to join joins |
| `sessions` | SMP (four key distributions, both start), RFCOMM (three channels, one refused), a car kit, a remote control, paging | the two ends agree on keys, connections, call and codec; every wait ends |
| `machines` | AVDTP twice, A2DP, four framings, AVRCP twice, a scene, every packet, HID, HOGP, SDP, OBEX, bulk transfer, ranging | streams agree; what is cut is joined whole; what is shown is the player's; labels and controllers accounted for; packets and records mean to the reader what they meant to the writer; keys are heard |
| `services` | GATT three times, five control points, unicast audio, a broadcast assistant with one and two receive states, notifications, a player | what is shown is what is kept; clients know what servers have; commands apply to the state they name; audio in order; discovery ends |

### Counterexamples beside the runs

The modules state more than the runs check. The following are what a comment of
the code, or its reader, would expect; TLC refutes each with the constants
given, and where they overlap a run's part, the run leaves that case out. The
lines are those of the step that goes wrong.

| Module: property | Constants | What TLC shows |
|---|---|---|
| ClassicLink: `InboundHasPage` | create, cancel | Cancel leaves the target's host deciding on a page that is gone (`sim.rs:3162`) |
| ClassicLink: `AnswerPromiseKept` | 2 actions a tick | an Accept in the tick in which the page expires gets a Command Status and no event (`sim.rs:2772`) |
| ClassicLink: `SetupPromiseKept` | Disconnect, synchronous setup | a Disconnect drops an unanswered synchronous request without an event for the host that asked (`sim.rs:4143`) |
| ClassicLink: `TakesBackItsOwn` | N = 3, Reset | after a Reset of the target an expiring page takes back another initiator's request (`sim.rs:2701`) |
| ClassicLink: `ScoAlwaysRidesAcl` | Reset | a SCO link is set up at an end that was Reset and holds no ACL (`sim.rs:2936`) |
| ClassicSecurity: `AuthPromiseKept` | both hosts ask | one is answered (`sim.rs:3695`) |
| ClassicSecurity: `AuthenticatedHeld` | 2 actions a tick | a pairing finishes on a link disconnected in the same tick (`sim.rs:2602`) |
| ClassicSecurity: `RotationRotates` | MaxLinks = 2 | the first key changed after a reconnect is the stored one (`sim.rs:3947`) |
| LeLink: `CreatePromiseKept` | cancel | a cancelled LE connection attempt is never completed (`sim.rs:2142`) |
| LeLink: `EncryptPromiseKept` | two commands before an answer | one is never completed (`sim.rs:4002`) |
| LeLink: `PhyKept` | 2 actions a tick | LE Set PHY undoes the other host's update of the same tick (`sim.rs:2205`) |
| LeLink: `AclReachesPeer` | HandleMask = 2 | a handle past the header's bits names another link (`sim.rs:2039`) |
| LeLink: `CisRidesAcl` | Reset | a stream is recorded at an end that was Reset (`sim.rs:4217`) |
| LeLink: `CisMirrored` | N = 3, one stream handle | two centrals choose one stream handle (`sim.rs:4232`) |
| SceneMedium: `LinksSurviveStop` | 3 devices, 1 link | stopping a third device moves the index a link names (`sim.rs:1821`) |
| RfcommMux: `OpenAnswered` | both ends open | an open that is never answered (`rfcomm.rs:1117`) |
| RfcommMux: `SessionsAgree` | the responder disconnects | its disconnect is overwritten by a connection that opens (`rfcomm.rs:1117`) |
| SmpPairing: `FailedUnkeyed` | one start | a session that timed out still takes the encryption that arrives late |
| SmpPairing: `CompletedStays` | one start | a completed pairing goes back when deferred keys arrive |
| SmpPairing: `PairingCompletes` | Restart = TRUE | a second start over a running session leaves one end waiting for its timer |
| Avdtp: `StreamsAgree` | both ends command, or Serial = FALSE | a response is applied to an endpoint the peer's command has moved meanwhile (`avdtp.rs:2165`) |
| Framing: `Reassembled` | AVDTP, a message of the packet's room less two | it is announced as one packet and cut as two (`avdtp.rs:926`) |
| A2dp: `StreamAgreed` | a speaker that aborts | the source stays Streaming, takes samples and sends none (`device/a2dp.rs:674`) |
| Avrcp: `MetadataWhole` | overlapping queries | the fragments of two responses mix (`avrcp.rs:2287`) |
| Avrcp: `MonitoredMirrored` | MaxSessions = 2 | nothing is registered again after a reconnect (`device/avrcp.rs:776`) |
| Avrcp: `LabelsAccounted` | "again", or "position" | a registration made twice, or a position notification, keeps a label for good |
| Avrcp: `MetadataAnswered` | "abort" | an aborted query is never reported ended |
| CarKit: `SlotTellsTruth`, `OperatorKnown` | an incoming call, a changed operator | the OK of the codec answer is taken for another command's, and the operator's name is lost (`hfp.rs:1443`) |
| CarKit: `AudioGoesWithCall` | an incoming call that ends | audio that comes up after its call stays up (`car_kit.rs:1165`) |
| CarKit: `CallGetsAudio` | two calls | the second call never gets audio |
| CarKit: `LearnedAgrees` | "indicator" | an indicator that changes during set-up is not learned |
| ClassicHost: `BuffersRespected` | Buffers = 1 | signalling takes no buffer into account |
| ClassicHost: `CreditsReturn` | MaxLinks = 2 | packets in the controller when a link goes are never returned (`classic_host.rs:2082`) |
| Broadcast: `AppInformed` | RestartUnseen = TRUE | a stop and restart between two observations loses a callback (`scripting/broadcast.rs:510`) |
| Broadcast: `StreamFlows` | one start | nothing returns a broadcaster's buffers on the simulated medium (`big_broadcaster.rs:623`) |
| Obex: `NothingLeftOver` | a channel that goes, a client that does not connect first | the next object begins with the last one's bytes (`server.rs:205`) |
| Obex: `ObjectsWhole` | packets of 37 or less | headers that do not fit leave an empty object, accepted (`server.rs:276`) |
| Ancs: `AnswersWhole` | Serial = FALSE | two answers mix (`ancs.rs:560`) |
| Ranging: `BodiesWhole` | bodies of two segments, two losses | segments of two procedures are joined (`ras.rs:409`), contrary to "dropped rather than stitched"; their counters tell |

Some hold beside the runs: RfcommDlc with an MTU of one still delivers
everything (a credit is lost at the start); ClassicHost over two links;
Broadcast with a late second receiver and with a queue of observations; every
metadata query of one session is answered.

### What the code does that no property says

Met while modelling and outside the checked instances: an HCI event's length is
one octet, so an inquiry with more than eighteen results overflows it
(`sim.rs:4805`); two services of one UUID make discovery ask for ever
(`gatt_client.rs:181`); the values of client configuration descriptors are the
device's and not each client's (`virtual_device.rs:254`); change counters and
source identifiers start again after 256 (`vcp.rs:107`, `bass.rs:556`); an
assistant subscribes to the first receive state only (`scripting/broadcast.rs:892`);
an SDP server has one pending response for all its channels (`sdp.rs:1114`) and
a client keeps its results over a reconnect (`classic_host.rs:1010`); an MTU of
nine or less makes SDP answers empty until the client's watchdog ends them; the
last command of a bulk transfer takes no buffer into account
(`throughput.rs:974`); a ranging configuration that was removed is taken for one
that was made (`channel_sounding.rs:543`).

### Bounds

The controllers keep per-pair state, so two of them, with one pair's links
replaced, crossed and reset, reach every case of a pair; a third is there where
a third party matters. `MaxActions` bounds the actions deferred in one tick: two
suffice for one routed action to meet what another left. `MaxHandle` and
`MaxLinks` bound handle allocation, a page lasts three ticks. The RFCOMM bounds
make both ends run out of credits: a limit of three frames, a low-water mark of
one, and more bytes than the first credits carry. `PhyPrefs` is a sample of LE
Set PHY's arguments: up, down, and no preference. Metadata takes three
fragments and two, so that a continuation has a middle. Framing's lengths lie
around one, two and three packets. AVDTP has two labels and AVRCP four, so that
they run out. The control points have a range of four values and a step of two,
so that both ends are met by and between steps; their counters wrap after eight,
more commands than a behaviour has. Bulk transfers have fewer, as many and more
buffers than a chunk has fragments. SDP answers are cut to the smallest
responses the code allows and below. Ranging bodies have two and four
segments, with fewer losses than segments, and run for `MaxTicks`, which two
procedures after discovery and set-up take.
Hands-free, phone, assistant and player users act two to four times, which every
counterexample above needs at most.

### Fairness

`Link::tick` drains finite queues and runs its phases to the end, so the
controller modules assume weak fairness of the tick. Nothing is assumed of hosts
except in `security_pair`, where a host that was asked answers in the end: the
code has no pairing timeout, so a silent host keeps a conversation open while
the link is up. RFCOMM, SMP, AVRCP, GATT and the car kit assume that what was
sent is received, SMP that time passes (its timer expires) and that encryption
that was started is reported, AVRCP that a channel that was asked for opens.
Users, scripts and losses are never fair.

### Deadlock

Runs say `CHECK_DEADLOCK FALSE` where the bounds (links, slots, bytes,
operations) let a behaviour come to rest.

## Proofs

Every theorem holds for all values of the constants its module's assumptions
admit: any number of controllers, handles, links, streams, deferred actions,
frames, channels, requests. Each rests on an inductive invariant, preserved by each action in a
lemma of its own, with a step per conjunct the action can disturb. The
invariants were checked by TLC on the runs' instances first. Six components'
runs check what is proved here: `classic_all`, `security_pair` with
`security_link`, `le_links` with `le_streams`, `dlc_stream`, `host_channels`,
`broadcast`;
the scene is a part of `machines`.

| Theorem | Property | From |
|---|---|---|
| `ClassicLinkProofs!TypeCorrect` | `TypeOK` | |
| `MirrorTheorem` | `LinksMirrored` | |
| `UniqueTheorem` | `HandlesUnique` | fewer links than handles |
| `ScoTheorem`, `SetupTheorem` | `ScoRidesAcl`, `InboundScoLive` | |
| `CreateTheorem` | `CreatePromiseKept` | |
| `ToldTheorem` | `HostToldOfLinks` | |
| `ClassicSecurityProofs!TypeCorrect` | `TypeOK` | |
| `EncryptionTheorem` | `EncryptionMirrored` | |
| `BondTheorem` | `BondsAgree` | |
| `AnswersTheorem` | `AnswersAwaited` | |
| `ConsentTheorem` | `KeyNeedsConsent` (an action property) | the link stays: no Disconnect, no Reset |
| `LeLinkProofs!TypeCorrect` | `TypeOK` | |
| `LinkTheorem` | `LinksAgree` | |
| `RideTheorem` | `CisRidesAcl` | no Reset |
| `MirrorTheorem` | `CisMirrored` | no Reset, no stream handle chosen twice |
| `SceneMedium!SceneTheorem` | `MediumMatchesScene` | |
| `RfcommDlcProofs!CreditsTheorem` | `CreditsConserved` | MTU other than one |
| `RfcommDlcProofs!TypeTheorem` | the counters fit a u8 | MTU other than one |
| `RfcommDlcProofs!StreamTheorem` | `IsByteStream` (refinement of ByteStream) | |
| `ClassicHostProofs!InformedTheorem` | `ProfilesInformed` | no peer closes a channel |
| `ClassicHostProofs!PairedTheorem` | `ChannelsPaired` | no peer closes a channel; identifiers enough |
| `BroadcastProofs!TypesTheorem` | `TypeOK` | |
| `BroadcastProofs!AppInformedTheorem` | `AppInformed` | no start before the end was told |
| `BroadcastProofs!ReceiversToldTheorem` | `ReceiversTold` | |
| `BroadcastProofs!DeliveredTheorem` | `DeliveredInOrder` | |

**ClassicLink.** Links are mirrored, handles unique, hosts informed, SCO links
and requests ride on their ACL: the invariants lean on each other and on facts
the runs do not name. Every handle in use is below the next one the medium
allocates (so a new link is new at both ends), a link and the SCO link on it
have different handles, deferred actions name existing controllers. Assumed: at
least one controller, a page timeout of at least one tick, and fewer handles
than `alloc_handle` can give out before it starts again.

**ClassicSecurity.** Encryption and stored keys are inductive with the types.
`AnswersAwaited` is the hard one: a conversation is opened by one routed
command, asks its hosts in one stage after the other, is pruned with its link,
while answers to its questions are queued behind whatever else was commanded in
the same tick. Its invariant (`AskInv`) says that a handle not given out has no
link and no conversation (`Fresh`), that there is one link at a time
(`OneLive`) and one conversation on it (`OneEach`), and that a live conversation
behind the first was opened in this tick and waits for its first answers
(`NotYetAsked`): a reply takes effect in the first conversation of the pair, so
what is asked for must be that one's. `KeyNeedsConsent` follows from an
invariant (`ConsentInv`) that says, for each user, whether he was asked, what he
answered and what is decided (`Stands`), of the one conversation there is while
the link stays (`LinkStays`). Without its hypothesis it is false, and TLC shows
a case over two links: an answer to a conversation that went with its link is
routed after the link came back and counts in the new one, because
`pairing_index` goes by the two ends only. `security_pair` checks
it with Disconnect and one link.

**LeLink.** That two ends agree rests on whom a handle belongs to: it is given
out once (`HandlesFresh`), to one pair (`OnePair`). Without Reset a link is held
at both ends or at neither (`HeldByBoth`), and no stream outlives it. That a
stream is the same at both ends rests on the queue: a stream known at one end
only has its CIS Request under way (`KnownOrAsked`), a request comes before
anybody else knows its stream (`RequestsFirst`), two requests are for two
streams (`RequestsApart`, `OneStream`), and no acceptance overtakes its request
(`AcceptsBehind`). Both hypotheses are necessary: with Reset a stream is
recorded at an end that holds no link, and two streams of one handle are mixed
up, as the counterexamples above show. `MaxCis`, `MaxHandle` and the bound on
queued actions are arbitrary in the theorems.

**SceneMedium.** The medium carries exactly the devices not stopped, in their
order, because the addresses of running devices differ (`AddressesUnique`): the
medium's removal goes by address, the scene's by slot.

**RfcommDlc.** For every MTU other than one, every credit limit up to a u8, every
low-water mark below it and initial credits up to the mark, credits are
conserved and the counters fit. Conservation is inductive together with the
types: the saturating operations do not saturate because the account they
update is bounded by the other end's, which conservation says. The sum over the
frames under way is the size of a set of cells (`Total`), so that a sum over a
concatenation follows from the cardinality of a disjoint union and needs no
induction. With an MTU of one a credit is lost when the first refill of an end
finds data to send, and conservation is false.

That the connection is a byte stream holds with any MTU. `StreamTheorem` maps
each state to ByteStream's (`Pipe`: the data of the frames under way, then the
buffer) and each step to its own: a write is a `Put`, a frame that arrives with
data is a `Get`, a credit frame a stutter. What carries the proof is that
`process_tx` moves bytes from the buffer to the wire and changes nothing of
their concatenation (`ProcessTxCarries`): the refill frame and the full frames,
put one after the other, are the front of the buffer (`ChunksCarry`).

**ClassicHost.** `ChannelsPaired` speaks of a quiet wire only; what it rests on
speaks of every packet under way (`Handshake`). A Connection Request is the only
packet about its channel, which waits (`AsksOnce`); an answer is too, but for
the Configure Request behind it (`AnswersOnce`); configuration is of channels
that are joined, or that an answer ahead of it will join (`ConfiguresJoined`,
`AcceptsJoined`); who waits has a request or an answer on the way
(`WaitsAnswered`); who is joined is joined back, or will be by an answer on the
way (`JoinedBack`); and each half of the configuration is done or its packet is
under way (`HalvesDone`). A handler consumes the first packet of one queue and
adds up to two to the other, a poll adds data and a request: the lemmas go by
which packets are lost and which gained. Both theorems assume that no peer
closes a channel. No host of this program does: `classic_host.rs` answers
Disconnection Requests and sends none; foreign peers that close are
model-checked (`host_channels`). `PairedTheorem` also assumes an identifier for
each channel that may be asked for (`Roomy`): `on_connection_request` drops a
request it has no identifier for, without an answer, and its sender waits. The
count of channels, requests under way and requests to be made never exceeds
what was asked for (`Counted`).

**Broadcast.** One step of this model is a whole tick, or a host's whole turn:
loops over controllers, commands, deferred actions and events (`Along`). A loop
is reasoned about by what holds between two of its rounds, and that the last
round is reached follows from there being no least length at which it fails, as
below (`AlongCommands`
and its kin, one for each loop).

`AppInformed` is inductive with the last state observed (`AppInv`). What needs
proof is that a whole drain of events moves the broadcaster along its ladder
only, so that the states between two observations are known from the two
(`Onward`); a script that starts again before it was told of the end makes two
ladders of one observation, which is what the hypothesis excludes. The program
lets it (`scripting/broadcast.rs:510`), and TLC shows the callback that is lost.

`ReceiversTold` speaks of a quiet receiver; its invariant (`ToldInv`) speaks of
every request, deferred request, answer, loss and report under way, by its
place in its queue. Of the way into a group (`Member`): one request at a time, and
nothing is answered before it; an answer comes before the loss of what it
admits to; who holds no streams and awaits no answer is not joined. Of the
synchronization (`Synced`): it is asked for once, and every report names it. Of
the BASE (`Based`): the last report under way is the newest, since the train
repeats its BASE to every synchronized receiver in the tick that changes it.
Within a tick the same is said of what remains to be done (`Good`), and during
a receiver's turn of what remains to be heard (`Settled`); `Moves` says what one
event does to a receiver, and each of its cases is a step of the handshake.

`DeliveredInOrder` says that a receiver's counter never jumps; its invariant
(`FlowInv`) follows the SDUs of a stream on all of their way. The numbers in the
broadcaster's queue, those that phase A deferred, those in the receiver's queue
and the last one heard are consecutive stretches without a hole (`Steady`),
joined end to end (`Chained` up to the medium, `Heeds` from there): phase A moves
the boundary between the first two, phase D the next, a drain the last, and
`Audio` adds at the far end. Two facts keep the stretches of two streams, or of
two broadcasts, apart. A handle is given out once, so nothing under way is for
one not given out yet (`Young`), and the handles of a BIG differ (`Block`). And
the broadcaster counts from 0 only when no SDU of its BIG is under way: its way
to a BIG and back is in step with the medium's, request, answer and end by their
places in the queues (`Hosted`, the counterpart of `Member`). A receiver that
has joined but was not told yet hears nothing (`Deaf`), and what arrives for it
starts the stretch it will hear; that it holds no streams until then is
`ToldInv`'s, so the theorem rests on that invariant too.

**Subsequences.** `At(s, I)` lists the elements of `s` at the places `I`. That
every place up to the size of `I` is taken once (`RankOnto`) would be an
induction; it follows from there being no least number that is not a rank
(`LeastNatural`, from the well-foundedness of `<`).

The same argument is the induction over the length of a sequence of frames that
`StreamTheorem` needs: the function `FlattenSeq` is defined by exists, and does
what its definition says, for there is no least length at which it fails.

What is only model-checked:

- liveness (`WaitsEnd`, `PairingResolves`, `Delivered`, `Joins`,
  `DiscoveryEnds`), which is out of the prover's reach;
- `ChannelsPaired` and `ProfilesInformed` with peers that close channels;
- the properties of modules that use recursive operators or read octets (the
  codecs, SDP, GATT, framing, hands-free lines);
- `AppInformed` with a script that starts again unseen, which is refuted;
- the invariants of RfcommMux, SmpPairing, Avdtp and the profiles,
  which the combined runs check and no theorem states yet.

## Not modelled, and the plan

Wording and logging are left out throughout, and values that no property tells
apart are abstract. Not modelled:

- arithmetic: cryptography, audio codecs, propagation, tones and distances,
  direction finding;
- the scene runner, the control API, transports and their reconnects: threads
  and sockets around calls that are modelled;
- scripting bindings, command-line tools, Android and web front ends;
- profiles that are only attribute values (PACS, TMAP, GMAP, CAP, CSIP, PBP,
  ASHA, heart rate);
- LE credit-based channels, which no host opens; prepared writes and long reads;
  several centrals at one attribute server; several SDP channels at once;
- Reset under a running broadcast, several advertising sets, fragmented
  advertising data; removal of a sounding configuration.

Next: credit-based channels and prepared writes; a composition of SmpPairing
with LeLink's encryption; two clients of one attribute server. Theorem worth
proving next: `SessionsAgree` (RfcommMux).
