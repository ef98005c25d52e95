------------------------------ MODULE ClassicHost ------------------------------
(***************************************************************************)
(* Two BR/EDR hosts on one link (device/classic_host.rs): the handshake    *)
(* that opens L2CAP channels (l2cap/classic.rs), the profiles that are     *)
(* told of channels coming and going, and the queue that paces their data  *)
(* by the controller's buffers.                                            *)
(*                                                                         *)
(* A controller holds packets, sends them in order and reports them done;  *)
(* when the link goes it drops them and says so to both hosts.  Each link  *)
(* has a handle of its own.  An SDU fits one packet (module Framing cuts   *)
(* it); MTUs, names, inquiry and security events are left out.             *)
(***************************************************************************)
EXTENDS Naturals, Sequences, FiniteSets, Subsequences

CONSTANTS Psms,       \* protocol/service multiplexers
          Serves1,    \* PSMs the profiles of host 1 have registered, and those of host 2
          Serves2,
          MaxCid,     \* channel identifiers are 1 .. MaxCid
          Buffers,    \* ACL packets a controller can hold
          MaxLinks,   \* bounds: links, channels each host asks for, SDUs
          MaxAsks,
          MaxSdus,
          Closes      \* whether the peer of a channel may close it

Host == {1, 2}
Peer(h) == 3 - h
Cid == 1 .. MaxCid

Servers == <<Serves1, Serves2>>

ASSUME HostAssumption ==
  /\ Serves1 \subseteq Psms /\ Serves2 \subseteq Psms
  /\ MaxCid \in Nat \ {0} /\ Buffers \in Nat /\ MaxAsks \in Nat

VARIABLES
  host,    \* host[h]: channels, profiles, and the packets that wait for a buffer
  links,   \* number of links so far; the last is up or down
  isUp,
  held,    \* held[h]: packets of h that its controller holds
  done,    \* done[h]: packets sent that h has not been told of
  events,  \* hosts owed a Disconnection Complete
  asked,   \* channels the profiles of each host asked for, SDUs they wrote, counted
  sdus

vars == <<host, links, isUp, held, done, events, asked, sdus>>

NewHost == [conn |-> 0, chan |-> <<>>, next |-> 1, announced |-> {}, served |-> {},
            wants |-> <<>>, opens |-> <<>>, pending |-> <<>>, inFlight |-> 0]

Init ==
  /\ host = [h \in Host |-> NewHost]
  /\ links = 0 /\ isUp = FALSE
  /\ held = [h \in Host |-> <<>>]
  /\ done = [h \in Host |-> 0]
  /\ events = {}
  /\ asked = [h \in Host |-> 0] /\ sdus = 0

--------------------------------------------------------------------------------
(* ClassicChannelManager: a host's channels by their local identifier. *)

Restricted(chan, cids) == [c \in (DOMAIN chan) \cap cids |-> chan[c]]
With(chan, cid, channel) == [c \in (DOMAIN chan) \cup {cid} |-> IF c = cid THEN channel ELSE chan[c]]
Without(chan, cid) == Restricted(chan, Cid \ {cid})

Channel(psm, peer, state) ==
  [psm |-> psm, peer |-> peer, state |-> state, localDone |-> FALSE, remoteDone |-> FALSE]

\* allocate: the first identifier from next on that no channel has.
FreeCids(s) ==
  LET nth(o) == ((s.next - 1 + o) % MaxCid) + 1
  IN {nth(o) : o \in {o \in 0 .. MaxCid - 1 :
        /\ nth(o) \notin DOMAIN s.chan
        /\ \A p \in 0 .. o - 1 : nth(p) \in DOMAIN s.chan}}

Allocated(s, cid, channel) ==
  [s EXCEPT !.chan = With(@, cid, channel), !.next = (cid % MaxCid) + 1]

MaybeOpen(channel) ==
  IF channel.localDone /\ channel.remoteDone THEN [channel EXCEPT !.state = "Open"] ELSE channel

Packet(s, type, dst, body) == [handle |-> s.conn, type |-> type, dst |-> dst, body |-> body]

\* open_channel: the request names the identifier chosen here.
OpenChannel(s, psm) ==
  IF FreeCids(s) = {} THEN [s |-> s, out |-> <<>>]
  ELSE LET cid == CHOOSE c \in FreeCids(s) : TRUE
       IN [s |-> Allocated(s, cid, Channel(psm, 0, "WaitConnectRsp")),
           out |-> <<Packet(s, "ConnReq", 0, [psm |-> psm, src |-> cid])>>]

ConfigRequest(s, cid) == Packet(s, "ConfReq", s.chan[cid].peer, [psm |-> s.chan[cid].psm, src |-> cid])

OnConnectionRequest(s, h, p) ==
  IF p.body.psm \notin Servers[h]
  THEN [s |-> s, out |-> <<Packet(s, "ConnRsp", p.body.src, [psm |-> p.body.psm, src |-> 0])>>]
  ELSE IF FreeCids(s) = {} THEN [s |-> s, out |-> <<>>]
  ELSE LET cid == CHOOSE c \in FreeCids(s) : TRUE
           t == Allocated(s, cid, Channel(p.body.psm, p.body.src, "WaitConfig"))
       IN [s |-> t, out |-> <<Packet(s, "ConnRsp", p.body.src, [psm |-> p.body.psm, src |-> cid]),
                              ConfigRequest(t, cid)>>]

\* The peer answers a channel opened here; refused ones are dropped.
OnConnectionResponse(s, p) ==
  IF p.body.src = 0 THEN [s |-> [s EXCEPT !.chan = Without(@, p.dst)], out |-> <<>>]
  ELSE IF p.dst \notin DOMAIN s.chan THEN [s |-> s, out |-> <<>>]
  ELSE LET t == [s EXCEPT !.chan[p.dst].peer = p.body.src, !.chan[p.dst].state = "WaitConfig"]
       IN [s |-> t, out |-> <<ConfigRequest(t, p.dst)>>]

OnConfigurationRequest(s, p) ==
  IF p.dst \notin DOMAIN s.chan THEN [s |-> s, out |-> <<>>]
  ELSE [s |-> [s EXCEPT !.chan[p.dst] = MaybeOpen([@ EXCEPT !.remoteDone = TRUE])],
        out |-> <<Packet(s, "ConfRsp", s.chan[p.dst].peer, p.body)>>]

OnConfigurationResponse(s, p) ==
  IF p.dst \notin DOMAIN s.chan THEN [s |-> s, out |-> <<>>]
  ELSE [s |-> [s EXCEPT !.chan[p.dst] = MaybeOpen([@ EXCEPT !.localDone = TRUE])], out |-> <<>>]

\* Mutant of OnDisconnectionRequest: the profile is told, the channel stays.
OnDisconnectionRequestKept(s, p) ==
  [s |-> [s EXCEPT !.announced = @ \ {p.dst}, !.served = @ \ {p.dst}],
   out |-> <<Packet(s, "DiscRsp", p.body.src, p.body)>>]

\* The peer closes a channel: the profile loses it.
OnDisconnectionRequest(s, p) ==
  [s |-> [s EXCEPT !.chan = Without(@, p.dst), !.announced = @ \ {p.dst}, !.served = @ \ {p.dst}],
   out |-> <<Packet(s, "DiscRsp", p.body.src, p.body)>>]

HandleAcl(s, h, p) ==
  CASE p.type = "ConnReq" -> OnConnectionRequest(s, h, p)
    [] p.type = "ConnRsp" -> OnConnectionResponse(s, p)
    [] p.type = "ConfReq" -> OnConfigurationRequest(s, p)
    [] p.type = "ConfRsp" -> OnConfigurationResponse(s, p)
    [] p.type = "DiscReq" -> OnDisconnectionRequest(s, p)
    [] OTHER -> [s |-> s, out |-> <<>>]

--------------------------------------------------------------------------------
(* poll: what every packet, and every tick, ends with. *)

OpenCids(s) == {c \in DOMAIN s.chan : s.chan[c].state = "Open"}

\* A profile learns of a channel at the first poll that finds it open.
Announced(s) == [s EXCEPT !.announced = @ \cup OpenCids(s), !.served = @ \cup OpenCids(s)]

\* The SDUs of profiles whose channel is open join the queue.
SendOn(s, psm) == {c \in OpenCids(s) : s.chan[c].psm = psm /\ \A d \in OpenCids(s) :
                                         s.chan[d].psm = psm => c <= d}

Collected(s) ==
  LET now == {k \in DOMAIN s.wants : SendOn(s, s.wants[k]) # {}}
      ready == At(s.wants, now)
  IN [s EXCEPT !.wants = At(@, DOMAIN @ \ now),
               !.pending = @ \o [k \in DOMAIN ready |->
                  LET cid == CHOOSE c \in SendOn(s, ready[k]) : TRUE
                  IN Packet(s, "Data", s.chan[cid].peer, [psm |-> ready[k], src |-> cid])]]

\* Packets leave while the controller has a buffer free for them.
Released(s) ==
  LET room == Buffers - s.inFlight
      n == IF room > Len(s.pending) THEN Len(s.pending) ELSE IF room < 0 THEN 0 ELSE room
  IN [s |-> [s EXCEPT !.pending = SubSeq(@, n + 1, Len(@)), !.inFlight = @ + n],
      out |-> SubSeq(s.pending, 1, n)]

\* open_requested_channels, one request of a profile at a time.
OpensRequested(s) ==
  IF s.opens = <<>> THEN [s |-> s, out |-> <<>>]
  ELSE OpenChannel([s EXCEPT !.opens = Tail(@)], Head(s.opens))

\* What the controller takes: packets for the link that is up.
Taken(out) == At(out, {k \in DOMAIN out : isUp /\ out[k].handle = links})

Poll(s) ==
  IF s.conn = 0 THEN [s |-> s, out |-> <<>>]
  ELSE LET r == Released(Collected(Announced(s)))
           o == OpensRequested(r.s)
       IN [s |-> o.s, out |-> Taken(r.out) \o Taken(o.out)]

\* A host after a handler and the poll that follows it, and what it gives its controller.
Handled(h, r) ==
  LET p == Poll(r.s)
  IN [s |-> p.s, out |-> Taken(r.out) \o p.out]

--------------------------------------------------------------------------------
(* The link and the controllers. *)

ConnectionComplete ==
  /\ ~isUp /\ events = {} /\ links < MaxLinks
  /\ isUp' = TRUE /\ links' = links + 1
  /\ host' = [h \in Host |-> [host[h] EXCEPT !.conn = links + 1]]
  /\ UNCHANGED <<held, done, events, asked, sdus>>

LinkLost ==
  /\ isUp
  /\ isUp' = FALSE
  /\ held' = [h \in Host |-> <<>>]
  /\ done' = [h \in Host |-> 0]
  /\ events' = Host
  /\ UNCHANGED <<host, links, asked, sdus>>

\* Mutant of ChannelsLost: the profiles are not told.
ChannelsLostQuietly(s) == [s EXCEPT !.conn = 0, !.chan = <<>>, !.announced = {}]

ChannelsLost(s) == [s EXCEPT !.conn = 0, !.chan = <<>>, !.announced = {}, !.served = {}]

DisconnectionComplete(h) ==
  /\ h \in events
  /\ events' = events \ {h}
  /\ host' = [host EXCEPT ![h] = ChannelsLost(@)]
  /\ UNCHANGED <<links, isUp, held, done, asked, sdus>>

\* The controller of h sends a packet; the other host handles it.
Deliver(h) ==
  /\ isUp /\ held[h] # <<>>
  /\ LET g == Peer(h)
         r == Handled(g, HandleAcl(host[g], g, Head(held[h])))
     IN /\ host' = [host EXCEPT ![g] = r.s]
        /\ held' = [held EXCEPT ![h] = Tail(@), ![g] = @ \o r.out]
  /\ done' = [done EXCEPT ![h] = @ + 1]
  /\ UNCHANGED <<links, isUp, events, asked, sdus>>

\* Number Of Completed Packets, for all that were sent.
CompletedPackets(h) ==
  /\ done[h] > 0
  /\ LET s == host[h]
         r == Handled(h, [s |-> [s EXCEPT !.inFlight = IF @ > done[h] THEN @ - done[h] ELSE 0],
                          out |-> <<>>])
     IN /\ host' = [host EXCEPT ![h] = r.s]
        /\ held' = [held EXCEPT ![h] = @ \o r.out]
  /\ done' = [done EXCEPT ![h] = 0]
  /\ UNCHANGED <<links, isUp, events, asked, sdus>>

Tick(h) ==
  /\ LET r == Handled(h, [s |-> host[h], out |-> <<>>])
     IN /\ host' = [host EXCEPT ![h] = r.s]
        /\ held' = [held EXCEPT ![h] = @ \o r.out]
  /\ host' # host
  /\ UNCHANGED <<links, isUp, done, events, asked, sdus>>

--------------------------------------------------------------------------------
(* The profiles. *)

AskChannel(h, psm) ==
  /\ asked[h] < MaxAsks
  /\ asked' = [asked EXCEPT ![h] = @ + 1]
  /\ host' = [host EXCEPT ![h].opens = Append(@, psm)]
  /\ UNCHANGED <<links, isUp, held, done, events, sdus>>

WriteSdu(h, psm) ==
  /\ sdus < MaxSdus
  /\ sdus' = sdus + 1
  /\ host' = [host EXCEPT ![h].wants = Append(@, psm)]
  /\ UNCHANGED <<links, isUp, held, done, events, asked>>

\* A peer that closes a channel it has; this host never does by itself.
PeerCloses(h, cid) ==
  /\ Closes /\ isUp /\ cid \in OpenCids(host[h])
  /\ host' = [host EXCEPT ![h] = [@ EXCEPT !.chan = Without(@, cid), !.announced = @ \ {cid},
                                           !.served = @ \ {cid}]]
  /\ held' = [held EXCEPT ![h] = Append(@, Packet(host[h], "DiscReq", host[h].chan[cid].peer,
                                                  [psm |-> host[h].chan[cid].psm, src |-> cid]))]
  /\ UNCHANGED <<links, isUp, done, events, asked, sdus>>

Next ==
  \/ ConnectionComplete
  \/ LinkLost
  \/ \E h \in Host : DisconnectionComplete(h) \/ Deliver(h) \/ CompletedPackets(h) \/ Tick(h)
  \/ \E h \in Host : \/ \E psm \in Psms : AskChannel(h, psm) \/ WriteSdu(h, psm)
                     \/ \E cid \in Cid : PeerCloses(h, cid)

Spec == Init /\ [][Next]_vars

--------------------------------------------------------------------------------
Quiet == isUp /\ \A h \in Host : held[h] = <<>> /\ done[h] = 0

\* Once nothing is on its way, the channels of the two hosts are pairs, open at
\* both ends or at neither, for the same PSM.
ChannelsPaired ==
  Quiet => \A h \in Host : \A c \in DOMAIN host[h].chan :
    LET mine == host[h].chan[c] IN
    /\ mine.peer \in DOMAIN host[Peer(h)].chan
    /\ LET theirs == host[Peer(h)].chan[mine.peer]
       IN theirs.peer = c /\ theirs.psm = mine.psm /\ theirs.state = mine.state /\ mine.state = "Open"

\* A profile that believes it has a channel has one that is open and for its PSM,
\* and no profile outlives its link: the handler's callbacks add up.
ProfilesInformed == \A h \in Host : host[h].served \subseteq OpenCids(host[h])

\* What a host hands to its controller never exceeds the buffers it has.
BuffersRespected == \A h \in Host : Len(held[h]) <= Buffers

\* Data waits for a buffer only while packets of this link are out.
CreditsReturn == Quiet => \A h \in Host : host[h].inFlight = 0
================================================================================
