---------------------------- MODULE ClassicHostProofs ----------------------------
(***************************************************************************)
(* The handshake that opens L2CAP channels between two hosts neither of    *)
(* which closes a channel, as this program never does: for any PSMs,       *)
(* servers, buffers, links, requests and data, profiles hold open channels *)
(* only, and, when there are identifiers enough, channels end up in pairs. *)
(***************************************************************************)
EXTENDS ClassicHost

--------------------------------------------------------------------------------
(* The invariant, over channels ch[h] and the packets q[h] host h sent.     *)

State == {"WaitConnectRsp", "WaitConfig", "Open"}

ChannelSet == [psm : Psms, peer : 0 .. MaxCid, state : State,
               localDone : BOOLEAN, remoteDone : BOOLEAN]

Chans == UNION {[D -> ChannelSet] : D \in SUBSET Cid}

PacketSet == [handle : Nat, type : {"ConnReq", "ConnRsp", "ConfReq", "ConfRsp", "Data"},
              dst : 0 .. MaxCid, body : [psm : Psms, src : 0 .. MaxCid]]

\* What waits for a buffer is data, of this link or of one that was lost.
DataSet == [handle : Nat, type : {"Data"}, dst : 0 .. MaxCid, body : [psm : Psms, src : 0 .. MaxCid]]

HostSet == [conn : Nat, chan : Chans, next : Cid, announced : SUBSET Cid, served : SUBSET Cid,
            wants : Seq(Psms), opens : Seq(Psms), pending : Seq(DataSet), inFlight : Nat]

\* Packet i that host h sent asks for a channel for its c and PSM m, answers that for
\* the peer's c with its own d, configures the peer's c, accepts its configuration.
Req(q, h, i, c, m) == i \in DOMAIN q[h] /\ q[h][i].type = "ConnReq" /\ q[h][i].body = [psm |-> m, src |-> c]
Rsp(q, h, i, c, d) == i \in DOMAIN q[h] /\ q[h][i].type = "ConnRsp" /\ q[h][i].dst = c /\ q[h][i].body.src = d
Cfg(q, h, i, c) == i \in DOMAIN q[h] /\ q[h][i].type = "ConfReq" /\ q[h][i].dst = c
Ack(q, h, i, c) == i \in DOMAIN q[h] /\ q[h][i].type = "ConfRsp" /\ q[h][i].dst = c

\* Channel c of h waits for the peer's answer; it is joined to the peer's d.
Waits(ch, h, c) == c \in DOMAIN ch[h] /\ ch[h][c].state = "WaitConnectRsp"
Joined(ch, h, c, d) ==
  /\ c \in DOMAIN ch[h] /\ d \in DOMAIN ch[Peer(h)]
  /\ ch[h][c].state # "WaitConnectRsp" /\ ch[h][c].peer = d
  /\ ch[h][c].psm = ch[Peer(h)][d].psm

\* No channel of h is joined to the peer's c.
Unjoined(ch, h, c) == \A d \in DOMAIN ch[h] : ch[h][d].peer # c

\* A request is the only packet about its channel, which waits for the answer.
Alone(ch, q, h, i, c, m) ==
  /\ Waits(ch, h, c) /\ ch[h][c].psm = m
  /\ \A j \in Nat, n \in Psms : Req(q, h, j, c, n) => j = i
  /\ \A j \in Nat, d \in 0 .. MaxCid : ~Rsp(q, Peer(h), j, c, d)
  /\ Unjoined(ch, Peer(h), c)
AsksOnce(ch, q) ==
  \A h \in Host, i \in Nat, c \in 0 .. MaxCid, m \in Psms :
    Req(q, h, i, c, m) => Alone(ch, q, h, i, c, m)

\* So is an answer; one that accepts is followed by a configuration request.
Answering(ch, q, h, i, c, d) ==
  /\ Waits(ch, Peer(h), c)
  /\ \A j \in Nat, e \in 0 .. MaxCid : Rsp(q, h, j, c, e) => j = i
  /\ d = 0 => Unjoined(ch, h, c)
  /\ d # 0 => Joined(ch, h, d, c) /\ \E j \in Nat : i < j /\ Cfg(q, h, j, c)
AnswersOnce(ch, q) ==
  \A h \in Host, i \in Nat, c \in 0 .. MaxCid, d \in 0 .. MaxCid :
    Rsp(q, h, i, c, d) => Answering(ch, q, h, i, c, d)

\* A configuration request is about a joined channel, whose answer is before it or past.
Configuring(ch, q, h, i, c) ==
  /\ \E d \in Cid : Joined(ch, h, d, c)
  /\ Waits(ch, Peer(h), c) => \E j \in Nat, d \in 0 .. MaxCid : j < i /\ Rsp(q, h, j, c, d)
ConfiguresJoined(ch, q) ==
  \A h \in Host, i \in Nat, c \in 0 .. MaxCid : Cfg(q, h, i, c) => Configuring(ch, q, h, i, c)

\* The acceptance of a configuration reaches a channel that is joined.
AcceptsJoined(ch, q) ==
  \A h \in Host, i \in Nat, c \in 0 .. MaxCid :
    Ack(q, h, i, c) => c \in DOMAIN ch[Peer(h)] /\ ~Waits(ch, Peer(h), c)

\* With as many identifiers as both hosts can ask for, no request is dropped.
Roomy == 2 * MaxAsks <= MaxCid

\* A channel that waits has its request or the answer on the way.
Awaiting(ch, q, h, c) ==
  /\ ch[h][c].peer = 0 /\ ~ch[h][c].localDone /\ ~ch[h][c].remoteDone
  /\ Roomy => \/ \E i \in Nat : Req(q, h, i, c, ch[h][c].psm)
              \/ \E i \in Nat, d \in 0 .. MaxCid : Rsp(q, Peer(h), i, c, d)
WaitsAnswered(ch, q) ==
  \A h \in Host : \A c \in DOMAIN ch[h] : Waits(ch, h, c) => Awaiting(ch, q, h, c)

\* Any other is joined to one that is joined to it, or will be by an answer on the way.
Back(ch, q, h, c) ==
  /\ Joined(ch, h, c, ch[h][c].peer)
  /\ \/ ch[Peer(h)][ch[h][c].peer].peer = c
     \/ \E i \in Nat : Rsp(q, h, i, ch[h][c].peer, c)
JoinedBack(ch, q) ==
  \A h \in Host : \A c \in DOMAIN ch[h] : ~Waits(ch, h, c) => Back(ch, q, h, c)

\* Each half of the configuration is done or on its way, and both done is open.
Half(ch, q, h, c) ==
  /\ \/ ch[h][c].remoteDone
     \/ Waits(ch, Peer(h), ch[h][c].peer)
     \/ \E i \in Nat : Cfg(q, Peer(h), i, c)
  /\ \/ ch[h][c].localDone
     \/ \E i \in Nat : Cfg(q, h, i, ch[h][c].peer)
     \/ \E i \in Nat : Ack(q, Peer(h), i, c)
  /\ ch[h][c].localDone /\ ch[h][c].remoteDone => ch[h][c].state = "Open"
HalvesDone(ch, q) ==
  \A h \in Host : \A c \in DOMAIN ch[h] : ~Waits(ch, h, c) => Half(ch, q, h, c)

Handshake(ch, q) ==
  /\ AsksOnce(ch, q) /\ AnswersOnce(ch, q) /\ ConfiguresJoined(ch, q) /\ AcceptsJoined(ch, q)
  /\ WaitsAnswered(ch, q) /\ JoinedBack(ch, q) /\ HalvesDone(ch, q)

\* The channels a host still asks the other for.
Asking(q, h) == {c \in Cid : \E i \in Nat, m \in Psms : Req(q, h, i, c, m)}

\* A host's channels, and those it will be asked for: with the requests still to be made,
\* both were asked for by the profiles of one of the two hosts.
Load(ch, q, h) == Cardinality(DOMAIN ch[h]) + Cardinality(Asking(q, Peer(h)))
Opens(s, h) == Len(s[h].opens) + Len(s[Peer(h)].opens)
Counted(ch, q, s, a) == \A h \in Host : Load(ch, q, h) + Opens(s, h) <= a[h] + a[Peer(h)]

Channels == [h \in Host |-> host[h].chan]

TypeOK ==
  /\ host \in [Host -> HostSet]
  /\ links \in Nat /\ isUp \in BOOLEAN
  /\ held \in [Host -> Seq(PacketSet)] /\ done \in [Host -> Nat]
  /\ events \subseteq Host
  /\ asked \in [Host -> 0 .. MaxAsks]

\* While the link is up the hosts know it; while it is down nothing of it is left, but for
\* the channels of a host that was not told.
Linked ==
  IF isUp THEN /\ links # 0 /\ events = {} /\ \A h \in Host : host[h].conn = links
               /\ Handshake(Channels, held)
  ELSE \A h \in Host : /\ held[h] = <<>> /\ done[h] = 0
                       /\ h \in events \/ (host[h].conn = 0 /\ host[h].chan = <<>>)

Inv == TypeOK /\ ProfilesInformed /\ Counted(Channels, held, host, asked) /\ Linked

--------------------------------------------------------------------------------
(* The hosts, and queues of packets. *)

\* There are two hosts, each the other's peer, and 0 identifies no channel.
LEMMA HostFacts ==
  /\ \A h \in Host : Peer(h) \in Host /\ Peer(h) # h /\ Peer(Peer(h)) = h
  /\ \A h \in Host : \A x \in Host : x = h \/ x = Peer(h)
  /\ MaxCid \in Nat /\ Cid \subseteq Nat /\ 0 \notin Cid /\ Cid \subseteq 0 .. MaxCid
BY HostAssumption DEF Host, Peer, Cid

\* A queue without its first packet.
LEMMA QueueTail ==
  ASSUME NEW S, NEW s \in Seq(S), s # <<>>
  PROVE  /\ Tail(s) \in Seq(S) /\ 1 \in DOMAIN s /\ Head(s) = s[1] /\ s[1] \in S
         /\ DOMAIN s \subseteq Nat
         /\ \A i \in DOMAIN Tail(s) : i \in Nat /\ i # 0 /\ i + 1 \in DOMAIN s /\ Tail(s)[i] = s[i + 1]
         /\ \A i \in DOMAIN s : i = 1 \/ (i - 1 \in DOMAIN Tail(s) /\ Tail(s)[i - 1] = s[i])
<1>1. /\ Len(s) \in Nat \ {0} /\ DOMAIN s = 1 .. Len(s) /\ Tail(s) \in Seq(S)
      /\ DOMAIN Tail(s) = 1 .. Len(Tail(s)) /\ Len(Tail(s)) = Len(s) - 1
      /\ \A i \in 1 .. (Len(s) - 1) : Tail(s)[i] = s[i + 1]
      /\ Head(s) = s[1] /\ \A i \in 1 .. Len(s) : s[i] \in S
  OBVIOUS
<1>2. ASSUME NEW i \in 1 .. Len(s), i # 1
      PROVE  i - 1 \in 1 .. (Len(s) - 1) /\ Tail(s)[i - 1] = s[i]
  <2>1. i - 1 \in 1 .. (Len(s) - 1) /\ (i - 1) + 1 = i
    BY <1>1, <1>2
  <2> QED BY <2>1, <1>1
<1>3. ASSUME NEW i \in 1 .. (Len(s) - 1)
      PROVE  i \in Nat /\ i # 0 /\ i + 1 \in 1 .. Len(s)
  BY <1>1
<1> QED BY <1>1, <1>2, <1>3

\* A queue with more packets after it.
LEMMA QueueMore ==
  ASSUME NEW S, NEW s \in Seq(S), NEW u \in Seq(S)
  PROVE  /\ s \o u \in Seq(S) /\ Len(s) \in Nat
         /\ DOMAIN s \subseteq Nat /\ DOMAIN (s \o u) \subseteq Nat
         /\ DOMAIN s = 1 .. Len(s) /\ DOMAIN u = 1 .. Len(u)
         /\ \A i \in DOMAIN s : i <= Len(s) /\ i \in DOMAIN (s \o u) /\ (s \o u)[i] = s[i]
         /\ \A i \in DOMAIN u : Len(s) + i \in DOMAIN (s \o u) /\ (s \o u)[Len(s) + i] = u[i]
         /\ \A i \in DOMAIN (s \o u) : \/ i \in DOMAIN s
                                       \/ i - Len(s) \in DOMAIN u /\ (s \o u)[i] = u[i - Len(s)]
<1>1. /\ Len(s) \in Nat /\ Len(u) \in Nat /\ DOMAIN s = 1 .. Len(s) /\ DOMAIN u = 1 .. Len(u)
      /\ s \o u \in Seq(S) /\ Len(s \o u) = Len(s) + Len(u) /\ DOMAIN (s \o u) = 1 .. (Len(s) + Len(u))
      /\ \A i \in 1 .. (Len(s) + Len(u)) : (s \o u)[i] = IF i <= Len(s) THEN s[i] ELSE u[i - Len(s)]
  OBVIOUS
<1>2. ASSUME NEW i \in 1 .. Len(u)
      PROVE  Len(s) + i \in 1 .. (Len(s) + Len(u)) /\ (s \o u)[Len(s) + i] = u[i]
  <2>1. Len(s) + i \in 1 .. (Len(s) + Len(u)) /\ ~(Len(s) + i <= Len(s)) /\ (Len(s) + i) - Len(s) = i
    BY <1>1
  <2> QED BY <2>1, <1>1
<1>3. ASSUME NEW i \in 1 .. Len(s)
      PROVE  i <= Len(s) /\ i \in 1 .. (Len(s) + Len(u)) /\ (s \o u)[i] = s[i]
  BY <1>1
<1>4. ASSUME NEW i \in 1 .. (Len(s) + Len(u)), i \notin 1 .. Len(s)
      PROVE  i - Len(s) \in 1 .. Len(u) /\ (s \o u)[i] = u[i - Len(s)]
  BY <1>1, <1>4
<1> QED BY <1>1, <1>2, <1>3, <1>4

--------------------------------------------------------------------------------
(* How the handshake goes on as one packet is handled or sent. *)

\* The packets of two queues say the same, but for what is said otherwise.
SameReq(q, r) == \A x \in Host : \A i, c, m : Req(r, x, i, c, m) <=> Req(q, x, i, c, m)
SameRsp(q, r) == \A x \in Host : \A i, c, d : Rsp(r, x, i, c, d) <=> Rsp(q, x, i, c, d)
SameCfg(q, r) == \A x \in Host : \A i, c : Cfg(r, x, i, c) <=> Cfg(q, x, i, c)
SameAck(q, r) == \A x \in Host : \A i, c : Ack(r, x, i, c) <=> Ack(q, x, i, c)

\* But for the first packet of h, which is gone.
LoseReq(q, r, h) == \A x \in Host : \A i, c, m : Req(r, x, i, c, m) <=> Req(q, x, i, c, m) /\ ~(x = h /\ i = 1)
LoseRsp(q, r, h) == \A x \in Host : \A i, c, d : Rsp(r, x, i, c, d) <=> Rsp(q, x, i, c, d) /\ ~(x = h /\ i = 1)
LoseCfg(q, r, h) == \A x \in Host : \A i, c : Cfg(r, x, i, c) <=> Cfg(q, x, i, c) /\ ~(x = h /\ i = 1)
LoseAck(q, r, h) == \A x \in Host : \A i, c : Ack(r, x, i, c) <=> Ack(q, x, i, c) /\ ~(x = h /\ i = 1)

\* But for packet n of g, about identifier c (and PSM m, or the identifier d of g).
GainReq(q, r, g, n, c, m) ==
  \A x \in Host : \A i, e, b : Req(r, x, i, e, b) <=> Req(q, x, i, e, b) \/ (x = g /\ i = n /\ e = c /\ b = m)
GainRsp(q, r, g, n, c, d) ==
  \A x \in Host : \A i, e, b : Rsp(r, x, i, e, b) <=> Rsp(q, x, i, e, b) \/ (x = g /\ i = n /\ e = c /\ b = d)
GainCfg(q, r, g, n, c) ==
  \A x \in Host : \A i, e : Cfg(r, x, i, e) <=> Cfg(q, x, i, e) \/ (x = g /\ i = n /\ e = c)
GainAck(q, r, g, n, c) ==
  \A x \in Host : \A i, e : Ack(r, x, i, e) <=> Ack(q, x, i, e) \/ (x = g /\ i = n /\ e = c)

\* The channels are the same, but for what channel c of g is; or but for one more, or less.
Alters(ch, ch2, g, c) ==
  /\ \A x \in Host : DOMAIN ch2[x] = DOMAIN ch[x]
  /\ \A x \in Host : \A e \in DOMAIN ch[x] : x # g \/ e # c => ch2[x][e] = ch[x][e]
  /\ ch2[g][c].psm = ch[g][c].psm
Adds(ch, ch2, g, c) ==
  /\ c \notin DOMAIN ch[g] /\ DOMAIN ch2[g] = DOMAIN ch[g] \cup {c}
  /\ \A e \in DOMAIN ch[g] : ch2[g][e] = ch[g][e]
  /\ \A x \in Host : x # g => ch2[x] = ch[x]
Drops(ch, ch2, g, c) ==
  /\ DOMAIN ch2[g] = DOMAIN ch[g] \ {c}
  /\ \A e \in DOMAIN ch2[g] : ch2[g][e] = ch[g][e]
  /\ \A x \in Host : x # g => ch2[x] = ch[x]

\* The identifiers and the fields of a host's channels.
LEMMA ChansType ==
  ASSUME NEW ch \in [Host -> Chans], NEW x \in Host
  PROVE  /\ DOMAIN ch[x] \subseteq Cid
         /\ \A e \in DOMAIN ch[x] :
              /\ e \in Cid /\ e \in 0 .. MaxCid /\ e \in Nat /\ e # 0
              /\ ch[x][e] \in ChannelSet
              /\ ch[x][e].peer \in 0 .. MaxCid /\ ch[x][e].psm \in Psms /\ ch[x][e].state \in State
              /\ ch[x][e].localDone \in BOOLEAN /\ ch[x][e].remoteDone \in BOOLEAN
<1>1. PICK D \in SUBSET Cid : ch[x] \in [D -> ChannelSet]
  BY DEF Chans
<1>2. \A e \in D : e \in Cid /\ ch[x][e] \in ChannelSet /\ DOMAIN ch[x] = D
  BY <1>1
<1>3. \A e \in Cid : e \in 0 .. MaxCid /\ e \in Nat /\ e # 0
  BY HostFacts
<1>4. \A f \in ChannelSet : /\ f.peer \in 0 .. MaxCid /\ f.psm \in Psms /\ f.state \in State
                            /\ f.localDone \in BOOLEAN /\ f.remoteDone \in BOOLEAN
  BY DEF ChannelSet
<1> QED BY <1>1, <1>2, <1>3, <1>4

\* A peer's configuration of a joined channel is taken and accepted.
LEMMA Configured ==
  ASSUME NEW ch \in [Host -> Chans], NEW ch2 \in [Host -> Chans], NEW q, NEW r,
         NEW h \in Host, NEW g \in Host, g = Peer(h), h = Peer(g), g # h,
         NEW c \in 0 .. MaxCid, NEW n \in Nat, NEW d0, d0 = ch[g][c].peer,
         Handshake(ch, q), Cfg(q, h, 1, c), \A e, d : ~Rsp(q, h, 0, e, d),
         SameReq(q, r), SameRsp(q, r), LoseCfg(q, r, h), GainAck(q, r, g, n, d0),
         Alters(ch, ch2, g, c), ch2[g][c].peer = d0,
         ch2[g][c].state = "WaitConnectRsp" <=> ch[g][c].state = "WaitConnectRsp",
         ch2[g][c].localDone = ch[g][c].localDone, ch2[g][c].remoteDone,
         ch2[g][c].localDone => ch2[g][c].state = "Open"
  PROVE  Handshake(ch2, r) /\ ch[g][c].peer \in Cid
<1> USE DEF LoseCfg, GainAck
<1>a. \A x \in Host : DOMAIN ch2[x] = DOMAIN ch[x]
  BY DEF Alters
<1>b. \A x \in Host : \A e \in DOMAIN ch[x] : 
        /\ ch2[x][e].peer = ch[x][e].peer /\ ch2[x][e].psm = ch[x][e].psm
        /\ ch2[x][e].state = "WaitConnectRsp" <=> ch[x][e].state = "WaitConnectRsp"
        /\ ch2[x][e].localDone = ch[x][e].localDone
        /\ x # g \/ e # c => ch2[x][e].remoteDone = ch[x][e].remoteDone
        /\ x # g \/ e # c => ch2[x][e].state = ch[x][e].state
  BY DEF Alters
<1>c. \A i \in Nat : \A e, d : Rsp(q, h, i, e, d) => i >= 1
  <2> SUFFICES ASSUME NEW i \in Nat, NEW e, NEW d, Rsp(q, h, i, e, d), i < 1 PROVE FALSE
    OBVIOUS
  <2>1. i = 0
    OBVIOUS
  <2> QED BY <2>1
<1> USE <1>a, <1>b, <1>c
<1>1. \A x \in Host : x = h \/ x = g
  BY HostFacts
<1>2. \A x \in Host : \A e : Waits(ch2, x, e) <=> Waits(ch, x, e)
  BY DEF Waits
<1>3. \A x \in Host : \A e, d : Joined(ch2, x, e, d) <=> Joined(ch, x, e, d)
  BY HostFacts DEF Joined
<1>4. \A x \in Host : \A e : Unjoined(ch2, x, e) <=> Unjoined(ch, x, e)
  BY DEF Unjoined
<1>5. PICK d \in Cid : Joined(ch, h, d, c)
  BY DEF Handshake, ConfiguresJoined, Configuring
<1>6. ~Waits(ch, g, c) /\ c \in DOMAIN ch[g]
  BY <1>5 DEF Handshake, ConfiguresJoined, Configuring, Joined
<1>7. ch[g][c].peer = d
  <2>1. ~Waits(ch, h, d) /\ d \in DOMAIN ch[h] /\ ch[h][d].peer = c
    BY <1>5 DEF Joined, Waits
  <2>2. \/ ch[g][c].peer = d
        \/ \E i \in Nat : Rsp(q, h, i, c, d)
    BY <2>1 DEF Handshake, JoinedBack, Back
  <2> QED BY <2>2, <1>6, HostFacts DEF Handshake, AnswersOnce, Answering
<1>8. AsksOnce(ch2, r)
  BY <1>1, <1>2, <1>4 DEF Handshake, AsksOnce, Alone, SameReq, SameRsp, Waits
<1>9. AnswersOnce(ch2, r)
  <2> SUFFICES ASSUME NEW x \in Host, NEW i \in Nat, NEW e \in 0 .. MaxCid, NEW b \in 0 .. MaxCid, Rsp(r, x, i, e, b)
               PROVE  Answering(ch2, r, x, i, e, b)
    BY DEF AnswersOnce
  <2>1. Rsp(q, x, i, e, b) /\ Peer(x) \in Host
    BY HostFacts DEF SameRsp
  <2>2. Answering(ch, q, x, i, e, b)
    BY <2>1 DEF Handshake, AnswersOnce
  <2>3. ASSUME NEW j \in Nat, i < j, Cfg(q, x, j, e) PROVE Cfg(r, x, j, e)
    BY <2>1, <2>3
  <2> QED BY <2>1, <2>2, <2>3, <1>2, <1>3, <1>4 DEF SameRsp, Answering
<1>10. ConfiguresJoined(ch2, r)
  BY <1>1, <1>2, <1>3 DEF Handshake, ConfiguresJoined, Configuring, SameRsp
<1>11. AcceptsJoined(ch2, r)
  <2> SUFFICES ASSUME NEW x \in Host, NEW i \in Nat, NEW e \in 0 .. MaxCid, Ack(r, x, i, e)
               PROVE  e \in DOMAIN ch2[Peer(x)] /\ ~Waits(ch2, Peer(x), e)
    BY DEF AcceptsJoined
  <2>1. Peer(x) \in Host
    BY HostFacts
  <2>2. CASE Ack(q, x, i, e)
    BY <2>1, <2>2, <1>2 DEF Handshake, AcceptsJoined
  <2>3. CASE x = g /\ e = d
    BY <2>3, <1>2, <1>5 DEF Joined, Waits
  <2> QED BY <2>2, <2>3, <1>7
<1>12. WaitsAnswered(ch2, r)
  <2> SUFFICES ASSUME NEW x \in Host, NEW e \in DOMAIN ch[x], Waits(ch, x, e)
               PROVE  Awaiting(ch2, r, x, e)
    BY <1>2 DEF WaitsAnswered
  <2>1. Awaiting(ch, q, x, e)
    BY DEF Handshake, WaitsAnswered
  <2>2. x # g \/ e # c
    BY <1>6
  <2>3. Peer(x) \in Host
    BY HostFacts
  <2> QED BY <2>1, <2>2, <2>3 DEF SameReq, SameRsp, Awaiting
<1>13. JoinedBack(ch2, r)
  <2> SUFFICES ASSUME NEW x \in Host, NEW e \in DOMAIN ch[x], ~Waits(ch, x, e)
               PROVE  Back(ch2, r, x, e)
    BY <1>2 DEF JoinedBack
  <2>1. Back(ch, q, x, e)
    BY DEF Handshake, JoinedBack
  <2>2. Peer(x) \in Host /\ ch[x][e].peer \in DOMAIN ch[Peer(x)]
    BY <2>1, HostFacts DEF Joined, Back
  <2> QED BY <2>1, <2>2, <1>3 DEF SameRsp, Back
<1>14. HalvesDone(ch2, r)
  <2> SUFFICES ASSUME NEW x \in Host, NEW e \in DOMAIN ch[x], ~Waits(ch, x, e)
               PROVE  Half(ch2, r, x, e)
    BY <1>2 DEF HalvesDone
  <2>1. Half(ch, q, x, e)
    BY DEF Handshake, HalvesDone
  <2>2. Peer(x) \in Host
    BY HostFacts
  <2>3. ASSUME ~ch2[x][e].remoteDone, NEW i \in Nat, Cfg(q, Peer(x), i, e) PROVE Cfg(r, Peer(x), i, e)
    <3>1. CASE x = g /\ e = c
      BY <2>3, <3>1
    <3>2. CASE Peer(x) = h /\ i = 1
      <4>1. e = c /\ x = g
        BY <3>2, <2>3, <1>1 DEF Cfg
      <4> QED BY <4>1, <3>1
    <3> QED BY <2>2, <2>3, <3>2
  <2>4. ASSUME ~ch2[x][e].localDone, NEW i \in Nat, Cfg(q, x, i, ch[x][e].peer)
        PROVE  Cfg(r, x, i, ch[x][e].peer) \/ Ack(r, Peer(x), n, e)
    <3>1. CASE x = h /\ i = 1
      <4>1. ch[h][e].peer = c
        BY <3>1, <2>4 DEF Cfg
      <4>2. \/ ch[g][c].peer = e
            \/ \E k \in Nat : Rsp(q, h, k, c, e)
        BY <3>1, <4>1 DEF Handshake, JoinedBack, Back
      <4>3. ch[g][c].peer = e
        BY <4>2, <1>6, HostFacts, ChansType DEF Handshake, AnswersOnce, Answering
      <4> QED BY <3>1, <4>3
    <3> QED BY <2>4, <3>1
  <2> QED BY <2>1, <2>2, <2>3, <2>4, <1>2 DEF Half
<1> QED BY <1>7, <1>8, <1>9, <1>10, <1>11, <1>12, <1>13, <1>14 DEF Handshake

\* Packets that are not the handshake's come and go.
LEMMA Unconcerned ==
  ASSUME NEW ch, NEW q, NEW r, Handshake(ch, q),
         SameReq(q, r), SameRsp(q, r), SameCfg(q, r), SameAck(q, r)
  PROVE  Handshake(ch, r)
<1>0. \A x \in Host : Peer(x) \in Host
  BY HostFacts
<1>1. AsksOnce(ch, r)
  BY <1>0 DEF Handshake, AsksOnce, Alone, SameReq, SameRsp
<1>2. AnswersOnce(ch, r)
  BY <1>0 DEF Handshake, AnswersOnce, Answering, SameRsp, SameCfg
<1>3. ConfiguresJoined(ch, r)
  BY <1>0 DEF Handshake, ConfiguresJoined, Configuring, SameRsp, SameCfg
<1>4. AcceptsJoined(ch, r)
  BY DEF Handshake, AcceptsJoined, SameAck
<1>5. WaitsAnswered(ch, r)
  BY <1>0 DEF Handshake, WaitsAnswered, Awaiting, SameReq, SameRsp
<1>6. JoinedBack(ch, r)
  BY DEF Handshake, JoinedBack, Back, SameRsp
<1>7. HalvesDone(ch, r)
  BY <1>0 DEF Handshake, HalvesDone, Half, SameCfg, SameAck
<1> QED BY <1>1, <1>2, <1>3, <1>4, <1>5, <1>6, <1>7 DEF Handshake

\* The peer accepts a configuration.
LEMMA Accepted ==
  ASSUME NEW ch \in [Host -> Chans], NEW ch2 \in [Host -> Chans], NEW q, NEW r,
         NEW h \in Host, NEW g \in Host, g = Peer(h), h = Peer(g), g # h,
         NEW c \in 0 .. MaxCid, Handshake(ch, q), Ack(q, h, 1, c),
         SameReq(q, r), SameRsp(q, r), SameCfg(q, r), LoseAck(q, r, h),
         Alters(ch, ch2, g, c), ch2[g][c].peer = ch[g][c].peer,
         ch2[g][c].state = "WaitConnectRsp" <=> ch[g][c].state = "WaitConnectRsp",
         ch2[g][c].remoteDone = ch[g][c].remoteDone, ch2[g][c].localDone,
         ch2[g][c].remoteDone => ch2[g][c].state = "Open"
  PROVE  Handshake(ch2, r)
<1> USE DEF LoseAck
<1>a. \A x \in Host : DOMAIN ch2[x] = DOMAIN ch[x]
  BY DEF Alters
<1>b. \A x \in Host : \A e \in DOMAIN ch[x] :
        /\ ch2[x][e].peer = ch[x][e].peer /\ ch2[x][e].psm = ch[x][e].psm
        /\ ch2[x][e].state = "WaitConnectRsp" <=> ch[x][e].state = "WaitConnectRsp"
        /\ ch2[x][e].remoteDone = ch[x][e].remoteDone
        /\ x # g \/ e # c => ch2[x][e].localDone = ch[x][e].localDone
        /\ x # g \/ e # c => ch2[x][e].state = ch[x][e].state
  BY DEF Alters
<1> USE <1>a, <1>b
<1>0. \A x \in Host : Peer(x) \in Host
  BY HostFacts
<1>1. \A x \in Host : x = h \/ x = g
  BY HostFacts
<1>2. \A x \in Host : \A e : Waits(ch2, x, e) <=> Waits(ch, x, e)
  BY DEF Waits
<1>3. \A x \in Host : \A e, d : Joined(ch2, x, e, d) <=> Joined(ch, x, e, d)
  BY HostFacts DEF Joined
<1>4. \A x \in Host : \A e : Unjoined(ch2, x, e) <=> Unjoined(ch, x, e)
  BY DEF Unjoined
<1>5. ~Waits(ch, g, c) /\ c \in DOMAIN ch[g]
  BY DEF Handshake, AcceptsJoined
<1>6. AsksOnce(ch2, r)
  <2> SUFFICES ASSUME NEW x \in Host, NEW i \in Nat, NEW e \in 0 .. MaxCid, NEW b \in Psms, Req(r, x, i, e, b)
               PROVE  Alone(ch2, r, x, i, e, b)
    BY DEF AsksOnce
  <2>1. Req(q, x, i, e, b) /\ Peer(x) \in Host
    BY <1>0 DEF SameReq
  <2>2. Alone(ch, q, x, i, e, b)
    BY <2>1 DEF Handshake, AsksOnce
  <2> QED BY <2>1, <2>2, <1>2, <1>4 DEF Alone, SameReq, SameRsp, Waits
<1>7. AnswersOnce(ch2, r)
  BY <1>0, <1>2, <1>3, <1>4 DEF Handshake, AnswersOnce, Answering, SameRsp, SameCfg
<1>8. ConfiguresJoined(ch2, r)
  BY <1>0, <1>2, <1>3 DEF Handshake, ConfiguresJoined, Configuring, SameRsp, SameCfg
<1>9. AcceptsJoined(ch2, r)
  BY <1>0, <1>2 DEF Handshake, AcceptsJoined
<1>10. WaitsAnswered(ch2, r)
  <2> SUFFICES ASSUME NEW x \in Host, NEW e \in DOMAIN ch[x], Waits(ch, x, e)
               PROVE  Awaiting(ch2, r, x, e)
    BY <1>2 DEF WaitsAnswered
  <2>1. Awaiting(ch, q, x, e)
    BY DEF Handshake, WaitsAnswered
  <2>2. x # g \/ e # c
    BY <1>5
  <2> QED BY <1>0, <2>1, <2>2 DEF SameReq, SameRsp, Awaiting
<1>11. JoinedBack(ch2, r)
  <2> SUFFICES ASSUME NEW x \in Host, NEW e \in DOMAIN ch[x], ~Waits(ch, x, e)
               PROVE  Back(ch2, r, x, e)
    BY <1>2 DEF JoinedBack
  <2>1. Back(ch, q, x, e)
    BY DEF Handshake, JoinedBack
  <2>2. Peer(x) \in Host /\ ch[x][e].peer \in DOMAIN ch[Peer(x)]
    BY <2>1, HostFacts DEF Joined, Back
  <2> QED BY <2>1, <2>2, <1>3 DEF SameRsp, Back
<1>12. HalvesDone(ch2, r)
  <2> SUFFICES ASSUME NEW x \in Host, NEW e \in DOMAIN ch[x], ~Waits(ch, x, e)
               PROVE  Half(ch2, r, x, e)
    BY <1>2 DEF HalvesDone
  <2>1. Half(ch, q, x, e)
    BY DEF Handshake, HalvesDone
  <2>2. ASSUME ~ch2[x][e].localDone, NEW i \in Nat, Ack(q, Peer(x), i, e) PROVE Ack(r, Peer(x), i, e)
    <3>1. CASE Peer(x) = h /\ i = 1
      <4>1. e = c /\ x = g
        BY <3>1, <2>2, <1>1 DEF Ack
      <4> QED BY <4>1, <2>2
    <3> QED BY <1>0, <2>2, <3>1
  <2> QED BY <1>0, <2>1, <2>2, <1>2 DEF Half, SameCfg
<1> QED BY <1>6, <1>7, <1>8, <1>9, <1>10, <1>11, <1>12 DEF Handshake

\* What is known of a request when it is answered.
LEMMA AskedOf ==
  ASSUME NEW ch, NEW q, NEW h \in Host, NEW g, g = Peer(h),
         NEW c \in 0 .. MaxCid, NEW m \in Psms, Handshake(ch, q), Req(q, h, 1, c, m)
  PROVE  /\ Waits(ch, h, c) /\ ch[h][c].psm = m /\ Unjoined(ch, g, c)
         /\ \A j \in Nat, b \in Psms : Req(q, h, j, c, b) => j = 1
         /\ \A j \in Nat, b \in 0 .. MaxCid : ~Rsp(q, g, j, c, b)
BY DEF Handshake, AsksOnce, Alone

\* A request is accepted: a channel for it, the answer, and the configuration request.
LEMMA Requested ==
  ASSUME NEW ch \in [Host -> Chans], NEW ch2 \in [Host -> Chans], NEW q, NEW r,
         NEW h \in Host, NEW g \in Host, g = Peer(h), h = Peer(g), g # h,
         NEW c \in Cid, NEW m \in Psms, NEW d \in Cid, NEW n \in Nat,
         Handshake(ch, q), Req(q, h, 1, c, m),
         LoseReq(q, r, h), GainRsp(q, r, g, n, c, d), GainCfg(q, r, g, n + 1, c), SameAck(q, r),
         Adds(ch, ch2, g, d),
         ch2[g][d].psm = m, ch2[g][d].peer = c, ch2[g][d].state = "WaitConfig",
         ~ch2[g][d].localDone, ~ch2[g][d].remoteDone
  PROVE  Handshake(ch2, r)
<1> USE DEF LoseReq, GainRsp, GainCfg, Adds
<1>0. \A x \in Host : Peer(x) \in Host
  BY HostFacts
<1>1. \A x \in Host : x = h \/ x = g
  BY HostFacts
<1>2. \A x \in Host : \A e : Waits(ch2, x, e) <=> Waits(ch, x, e)
  BY <1>1 DEF Waits
<1>3. c \in 0 .. MaxCid /\ d \in 0 .. MaxCid /\ c # 0 /\ d # 0
  BY HostFacts
<1>4. /\ Waits(ch, h, c) /\ ch[h][c].psm = m /\ Unjoined(ch, g, c)
      /\ \A j \in Nat, b \in Psms : Req(q, h, j, c, b) => j = 1
      /\ \A j \in Nat, b \in 0 .. MaxCid : ~Rsp(q, g, j, c, b)
  BY <1>3, AskedOf
<1>n. n + 1 \in Nat /\ n < n + 1
  OBVIOUS
<1>r. Rsp(r, g, n, c, d) /\ Cfg(r, g, n + 1, c)
  BY Zenon
<1>s. \A i \in Nat, b \in 0 .. MaxCid : Rsp(r, g, i, c, b) => i = n
  BY <1>4, Zenon
<1>5. \A x \in Host : \A e, b : Joined(ch, x, e, b) => Joined(ch2, x, e, b)
  <2> SUFFICES ASSUME NEW x \in Host, NEW e, NEW b, Joined(ch, x, e, b) PROVE Joined(ch2, x, e, b)
    OBVIOUS
  <2>1. CASE x = h
    BY <2>1 DEF Joined
  <2>2. CASE x = g
    BY <2>2 DEF Joined
  <2> QED BY <1>1, <2>1, <2>2
<1>6. Joined(ch2, g, d, c)
  BY <1>4 DEF Joined, Waits
<1>7. \A x \in Host : \A e : Unjoined(ch, x, e) /\ ~(x = g /\ e = c) => Unjoined(ch2, x, e)
  BY <1>1 DEF Unjoined
<1>8. AsksOnce(ch2, r)
  <2> SUFFICES ASSUME NEW x \in Host, NEW i \in Nat, NEW e \in 0 .. MaxCid, NEW b \in Psms, Req(r, x, i, e, b)
               PROVE  Alone(ch2, r, x, i, e, b)
    BY DEF AsksOnce
  <2>1. Req(q, x, i, e, b) /\ ~(x = h /\ i = 1)
    OBVIOUS
  <2>2. Alone(ch, q, x, i, e, b)
    BY <2>1 DEF Handshake, AsksOnce
  <2>3. ~(x = h /\ e = c)
    BY <2>1, <1>4
  <2>4. ch2[x][e].psm = ch[x][e].psm
    BY <2>2, <1>1 DEF Alone, Waits
  <2>5. Peer(x) = g => x = h
    BY <1>1
  <2> QED BY <2>2, <2>3, <2>4, <2>5, <1>0, <1>2, <1>7 DEF Alone
<1>9. AnswersOnce(ch2, r)
  <2> SUFFICES ASSUME NEW x \in Host, NEW i \in Nat, NEW e \in 0 .. MaxCid, NEW b \in 0 .. MaxCid, Rsp(r, x, i, e, b)
               PROVE  Answering(ch2, r, x, i, e, b)
    BY DEF AnswersOnce
  <2>1. CASE Rsp(q, x, i, e, b)
    <3>1. Answering(ch, q, x, i, e, b)
      BY <2>1 DEF Handshake, AnswersOnce
    <3>2. ~(x = g /\ e = c)
      BY <2>1, <1>4
    <3> QED BY <3>1, <3>2, <1>0, <1>2, <1>5, <1>7 DEF Answering
  <2>2. CASE x = g /\ i = n /\ e = c /\ b = d
    <3>1. Waits(ch2, Peer(x), e)
      BY <2>2, <1>2, <1>4
    <3>2. \A j \in Nat, f \in 0 .. MaxCid : Rsp(r, x, j, e, f) => j = i
      BY <2>2, <1>s
    <3>3. i < n + 1 /\ n + 1 \in Nat /\ Cfg(r, x, n + 1, e)
      BY <2>2, <1>n, <1>r, Zenon
    <3> QED BY <2>2, <3>1, <3>2, <3>3, <1>3, <1>6 DEF Answering
  <2> QED BY <2>1, <2>2
<1>10. ConfiguresJoined(ch2, r)
  <2> SUFFICES ASSUME NEW x \in Host, NEW i \in Nat, NEW e \in 0 .. MaxCid, Cfg(r, x, i, e)
               PROVE  Configuring(ch2, r, x, i, e)
    BY DEF ConfiguresJoined
  <2>1. CASE Cfg(q, x, i, e)
    <3>1. Configuring(ch, q, x, i, e)
      BY <2>1 DEF Handshake, ConfiguresJoined
    <3> QED BY <3>1, <1>0, <1>2, <1>5 DEF Configuring
  <2>2. CASE x = g /\ i = n + 1 /\ e = c
    <3>1. n < i /\ Rsp(r, x, n, e, d)
      BY <2>2, <1>n, <1>r, Zenon
    <3> QED BY <2>2, <3>1, <1>3, <1>6 DEF Configuring
  <2> QED BY <2>1, <2>2
<1>11. AcceptsJoined(ch2, r)
  BY <1>0, <1>1, <1>2 DEF Handshake, AcceptsJoined, SameAck
<1>12. WaitsAnswered(ch2, r)
  <2> SUFFICES ASSUME NEW x \in Host, NEW e \in DOMAIN ch2[x], Waits(ch, x, e)
               PROVE  Awaiting(ch2, r, x, e)
    BY <1>2 DEF WaitsAnswered
  <2>1. Awaiting(ch, q, x, e) /\ e \in DOMAIN ch[x] /\ ch2[x][e] = ch[x][e]
    BY <1>1 DEF Handshake, WaitsAnswered, Waits
  <2>2. e \in 0 .. MaxCid
    BY <2>1, ChansType
  <2>3. ASSUME NEW i \in Nat, Req(q, x, i, e, ch[x][e].psm)
        PROVE  Req(r, x, i, e, ch[x][e].psm) \/ Rsp(r, Peer(x), n, e, d)
    <3>1. CASE x = h /\ i = 1
      <4>1. e = c
        BY <2>3, <3>1 DEF Req
      <4> QED BY <4>1, <3>1
    <3> QED BY <2>3, <3>1
  <2> QED BY <1>0, <1>3, <2>1, <2>3 DEF Awaiting
<1>13. JoinedBack(ch2, r)
  <2> SUFFICES ASSUME NEW x \in Host, NEW e \in DOMAIN ch2[x], ~Waits(ch, x, e)
               PROVE  Back(ch2, r, x, e)
    BY <1>2 DEF JoinedBack
  <2>1. CASE x = g /\ e = d
    BY <2>1, <1>6 DEF Back
  <2>2. CASE ~(x = g /\ e = d)
    <3>1. e \in DOMAIN ch[x] /\ ch2[x][e] = ch[x][e]
      BY <2>2, <1>1
    <3>2. Back(ch, q, x, e)
      BY <3>1 DEF Handshake, JoinedBack
    <3>3. Joined(ch, x, e, ch[x][e].peer) /\ Joined(ch2, x, e, ch[x][e].peer)
      BY <3>2, <1>5 DEF Back
    <3>4. ch2[Peer(x)][ch[x][e].peer] = ch[Peer(x)][ch[x][e].peer]
      BY <3>3, <1>0, <1>1 DEF Joined
    <3> QED BY <3>1, <3>2, <3>3, <3>4 DEF Back
  <2> QED BY <2>1, <2>2
<1>14. HalvesDone(ch2, r)
  <2> SUFFICES ASSUME NEW x \in Host, NEW e \in DOMAIN ch2[x], ~Waits(ch, x, e)
               PROVE  Half(ch2, r, x, e)
    BY <1>2 DEF HalvesDone
  <2>1. CASE x = g /\ e = d
    <3>1. Waits(ch2, Peer(x), ch2[x][e].peer)
      <4>1. Waits(ch2, h, c)
        BY <1>2, <1>4, Zenon
      <4> QED BY <2>1, <4>1, Zenon
    <3>2. n + 1 \in Nat /\ Cfg(r, x, n + 1, ch2[x][e].peer)
      BY <2>1, <1>n, <1>r, Zenon
    <3> QED BY <2>1, <3>1, <3>2 DEF Half
  <2>2. CASE ~(x = g /\ e = d)
    <3>1. e \in DOMAIN ch[x] /\ ch2[x][e] = ch[x][e]
      BY <2>2, <1>1
    <3>2. Half(ch, q, x, e)
      BY <3>1 DEF Handshake, HalvesDone
    <3> QED BY <3>1, <3>2, <1>0, <1>2 DEF Half, SameAck
  <2> QED BY <2>1, <2>2
<1> QED BY <1>8, <1>9, <1>10, <1>11, <1>12, <1>13, <1>14 DEF Handshake

\* A request for a PSM that no profile serves is refused.
LEMMA Refused ==
  ASSUME NEW ch \in [Host -> Chans], NEW q, NEW r,
         NEW h \in Host, NEW g \in Host, g = Peer(h), h = Peer(g), g # h,
         NEW c \in 0 .. MaxCid, NEW m \in Psms, NEW n \in Nat,
         Handshake(ch, q), Req(q, h, 1, c, m),
         LoseReq(q, r, h), GainRsp(q, r, g, n, c, 0), SameCfg(q, r), SameAck(q, r)
  PROVE  Handshake(ch, r)
<1> USE DEF LoseReq, GainRsp
<1>0. \A x \in Host : Peer(x) \in Host
  BY HostFacts
<1>1. \A x \in Host : x = h \/ x = g
  BY HostFacts
<1>2. /\ Waits(ch, h, c) /\ Unjoined(ch, g, c)
      /\ \A j \in Nat, b \in Psms : Req(q, h, j, c, b) => j = 1
      /\ \A j \in Nat, b \in 0 .. MaxCid : ~Rsp(q, g, j, c, b)
  BY AskedOf
<1>3. Rsp(r, g, n, c, 0) /\ 0 \in 0 .. MaxCid
  BY HostFacts
<1>4. \A i \in Nat, b \in 0 .. MaxCid : Rsp(r, g, i, c, b) => i = n
  BY <1>2, Zenon
<1>5. AsksOnce(ch, r)
  <2> SUFFICES ASSUME NEW x \in Host, NEW i \in Nat, NEW e \in 0 .. MaxCid, NEW b \in Psms, Req(r, x, i, e, b)
               PROVE  Alone(ch, r, x, i, e, b)
    BY DEF AsksOnce
  <2>1. Req(q, x, i, e, b) /\ ~(x = h /\ i = 1)
    OBVIOUS
  <2>2. Alone(ch, q, x, i, e, b)
    BY <2>1 DEF Handshake, AsksOnce
  <2>3. ~(x = h /\ e = c)
    BY <2>1, <1>2
  <2>4. Peer(x) = g => x = h
    BY <1>1
  <2> QED BY <2>2, <2>3, <2>4, <1>0 DEF Alone
<1>6. AnswersOnce(ch, r)
  <2> SUFFICES ASSUME NEW x \in Host, NEW i \in Nat, NEW e \in 0 .. MaxCid, NEW b \in 0 .. MaxCid, Rsp(r, x, i, e, b)
               PROVE  Answering(ch, r, x, i, e, b)
    BY DEF AnswersOnce
  <2>1. CASE Rsp(q, x, i, e, b)
    <3>1. Answering(ch, q, x, i, e, b)
      BY <2>1 DEF Handshake, AnswersOnce
    <3>2. ~(x = g /\ e = c)
      BY <2>1, <1>2
    <3> QED BY <3>1, <3>2 DEF Answering, SameCfg
  <2>2. CASE x = g /\ i = n /\ e = c /\ b = 0
    BY <2>2, <1>2, <1>4 DEF Answering
  <2> QED BY <2>1, <2>2
<1>7. ConfiguresJoined(ch, r)
  BY DEF Handshake, ConfiguresJoined, Configuring, SameCfg
<1>8. AcceptsJoined(ch, r)
  BY DEF Handshake, AcceptsJoined, SameAck
<1>9. WaitsAnswered(ch, r)
  <2> SUFFICES ASSUME NEW x \in Host, NEW e \in DOMAIN ch[x], Waits(ch, x, e)
               PROVE  Awaiting(ch, r, x, e)
    BY DEF WaitsAnswered
  <2>1. Awaiting(ch, q, x, e)
    BY DEF Handshake, WaitsAnswered
  <2>2. ASSUME NEW i \in Nat, Req(q, x, i, e, ch[x][e].psm)
        PROVE  Req(r, x, i, e, ch[x][e].psm) \/ Rsp(r, Peer(x), n, e, 0)
    <3>1. CASE x = h /\ i = 1
      <4>1. e = c
        BY <2>2, <3>1 DEF Req
      <4> QED BY <4>1, <3>1, <1>3
    <3> QED BY <2>2, <3>1
  <2> QED BY <1>0, <1>3, <2>1, <2>2 DEF Awaiting
<1>10. JoinedBack(ch, r)
  BY DEF Handshake, JoinedBack, Back
<1>11. HalvesDone(ch, r)
  BY <1>0 DEF Handshake, HalvesDone, Half, SameCfg, SameAck
<1> QED BY <1>5, <1>6, <1>7, <1>8, <1>9, <1>10, <1>11 DEF Handshake

\* A request that finds no identifier free is dropped.
LEMMA Dropped ==
  ASSUME NEW ch \in [Host -> Chans], NEW q, NEW r, NEW h \in Host, ~Roomy,
         Handshake(ch, q), LoseReq(q, r, h), SameRsp(q, r), SameCfg(q, r), SameAck(q, r)
  PROVE  Handshake(ch, r)
<1> USE DEF LoseReq
<1>0. \A x \in Host : Peer(x) \in Host
  BY HostFacts
<1>1. AsksOnce(ch, r)
  BY <1>0 DEF Handshake, AsksOnce, Alone, SameRsp
<1>2. AnswersOnce(ch, r)
  BY <1>0 DEF Handshake, AnswersOnce, Answering, SameRsp, SameCfg
<1>3. ConfiguresJoined(ch, r)
  BY <1>0 DEF Handshake, ConfiguresJoined, Configuring, SameRsp, SameCfg
<1>4. AcceptsJoined(ch, r)
  BY DEF Handshake, AcceptsJoined, SameAck
<1>5. WaitsAnswered(ch, r)
  BY <1>0 DEF Handshake, WaitsAnswered, Awaiting
<1>6. JoinedBack(ch, r)
  BY DEF Handshake, JoinedBack, Back, SameRsp
<1>7. HalvesDone(ch, r)
  BY <1>0 DEF Handshake, HalvesDone, Half, SameCfg, SameAck
<1> QED BY <1>1, <1>2, <1>3, <1>4, <1>5, <1>6, <1>7 DEF Handshake

\* A channel is opened and asked for.
LEMMA Opened ==
  ASSUME NEW ch \in [Host -> Chans], NEW ch2 \in [Host -> Chans], NEW q, NEW r,
         NEW h \in Host, NEW g \in Host, g = Peer(h), h = Peer(g), g # h,
         NEW c \in Cid, NEW m \in Psms, NEW n \in Nat, Handshake(ch, q),
         GainReq(q, r, h, n, c, m), SameRsp(q, r), SameCfg(q, r), SameAck(q, r),
         Adds(ch, ch2, h, c),
         ch2[h][c].psm = m, ch2[h][c].peer = 0, ch2[h][c].state = "WaitConnectRsp",
         ~ch2[h][c].localDone, ~ch2[h][c].remoteDone
  PROVE  Handshake(ch2, r)
<1> USE DEF GainReq, Adds
<1>0. \A x \in Host : Peer(x) \in Host
  BY HostFacts
<1>1. \A x \in Host : x = h \/ x = g
  BY HostFacts
<1>2. \A x \in Host : \A e : Waits(ch2, x, e) <=> Waits(ch, x, e) \/ (x = h /\ e = c)
  BY <1>1 DEF Waits
<1>3. c \in 0 .. MaxCid /\ c # 0
  BY HostFacts
<1>4. \A x \in Host : \A e \in DOMAIN ch[x] : e \in DOMAIN ch2[x] /\ ch2[x][e] = ch[x][e]
  BY <1>1
<1>5. \A x \in Host : \A e, b : Joined(ch, x, e, b) => Joined(ch2, x, e, b)
  BY <1>0, <1>4 DEF Joined
<1>6. \A x \in Host : \A e : Unjoined(ch, x, e) /\ e # 0 => Unjoined(ch2, x, e)
  BY <1>1 DEF Unjoined
<1>7. \A j \in Nat, b \in Psms : ~Req(q, h, j, c, b)
  BY <1>3 DEF Handshake, AsksOnce, Alone, Waits
<1>8. \A j \in Nat, b \in 0 .. MaxCid : ~Rsp(q, g, j, c, b)
  BY <1>3 DEF Handshake, AnswersOnce, Answering, Waits
<1>9. Unjoined(ch, g, c)
  <2> SUFFICES ASSUME NEW e \in DOMAIN ch[g], ch[g][e].peer = c PROVE FALSE
    BY DEF Unjoined
  <2>1. CASE Waits(ch, g, e)
    BY <2>1, <1>3 DEF Handshake, WaitsAnswered, Awaiting
  <2>2. CASE ~Waits(ch, g, e)
    <3>1. Joined(ch, g, e, c)
      BY <2>2 DEF Handshake, JoinedBack, Back
    <3> QED BY <3>1 DEF Joined
  <2> QED BY <2>1, <2>2
<1>10. Req(r, h, n, c, m)
  BY Zenon
<1>11. \A x \in Host : \A e \in DOMAIN ch[x] : e # 0 /\ e \in 0 .. MaxCid
  BY ChansType
<1>12. AsksOnce(ch2, r)
  <2> SUFFICES ASSUME NEW x \in Host, NEW i \in Nat, NEW e \in 0 .. MaxCid, NEW b \in Psms, Req(r, x, i, e, b)
               PROVE  Alone(ch2, r, x, i, e, b)
    BY DEF AsksOnce
  <2>1. CASE Req(q, x, i, e, b)
    <3>1. Alone(ch, q, x, i, e, b)
      BY <2>1 DEF Handshake, AsksOnce
    <3>2. ~(x = h /\ e = c)
      BY <2>1, <1>7
    <3>3. e \in DOMAIN ch[x] /\ e # 0
      BY <3>1, <1>11 DEF Alone, Waits
    <3> QED BY <3>1, <3>2, <3>3, <1>0, <1>2, <1>4, <1>6 DEF Alone, SameRsp
  <2>2. CASE x = h /\ i = n /\ e = c /\ b = m
    <3>1. \A j \in Nat, f \in Psms : Req(r, x, j, e, f) => j = i
      BY <2>2, <1>7, Zenon
    <3>2. Waits(ch2, x, e) /\ ch2[x][e].psm = b /\ Unjoined(ch2, Peer(x), e)
      BY <2>2, <1>2, <1>3, <1>6, <1>9
    <3>3. \A j \in Nat, d \in 0 .. MaxCid : ~Rsp(r, Peer(x), j, e, d)
      BY <2>2, <1>8 DEF SameRsp
    <3> QED BY <3>1, <3>2, <3>3 DEF Alone
  <2> QED BY <2>1, <2>2
<1>13. AnswersOnce(ch2, r)
  <2> SUFFICES ASSUME NEW x \in Host, NEW i \in Nat, NEW e \in 0 .. MaxCid, NEW b \in 0 .. MaxCid, Rsp(q, x, i, e, b)
               PROVE  Answering(ch2, r, x, i, e, b)
    BY DEF AnswersOnce, SameRsp
  <2>1. Answering(ch, q, x, i, e, b)
    BY DEF Handshake, AnswersOnce
  <2>2. e # 0
    BY <2>1, <1>0, <1>11 DEF Answering, Waits
  <2> QED BY <2>1, <2>2, <1>0, <1>2, <1>5, <1>6 DEF Answering, SameRsp, SameCfg
<1>14. ConfiguresJoined(ch2, r)
  <2> SUFFICES ASSUME NEW x \in Host, NEW i \in Nat, NEW e \in 0 .. MaxCid, Cfg(q, x, i, e)
               PROVE  Configuring(ch2, r, x, i, e)
    BY DEF ConfiguresJoined, SameCfg
  <2>1. Configuring(ch, q, x, i, e)
    BY DEF Handshake, ConfiguresJoined
  <2>2. ~(Peer(x) = h /\ e = c)
    BY <2>1, <1>1 DEF Configuring, Joined
  <2> QED BY <2>1, <2>2, <1>0, <1>2, <1>5 DEF Configuring, SameRsp
<1>15. AcceptsJoined(ch2, r)
  <2> SUFFICES ASSUME NEW x \in Host, NEW i \in Nat, NEW e \in 0 .. MaxCid, Ack(q, x, i, e)
               PROVE  e \in DOMAIN ch2[Peer(x)] /\ ~Waits(ch2, Peer(x), e)
    BY DEF AcceptsJoined, SameAck
  <2>1. e \in DOMAIN ch[Peer(x)] /\ ~Waits(ch, Peer(x), e)
    BY DEF Handshake, AcceptsJoined
  <2> QED BY <2>1, <1>0, <1>2, <1>4
<1>16. WaitsAnswered(ch2, r)
  <2> SUFFICES ASSUME NEW x \in Host, NEW e \in DOMAIN ch2[x], Waits(ch2, x, e)
               PROVE  Awaiting(ch2, r, x, e)
    BY DEF WaitsAnswered
  <2>1. CASE x = h /\ e = c
    BY <2>1, <1>10 DEF Awaiting
  <2>2. CASE Waits(ch, x, e)
    <3>1. Awaiting(ch, q, x, e) /\ ch2[x][e] = ch[x][e]
      BY <2>2, <1>4 DEF Handshake, WaitsAnswered, Waits
    <3> QED BY <1>0, <3>1 DEF Awaiting, SameRsp
  <2> QED BY <2>1, <2>2, <1>2
<1>17. JoinedBack(ch2, r)
  <2> SUFFICES ASSUME NEW x \in Host, NEW e \in DOMAIN ch2[x], ~Waits(ch2, x, e)
               PROVE  Back(ch2, r, x, e)
    BY DEF JoinedBack
  <2>1. e \in DOMAIN ch[x] /\ ch2[x][e] = ch[x][e] /\ ~Waits(ch, x, e)
    BY <1>1, <1>2
  <2>2. Back(ch, q, x, e)
    BY <2>1 DEF Handshake, JoinedBack
  <2>3. Joined(ch, x, e, ch[x][e].peer) /\ Joined(ch2, x, e, ch[x][e].peer)
    BY <2>2, <1>5 DEF Back
  <2>4. ch2[Peer(x)][ch[x][e].peer] = ch[Peer(x)][ch[x][e].peer]
    BY <2>3, <1>0, <1>4 DEF Joined
  <2> QED BY <2>1, <2>2, <2>3, <2>4 DEF Back, SameRsp
<1>18. HalvesDone(ch2, r)
  <2> SUFFICES ASSUME NEW x \in Host, NEW e \in DOMAIN ch2[x], ~Waits(ch2, x, e)
               PROVE  Half(ch2, r, x, e)
    BY DEF HalvesDone
  <2>1. e \in DOMAIN ch[x] /\ ch2[x][e] = ch[x][e] /\ ~Waits(ch, x, e)
    BY <1>1, <1>2
  <2>2. Half(ch, q, x, e)
    BY <2>1 DEF Handshake, HalvesDone
  <2> QED BY <2>1, <2>2, <1>0, <1>2 DEF Half, SameCfg, SameAck
<1> QED BY <1>12, <1>13, <1>14, <1>15, <1>16, <1>17, <1>18 DEF Handshake

\* What is known of an answer when it arrives.
LEMMA AnswerOf ==
  ASSUME NEW ch, NEW q, NEW h \in Host, NEW g \in Host, g = Peer(h), h = Peer(g),
         NEW c \in 0 .. MaxCid, NEW d \in 0 .. MaxCid, Handshake(ch, q), Rsp(q, h, 1, c, d)
  PROVE  /\ Waits(ch, g, c) /\ ch[g][c].peer = 0 /\ ~ch[g][c].localDone /\ ~ch[g][c].remoteDone
         /\ \A j \in Nat, e \in 0 .. MaxCid : Rsp(q, h, j, c, e) => j = 1 /\ e = d
         /\ \A j \in Nat, m \in Psms : ~Req(q, g, j, c, m)
         /\ d = 0 => Unjoined(ch, h, c)
         /\ d # 0 => Joined(ch, h, d, c) /\ \E j \in Nat : 1 < j /\ Cfg(q, h, j, c)
<1>1. Answering(ch, q, h, 1, c, d)
  BY DEF Handshake, AnswersOnce
<1>2. c \in DOMAIN ch[g] /\ Awaiting(ch, q, g, c)
  BY <1>1 DEF Handshake, WaitsAnswered, Answering, Waits
<1>3. ASSUME NEW j \in Nat, NEW e \in 0 .. MaxCid, Rsp(q, h, j, c, e) PROVE j = 1 /\ e = d
  <2>1. j = 1
    BY <1>1, <1>3 DEF Answering
  <2> QED BY <2>1, <1>3 DEF Rsp
<1>4. ASSUME NEW j \in Nat, NEW m \in Psms, Req(q, g, j, c, m) PROVE FALSE
  <2>1. Alone(ch, q, g, j, c, m)
    BY <1>4 DEF Handshake, AsksOnce
  <2> QED BY <2>1 DEF Alone
<1> QED BY <1>1, <1>2, <1>3, <1>4 DEF Answering, Awaiting

\* The answer accepts: the channel is joined to the peer's, and asks for its configuration.
LEMMA Answered ==
  ASSUME NEW ch \in [Host -> Chans], NEW ch2 \in [Host -> Chans], NEW q, NEW r,
         NEW h \in Host, NEW g \in Host, g = Peer(h), h = Peer(g), g # h,
         NEW c \in 0 .. MaxCid, NEW d \in Cid, NEW n \in Nat,
         Handshake(ch, q), Rsp(q, h, 1, c, d),
         SameReq(q, r), LoseRsp(q, r, h), GainCfg(q, r, g, n, d), SameAck(q, r),
         Alters(ch, ch2, g, c), ch2[g][c].peer = d, ch2[g][c].state = "WaitConfig",
         ch2[g][c].localDone = ch[g][c].localDone, ch2[g][c].remoteDone = ch[g][c].remoteDone
  PROVE  Handshake(ch2, r)
<1> USE DEF LoseRsp, GainCfg
<1>a. \A x \in Host : DOMAIN ch2[x] = DOMAIN ch[x]
  BY DEF Alters
<1>b. \A x \in Host : \A e \in DOMAIN ch[x] :
        /\ ch2[x][e].psm = ch[x][e].psm
        /\ ch2[x][e].localDone = ch[x][e].localDone /\ ch2[x][e].remoteDone = ch[x][e].remoteDone
        /\ x # g \/ e # c => ch2[x][e] = ch[x][e]
  BY DEF Alters
<1> USE <1>a, <1>b
<1>0. \A x \in Host : Peer(x) \in Host
  BY HostFacts
<1>1. \A x \in Host : x = h \/ x = g
  BY HostFacts
<1>2. \A x \in Host : \A e : Waits(ch2, x, e) <=> Waits(ch, x, e) /\ ~(x = g /\ e = c)
  BY DEF Waits
<1>3. d \in 0 .. MaxCid /\ d # 0
  BY HostFacts
<1>4. /\ Waits(ch, g, c) /\ c \in DOMAIN ch[g] /\ ch[g][c].peer = 0
      /\ ~ch[g][c].localDone /\ ~ch[g][c].remoteDone
      /\ \A j \in Nat, e \in 0 .. MaxCid : Rsp(q, h, j, c, e) => j = 1 /\ e = d
      /\ \A j \in Nat, m \in Psms : ~Req(q, g, j, c, m)
      /\ Joined(ch, h, d, c) /\ \E j \in Nat : 1 < j /\ Cfg(q, h, j, c)
  BY <1>3, AnswerOf DEF Waits
<1>5. d \in DOMAIN ch[h] /\ ~Waits(ch, h, d) /\ ch[h][d].peer = c
  BY <1>4 DEF Joined, Waits
<1>6. \A x \in Host : \A e, b : Joined(ch, x, e, b) => Joined(ch2, x, e, b)
  BY <1>0, <1>4 DEF Joined, Waits
<1>7. Joined(ch2, g, c, d)
  BY <1>4 DEF Joined
<1>8. \A x \in Host : \A e : Unjoined(ch, x, e) /\ ~(x = g /\ e = d) => Unjoined(ch2, x, e)
  BY <1>4 DEF Unjoined
<1>9. Cfg(r, g, n, d)
  BY Zenon
<1>10. \A x \in Host : \A e \in DOMAIN ch[x] : e # 0 /\ e \in 0 .. MaxCid
  BY ChansType
<1>11. AsksOnce(ch2, r)
  <2> SUFFICES ASSUME NEW x \in Host, NEW i \in Nat, NEW e \in 0 .. MaxCid, NEW b \in Psms, Req(q, x, i, e, b)
               PROVE  Alone(ch2, r, x, i, e, b)
    BY DEF AsksOnce, SameReq
  <2>1. Alone(ch, q, x, i, e, b)
    BY DEF Handshake, AsksOnce
  <2>2. ~(x = g /\ e = c)
    BY <1>4
  <2>3. ~(Peer(x) = g /\ e = d)
    BY <2>1, <1>1, <1>5 DEF Alone
  <2>4. e \in DOMAIN ch[x]
    BY <2>1 DEF Alone, Waits
  <2> QED BY <2>1, <2>2, <2>3, <2>4, <1>0, <1>2, <1>8 DEF Alone, SameReq
<1>12. AnswersOnce(ch2, r)
  <2> SUFFICES ASSUME NEW x \in Host, NEW i \in Nat, NEW e \in 0 .. MaxCid, NEW b \in 0 .. MaxCid, Rsp(r, x, i, e, b)
               PROVE  Answering(ch2, r, x, i, e, b)
    BY DEF AnswersOnce
  <2>1. Rsp(q, x, i, e, b) /\ ~(x = h /\ i = 1)
    OBVIOUS
  <2>2. Answering(ch, q, x, i, e, b)
    BY <2>1 DEF Handshake, AnswersOnce
  <2>3. ~(Peer(x) = g /\ e = c)
    BY <2>1, <1>1, <1>4
  <2>4. ~(x = g /\ e = d)
    BY <2>2, <1>5 DEF Answering
  <2> QED BY <2>2, <2>3, <2>4, <1>0, <1>2, <1>6, <1>8 DEF Answering
<1>13. ConfiguresJoined(ch2, r)
  <2> SUFFICES ASSUME NEW x \in Host, NEW i \in Nat, NEW e \in 0 .. MaxCid, Cfg(r, x, i, e)
               PROVE  Configuring(ch2, r, x, i, e)
    BY DEF ConfiguresJoined
  <2>1. CASE Cfg(q, x, i, e)
    <3>1. Configuring(ch, q, x, i, e)
      BY <2>1 DEF Handshake, ConfiguresJoined
    <3>2. ASSUME Waits(ch2, Peer(x), e), NEW j \in Nat, NEW b \in 0 .. MaxCid, Rsp(q, x, j, e, b)
          PROVE  Rsp(r, x, j, e, b)
      <4>1. CASE x = h /\ j = 1
        <5>1. e = c
          BY <3>2, <4>1 DEF Rsp
        <5> QED BY <5>1, <4>1, <3>2, <1>2
      <4> QED BY <3>2, <4>1
    <3> QED BY <3>1, <3>2, <1>0, <1>2, <1>6 DEF Configuring
  <2>2. CASE x = g /\ i = n /\ e = d
    <3>1. ~Waits(ch2, Peer(x), e) /\ Joined(ch2, x, c, e) /\ c \in Cid
      BY <2>2, <1>2, <1>4, <1>5, <1>7, ChansType
    <3> QED BY <3>1 DEF Configuring
  <2> QED BY <2>1, <2>2
<1>14. AcceptsJoined(ch2, r)
  BY <1>0, <1>2 DEF Handshake, AcceptsJoined, SameAck
<1>15. WaitsAnswered(ch2, r)
  <2> SUFFICES ASSUME NEW x \in Host, NEW e \in DOMAIN ch[x], Waits(ch, x, e), ~(x = g /\ e = c)
               PROVE  Awaiting(ch2, r, x, e)
    BY <1>2 DEF WaitsAnswered
  <2>1. Awaiting(ch, q, x, e) /\ ch2[x][e] = ch[x][e]
    BY DEF Handshake, WaitsAnswered
  <2>2. ASSUME NEW i \in Nat, NEW b \in 0 .. MaxCid, Rsp(q, Peer(x), i, e, b)
        PROVE  Rsp(r, Peer(x), i, e, b)
    <3>1. CASE Peer(x) = h /\ i = 1
      <4>1. e = c /\ x = g
        BY <2>2, <3>1, <1>1 DEF Rsp
      <4> QED BY <4>1
    <3> QED BY <1>0, <2>2, <3>1
  <2> QED BY <2>1, <2>2 DEF Awaiting, SameReq
<1>16. ASSUME NEW e \in DOMAIN ch[h], ~Waits(ch, h, e), ch[h][e].peer = c
       PROVE  e = d
  <2>1. Back(ch, q, h, e)
    BY <1>16 DEF Handshake, JoinedBack
  <2>2. e # 0 /\ e \in 0 .. MaxCid
    BY <1>10
  <2>3. \E i \in Nat : Rsp(q, h, i, c, e)
    BY <2>1, <2>2, <1>4, <1>16 DEF Back
  <2> QED BY <2>2, <2>3, <1>4
<1>17. JoinedBack(ch2, r)
  <2> SUFFICES ASSUME NEW x \in Host, NEW e \in DOMAIN ch[x], ~Waits(ch2, x, e)
               PROVE  Back(ch2, r, x, e)
    BY DEF JoinedBack
  <2>1. CASE x = g /\ e = c
    <3>1. ch2[h][d].peer = c
      BY <1>5
    <3> QED BY <2>1, <3>1, <1>7 DEF Back
  <2>2. CASE x = h /\ e = d
    <3>1. Joined(ch2, h, d, c) /\ ch2[h][d].peer = c
      BY <1>4, <1>5, <1>6
    <3> QED BY <2>2, <3>1 DEF Back
  <2>3. CASE ~(x = g /\ e = c) /\ ~(x = h /\ e = d)
    <3>1. ~Waits(ch, x, e) /\ ch2[x][e] = ch[x][e]
      BY <2>3, <1>2
    <3>2. Back(ch, q, x, e)
      BY <3>1 DEF Handshake, JoinedBack
    <3>3. Joined(ch, x, e, ch[x][e].peer) /\ Joined(ch2, x, e, ch[x][e].peer)
      BY <3>2, <1>6 DEF Back
    <3>4. ~(Peer(x) = g /\ ch[x][e].peer = c)
      BY <2>3, <3>1, <1>1, <1>16
    <3>5. ch2[Peer(x)][ch[x][e].peer] = ch[Peer(x)][ch[x][e].peer]
      BY <3>3, <3>4, <1>0 DEF Joined
    <3>6. ASSUME NEW i \in Nat, Rsp(q, x, i, ch[x][e].peer, e) PROVE Rsp(r, x, i, ch[x][e].peer, e)
      <4>1. CASE x = h /\ i = 1
        <5>1. e = d
          BY <3>6, <4>1 DEF Rsp
        <5> QED BY <5>1, <4>1, <2>3
      <4> QED BY <3>6, <4>1
    <3> QED BY <3>1, <3>2, <3>3, <3>5, <3>6 DEF Back
  <2> QED BY <2>1, <2>2, <2>3
<1>18. HalvesDone(ch2, r)
  <2> SUFFICES ASSUME NEW x \in Host, NEW e \in DOMAIN ch[x], ~Waits(ch2, x, e)
               PROVE  Half(ch2, r, x, e)
    BY DEF HalvesDone
  <2>1. CASE x = g /\ e = c
    <3>1. \E j \in Nat : Cfg(r, Peer(x), j, e)
      BY <2>1, <1>4
    <3>2. n \in Nat /\ Cfg(r, x, n, ch2[x][e].peer)
      BY <2>1, <1>9, Zenon
    <3>3. ~ch2[x][e].localDone
      <4>1. ch2[g][c].localDone = ch[g][c].localDone
        BY <1>4
      <4> QED BY <4>1, <2>1, <1>4, Zenon
    <3> QED BY <3>1, <3>2, <3>3 DEF Half
  <2>2. CASE ~(x = g /\ e = c)
    <3>1. ~Waits(ch, x, e) /\ ch2[x][e] = ch[x][e]
      BY <2>2, <1>2
    <3>2. Half(ch, q, x, e)
      BY <3>1 DEF Handshake, HalvesDone
    <3>3. ASSUME Waits(ch, Peer(x), ch[x][e].peer)
          PROVE  Waits(ch2, Peer(x), ch[x][e].peer) \/ Cfg(r, Peer(x), n, e)
      <4>1. CASE Peer(x) = g /\ ch[x][e].peer = c
        <5>1. x = h /\ e = d
          BY <4>1, <3>1, <1>1, <1>16
        <5> QED BY <5>1, <4>1, <1>9
      <4> QED BY <1>0, <1>2, <3>3, <4>1
    <3> QED BY <3>1, <3>2, <3>3, <1>0 DEF Half, SameAck
  <2> QED BY <2>1, <2>2
<1> QED BY <1>11, <1>12, <1>13, <1>14, <1>15, <1>17, <1>18 DEF Handshake

\* The answer refuses: the channel is dropped.
LEMMA AnswerRefused ==
  ASSUME NEW ch \in [Host -> Chans], NEW ch2 \in [Host -> Chans], NEW q, NEW r,
         NEW h \in Host, NEW g \in Host, g = Peer(h), h = Peer(g), g # h,
         NEW c \in 0 .. MaxCid, Handshake(ch, q), Rsp(q, h, 1, c, 0),
         SameReq(q, r), LoseRsp(q, r, h), SameCfg(q, r), SameAck(q, r), Drops(ch, ch2, g, c)
  PROVE  Handshake(ch2, r)
<1> USE DEF LoseRsp, Drops
<1>0. \A x \in Host : Peer(x) \in Host
  BY HostFacts
<1>1. \A x \in Host : x = h \/ x = g
  BY HostFacts
<1>2. \A x \in Host : \A e : Waits(ch2, x, e) <=> Waits(ch, x, e) /\ ~(x = g /\ e = c)
  BY <1>1 DEF Waits
<1>3. 0 \in 0 .. MaxCid
  BY HostFacts
<1>4. /\ Waits(ch, g, c) /\ Unjoined(ch, h, c)
      /\ \A j \in Nat, e \in 0 .. MaxCid : Rsp(q, h, j, c, e) => j = 1
      /\ \A j \in Nat, m \in Psms : ~Req(q, g, j, c, m)
  BY <1>3, AnswerOf
<1>5. \A x \in Host : \A e \in DOMAIN ch2[x] :
        e \in DOMAIN ch[x] /\ ch2[x][e] = ch[x][e] /\ ~(x = g /\ e = c)
  BY <1>1
<1>6. \A x \in Host : \A e \in DOMAIN ch[x] : ~(x = g /\ e = c) => e \in DOMAIN ch2[x]
  BY <1>1
<1>7. \A x \in Host : \A e, b : Joined(ch, x, e, b) => ~(x = g /\ e = c) /\ ~(Peer(x) = g /\ b = c)
  BY <1>1, <1>4 DEF Joined, Waits, Unjoined
<1>8. \A x \in Host : \A e, b : Joined(ch, x, e, b) => Joined(ch2, x, e, b)
  BY <1>0, <1>5, <1>6, <1>7 DEF Joined
<1>9. \A x \in Host : \A e : Unjoined(ch, x, e) => Unjoined(ch2, x, e)
  BY <1>5 DEF Unjoined
<1>10. AsksOnce(ch2, r)
  <2> SUFFICES ASSUME NEW x \in Host, NEW i \in Nat, NEW e \in 0 .. MaxCid, NEW b \in Psms, Req(q, x, i, e, b)
               PROVE  Alone(ch2, r, x, i, e, b)
    BY DEF AsksOnce, SameReq
  <2>1. Alone(ch, q, x, i, e, b)
    BY DEF Handshake, AsksOnce
  <2>2. ~(x = g /\ e = c)
    BY <1>4
  <2>3. e \in DOMAIN ch2[x]
    BY <2>1, <2>2, <1>6 DEF Alone, Waits
  <2> QED BY <2>1, <2>2, <2>3, <1>0, <1>2, <1>5, <1>9 DEF Alone, SameReq
<1>11. AnswersOnce(ch2, r)
  <2> SUFFICES ASSUME NEW x \in Host, NEW i \in Nat, NEW e \in 0 .. MaxCid, NEW b \in 0 .. MaxCid, Rsp(r, x, i, e, b)
               PROVE  Answering(ch2, r, x, i, e, b)
    BY DEF AnswersOnce
  <2>1. Rsp(q, x, i, e, b) /\ ~(x = h /\ i = 1)
    OBVIOUS
  <2>2. Answering(ch, q, x, i, e, b)
    BY <2>1 DEF Handshake, AnswersOnce
  <2>3. ~(Peer(x) = g /\ e = c)
    BY <2>1, <1>1, <1>4
  <2> QED BY <2>2, <2>3, <1>0, <1>2, <1>8, <1>9 DEF Answering, SameCfg
<1>12. ConfiguresJoined(ch2, r)
  <2> SUFFICES ASSUME NEW x \in Host, NEW i \in Nat, NEW e \in 0 .. MaxCid, Cfg(q, x, i, e)
               PROVE  Configuring(ch2, r, x, i, e)
    BY DEF ConfiguresJoined, SameCfg
  <2>1. Configuring(ch, q, x, i, e)
    BY DEF Handshake, ConfiguresJoined
  <2>2. ASSUME Waits(ch2, Peer(x), e), NEW j \in Nat, NEW b \in 0 .. MaxCid, Rsp(q, x, j, e, b)
        PROVE  Rsp(r, x, j, e, b)
    <3>1. CASE x = h /\ j = 1
      <4>1. e = c
        BY <2>2, <3>1 DEF Rsp
      <4> QED BY <4>1, <3>1, <2>2, <1>2
    <3> QED BY <2>2, <3>1
  <2> QED BY <2>1, <2>2, <1>0, <1>2, <1>8 DEF Configuring
<1>13. AcceptsJoined(ch2, r)
  BY <1>0, <1>2, <1>4, <1>6 DEF Handshake, AcceptsJoined, SameAck
<1>14. WaitsAnswered(ch2, r)
  <2> SUFFICES ASSUME NEW x \in Host, NEW e \in DOMAIN ch2[x], Waits(ch, x, e), ~(x = g /\ e = c)
               PROVE  Awaiting(ch2, r, x, e)
    BY <1>2 DEF WaitsAnswered
  <2>1. Awaiting(ch, q, x, e) /\ ch2[x][e] = ch[x][e]
    BY <1>5 DEF Handshake, WaitsAnswered
  <2>2. ASSUME NEW i \in Nat, NEW b \in 0 .. MaxCid, Rsp(q, Peer(x), i, e, b)
        PROVE  Rsp(r, Peer(x), i, e, b)
    <3>1. CASE Peer(x) = h /\ i = 1
      <4>1. e = c /\ x = g
        BY <2>2, <3>1, <1>1 DEF Rsp
      <4> QED BY <4>1
    <3> QED BY <1>0, <2>2, <3>1
  <2> QED BY <2>1, <2>2 DEF Awaiting, SameReq
<1>15. JoinedBack(ch2, r)
  <2> SUFFICES ASSUME NEW x \in Host, NEW e \in DOMAIN ch2[x], ~Waits(ch2, x, e)
               PROVE  Back(ch2, r, x, e)
    BY DEF JoinedBack
  <2>1. e \in DOMAIN ch[x] /\ ch2[x][e] = ch[x][e] /\ ~Waits(ch, x, e)
    BY <1>2, <1>5
  <2>2. Back(ch, q, x, e)
    BY <2>1 DEF Handshake, JoinedBack
  <2>3. Joined(ch, x, e, ch[x][e].peer) /\ Joined(ch2, x, e, ch[x][e].peer)
    BY <2>2, <1>8 DEF Back
  <2>4. ~(Peer(x) = g /\ ch[x][e].peer = c) /\ ch2[Peer(x)][ch[x][e].peer] = ch[Peer(x)][ch[x][e].peer]
    BY <2>3, <1>0, <1>5, <1>7 DEF Joined
  <2>5. ASSUME NEW i \in Nat, Rsp(q, x, i, ch[x][e].peer, e) PROVE Rsp(r, x, i, ch[x][e].peer, e)
    <3>1. CASE x = h /\ i = 1
      <4>1. ch[x][e].peer = c
        BY <2>5, <3>1 DEF Rsp
      <4> QED BY <4>1, <3>1, <2>4
    <3> QED BY <2>5, <3>1
  <2> QED BY <2>1, <2>2, <2>3, <2>4, <2>5 DEF Back
<1>16. HalvesDone(ch2, r)
  <2> SUFFICES ASSUME NEW x \in Host, NEW e \in DOMAIN ch2[x], ~Waits(ch2, x, e)
               PROVE  Half(ch2, r, x, e)
    BY DEF HalvesDone
  <2>1. e \in DOMAIN ch[x] /\ ch2[x][e] = ch[x][e] /\ ~Waits(ch, x, e)
    BY <1>2, <1>5
  <2>2. Half(ch, q, x, e) /\ Back(ch, q, x, e)
    BY <2>1 DEF Handshake, HalvesDone, JoinedBack
  <2>3. ~(Peer(x) = g /\ ch[x][e].peer = c)
    BY <2>2, <1>7 DEF Back
  <2> QED BY <2>1, <2>2, <2>3, <1>0, <1>2 DEF Half, SameCfg, SameAck
<1> QED BY <1>10, <1>11, <1>12, <1>13, <1>14, <1>15, <1>16 DEF Handshake

--------------------------------------------------------------------------------
(* Hosts, their channels, and what a poll does to them. *)

\* The fields of a host.
LEMMA HostFields ==
  ASSUME NEW s \in HostSet
  PROVE  /\ s.conn \in Nat /\ s.chan \in Chans /\ s.next \in Cid
         /\ s.announced \subseteq Cid /\ s.served \subseteq Cid
         /\ s.wants \in Seq(Psms) /\ s.opens \in Seq(Psms) /\ s.pending \in Seq(DataSet)
         /\ s.inFlight \in Nat
BY DEF HostSet

\* A host with other channels, requests or packets waiting is a host.
LEMMA HostChanges ==
  ASSUME NEW s \in HostSet
  PROVE  /\ \A chan \in Chans : [s EXCEPT !.chan = chan] \in HostSet
         /\ \A chan \in Chans, cid \in Cid : [s EXCEPT !.chan = chan, !.next = cid] \in HostSet
         /\ \A chan \in Chans : [s EXCEPT !.conn = 0, !.chan = chan, !.announced = {}, !.served = {}] \in HostSet
         /\ \A S \in SUBSET Cid : [s EXCEPT !.announced = @ \cup S, !.served = @ \cup S] \in HostSet
         /\ \A w \in Seq(Psms), p \in Seq(DataSet) : [s EXCEPT !.wants = w, !.pending = p] \in HostSet
         /\ \A p \in Seq(DataSet), n \in Nat : [s EXCEPT !.pending = p, !.inFlight = n] \in HostSet
         /\ \A n \in Nat : [s EXCEPT !.inFlight = n] \in HostSet /\ [s EXCEPT !.conn = n] \in HostSet
         /\ \A w \in Seq(Psms) : [s EXCEPT !.opens = w] \in HostSet /\ [s EXCEPT !.wants = w] \in HostSet
BY DEF HostSet

\* A host's channels with one more, or one changed, and without one.
LEMMA ChanWith ==
  ASSUME NEW chan \in Chans, NEW c \in Cid, NEW x \in ChannelSet
  PROVE  /\ With(chan, c, x) \in Chans /\ DOMAIN With(chan, c, x) = (DOMAIN chan) \cup {c}
         /\ With(chan, c, x)[c] = x
         /\ \A e \in DOMAIN chan : e # c => With(chan, c, x)[e] = chan[e]
<1>1. PICK D \in SUBSET Cid : chan \in [D -> ChannelSet]
  BY DEF Chans
<1>2. With(chan, c, x) \in [D \cup {c} -> ChannelSet]
  BY <1>1 DEF With
<1>3. D \cup {c} \in SUBSET Cid
  OBVIOUS
<1>4. With(chan, c, x) \in Chans
  BY <1>2, <1>3 DEF Chans
<1> QED BY <1>1, <1>4 DEF With

\* A channel for an identifier that none had leaves the others as they are.
LEMMA ChanNew ==
  ASSUME NEW chan \in Chans, NEW c \in Cid, c \notin DOMAIN chan, NEW x \in ChannelSet,
         NEW w, w = With(chan, c, x)
  PROVE  /\ w \in Chans /\ DOMAIN w = (DOMAIN chan) \cup {c} /\ w[c] = x
         /\ \A e \in DOMAIN chan : w[e] = chan[e]
BY ChanWith

\* A host's channels without one of them.
LEMMA ChanWithout ==
  ASSUME NEW chan \in Chans, NEW c
  PROVE  /\ Without(chan, c) \in Chans /\ DOMAIN Without(chan, c) = (DOMAIN chan) \ {c}
         /\ \A e \in (DOMAIN chan) \ {c} : Without(chan, c)[e] = chan[e]
<1>1. PICK D \in SUBSET Cid : chan \in [D -> ChannelSet]
  BY DEF Chans
<1>2. Without(chan, c) \in [D \ {c} -> ChannelSet] /\ DOMAIN chan = D /\ D \ {c} = D \cap (Cid \ {c})
  BY <1>1 DEF Without, Restricted
<1>3. D \ {c} \in SUBSET Cid
  OBVIOUS
<1>4. Without(chan, c) \in Chans
  BY <1>2, <1>3 DEF Chans
<1> QED BY <1>1, <1>2, <1>4 DEF Without, Restricted

\* A host's channels with one of them changed.
LEMMA ChanChange ==
  ASSUME NEW chan \in Chans, NEW c \in DOMAIN chan, NEW x \in ChannelSet
  PROVE  /\ [chan EXCEPT ![c] = x] \in Chans /\ DOMAIN [chan EXCEPT ![c] = x] = DOMAIN chan
         /\ [chan EXCEPT ![c] = x][c] = x
         /\ \A e \in DOMAIN chan : e # c => [chan EXCEPT ![c] = x][e] = chan[e]
<1>1. PICK D \in SUBSET Cid : chan \in [D -> ChannelSet]
  BY DEF Chans
<1>2. [chan EXCEPT ![c] = x] \in [D -> ChannelSet]
  BY <1>1
<1>4. [chan EXCEPT ![c] = x] \in Chans
  BY <1>2 DEF Chans
<1> QED BY <1>1, <1>4

\* Remainders of numbers that have gone round at most once.
LEMMA Round ==
  ASSUME NEW m \in Nat \ {0}, NEW a \in 0 .. m - 1
  PROVE  a % m = a /\ (a + m) % m = a
OBVIOUS

\* A remainder is less than what it is of.
LEMMA RoundType ==
  ASSUME NEW m \in Nat \ {0}, NEW a \in Nat
  PROVE  a % m \in 0 .. m - 1
OBVIOUS

\* allocate finds an identifier that is free, whenever one is.
LEMMA Allocates ==
  ASSUME NEW s \in HostSet
  PROVE  /\ \A c \in FreeCids(s) : c \in Cid /\ c \notin DOMAIN s.chan
         /\ FreeCids(s) = {} => Cid \subseteq DOMAIN s.chan
<1> DEFINE nth(o) == ((s.next - 1 + o) % MaxCid) + 1
           Free == {o \in 0 .. MaxCid - 1 : nth(o) \notin DOMAIN s.chan}
<1>1. MaxCid \in Nat \ {0} /\ s.next \in 1 .. MaxCid
  BY HostAssumption, HostFields DEF Cid
<1>2. ASSUME NEW o \in 0 .. MaxCid - 1 PROVE nth(o) \in Cid
  <2>1. s.next - 1 + o \in Nat
    BY <1>1
  <2>2. (s.next - 1 + o) % MaxCid \in 0 .. MaxCid - 1
    BY <1>1, <2>1, RoundType
  <2> QED BY <1>1, <2>2 DEF Cid
<1>3. ASSUME NEW c \in Cid PROVE \E o \in 0 .. MaxCid - 1 : nth(o) = c
  <2>1. c \in 1 .. MaxCid
    BY DEF Cid
  <2>2. CASE s.next <= c
    <3>1. c - s.next \in 0 .. MaxCid - 1 /\ s.next - 1 + (c - s.next) = c - 1 /\ c - 1 \in 0 .. MaxCid - 1
      BY <1>1, <2>1, <2>2
    <3>2. (c - 1) % MaxCid = c - 1
      BY <1>1, <3>1, Round
    <3> QED BY <2>1, <3>1, <3>2
  <2>3. CASE c < s.next
    <3> DEFINE o == c - s.next + MaxCid
    <3>1. o \in 0 .. MaxCid - 1 /\ s.next - 1 + o = (c - 1) + MaxCid /\ c - 1 \in 0 .. MaxCid - 1
      BY <1>1, <2>1, <2>3
    <3>2. ((c - 1) + MaxCid) % MaxCid = c - 1
      BY <1>1, <3>1, Round
    <3>3. nth(o) = c
      BY <2>1, <3>1, <3>2
    <3> QED BY <3>1, <3>3
  <2> QED BY <1>1, <2>1, <2>2, <2>3
<1>4. FreeCids(s) = {nth(o) : o \in {o \in 0 .. MaxCid - 1 :
                        nth(o) \notin DOMAIN s.chan /\ \A p \in 0 .. o - 1 : nth(p) \in DOMAIN s.chan}}
  BY DEF FreeCids
<1> HIDE DEF nth
<1>5. ASSUME FreeCids(s) = {}, NEW c \in Cid, c \notin DOMAIN s.chan PROVE FALSE
  <2>1. PICK o \in Free : TRUE
    BY <1>3, <1>5
  <2>2. Free \in SUBSET Nat /\ Free # {}
    BY <1>1, <2>1
  <2>3. PICK x \in Free : \A y \in Free : x <= y
    BY <2>2, LeastNatural
  <2>4. \A p \in 0 .. x - 1 : p \in 0 .. MaxCid - 1 /\ ~(x <= p)
    BY <1>1, <2>3
  <2>5. \A p \in 0 .. x - 1 : nth(p) \in DOMAIN s.chan
    BY <2>3, <2>4
  <2> QED BY <1>4, <1>5, <2>3, <2>5
<1> QED BY <1>2, <1>4, <1>5

\* Where the next search for an identifier starts.
LEMMA NextCid ==
  ASSUME NEW c \in Cid
  PROVE  (c % MaxCid) + 1 \in Cid
<1>1. MaxCid \in Nat \ {0} /\ c \in Nat
  BY HostAssumption DEF Cid
<1>2. c % MaxCid \in 0 .. MaxCid - 1
  BY <1>1, RoundType
<1> QED BY <1>1, <1>2 DEF Cid

\* A new channel, with neither half of its configuration done.
LEMMA ChannelType ==
  ASSUME NEW m \in Psms, NEW d \in 0 .. MaxCid, NEW st \in State
  PROVE  /\ Channel(m, d, st) \in ChannelSet
         /\ Channel(m, d, st).psm = m /\ Channel(m, d, st).peer = d /\ Channel(m, d, st).state = st
         /\ ~Channel(m, d, st).localDone /\ ~Channel(m, d, st).remoteDone
BY DEF Channel, ChannelSet

\* A channel for a peer's or a profile's request.
LEMMA AllocatedType ==
  ASSUME NEW s \in HostSet, NEW c \in Cid, NEW x \in ChannelSet
  PROVE  /\ Allocated(s, c, x) \in HostSet
         /\ Allocated(s, c, x).chan = With(s.chan, c, x)
         /\ Allocated(s, c, x).conn = s.conn /\ Allocated(s, c, x).opens = s.opens
         /\ Allocated(s, c, x).served = s.served
<1>1. With(s.chan, c, x) \in Chans /\ (c % MaxCid) + 1 \in Cid
  BY HostFields, ChanWith, NextCid
<1>2. Allocated(s, c, x) = [s EXCEPT !.chan = With(s.chan, c, x), !.next = (c % MaxCid) + 1]
  BY DEF Allocated
<1>3. Allocated(s, c, x) \in HostSet
  <2> DEFINE w == With(s.chan, c, x)
             n == (c % MaxCid) + 1
  <2>1. w \in Chans /\ n \in Cid
    BY <1>1
  <2> HIDE DEF w, n
  <2>2. [s EXCEPT !.chan = w, !.next = n] \in HostSet
    BY <2>1, HostChanges
  <2> QED BY <1>2, <2>2 DEF w, n
<1> QED BY <1>2, <1>3 DEF HostSet

\* What a host asked to open a channel does: it asks the peer, or has no identifier for one.
Asks(s, t, out) ==
  \/ t.chan = s.chan /\ out = <<>>
  \/ \E c \in Cid, m \in Psms :
       /\ c \notin DOMAIN s.chan /\ t.chan = With(s.chan, c, Channel(m, 0, "WaitConnectRsp"))
       /\ out = <<[handle |-> s.conn, type |-> "ConnReq", dst |-> 0, body |-> [psm |-> m, src |-> c]]>>

\* open_requested_channels asks for one channel at most, with one request less to go.
LEMMA OpensType ==
  ASSUME NEW s \in HostSet
  PROVE  LET o == OpensRequested(s) IN
         /\ o.s \in HostSet /\ o.s.conn = s.conn /\ o.s.served = s.served
         /\ Asks(s, o.s, o.out)
         /\ Len(o.s.opens) + Len(o.out) <= Len(s.opens)
<1>1. CASE s.opens = <<>>
  <2>1. OpensRequested(s).s = s /\ OpensRequested(s).out = <<>>
    BY <1>1 DEF OpensRequested
  <2> QED BY <1>1, <2>1 DEF Asks
<1>2. CASE s.opens # <<>>
  <2> DEFINE t == [s EXCEPT !.opens = Tail(@)]
             m == Head(s.opens)
             cid == CHOOSE c \in FreeCids(t) : TRUE
             x == Channel(m, 0, "WaitConnectRsp")
  <2>1. s.opens \in Seq(Psms)
    BY HostFields
  <2>2. Tail(s.opens) \in Seq(Psms) /\ m \in Psms /\ Len(Tail(s.opens)) + 1 = Len(s.opens)
        /\ Len(s.opens) \in Nat /\ Len(Tail(s.opens)) \in Nat
    BY <1>2, <2>1
  <2>3. t \in HostSet
    BY <2>2, HostChanges
  <2>4. t.chan = s.chan /\ t.conn = s.conn /\ t.served = s.served /\ t.opens = Tail(s.opens)
    BY DEF HostSet
  <2>5. OpensRequested(s) = OpenChannel(t, m)
    BY <1>2 DEF OpensRequested
  <2> HIDE DEF t
  <2>6. CASE FreeCids(t) = {}
    <3>1. OpensRequested(s).s = t /\ OpensRequested(s).out = <<>>
      BY <2>5, <2>6 DEF OpenChannel
    <3>2. Len(<<>>) = 0
      OBVIOUS
    <3>3. Len(t.opens) + 0 <= Len(s.opens)
      BY <2>2, <2>4
    <3> QED BY <3>1, <3>2, <3>3, <2>3, <2>4 DEF Asks
  <2>7. CASE FreeCids(t) # {}
    <3>1. cid \in Cid /\ cid \notin DOMAIN s.chan
      <4>1. cid \in FreeCids(t)
        BY <2>7
      <4> QED BY <4>1, <2>3, <2>4, Allocates
    <3> HIDE DEF cid
    <3>2. x \in ChannelSet
      BY <2>2, HostFacts, ChannelType DEF State
    <3> DEFINE pkt == [handle |-> s.conn, type |-> "ConnReq", dst |-> 0, body |-> [psm |-> m, src |-> cid]]
    <3>a. OpensRequested(s) = [s |-> Allocated(t, cid, x), out |-> <<Packet(t, "ConnReq", 0, [psm |-> m, src |-> cid])>>]
      BY <2>5, <2>7, Zenon DEF OpenChannel, cid
    <3>b. Packet(t, "ConnReq", 0, [psm |-> m, src |-> cid]) = pkt
      BY <2>4, Zenon DEF Packet
    <3>3. OpensRequested(s).s = Allocated(t, cid, x) /\ OpensRequested(s).out = <<pkt>>
      BY <3>a, <3>b
    <3>4. /\ Allocated(t, cid, x) \in HostSet
          /\ Allocated(t, cid, x).chan = With(s.chan, cid, x)
          /\ Allocated(t, cid, x).conn = s.conn /\ Allocated(t, cid, x).opens = Tail(s.opens)
          /\ Allocated(t, cid, x).served = s.served
      BY <2>3, <2>4, <3>1, <3>2, AllocatedType
    <3>5. Asks(s, OpensRequested(s).s, OpensRequested(s).out)
      BY <2>2, <3>1, <3>3, <3>4 DEF Asks
    <3> HIDE DEF pkt, x
    <3>6. Len(<<pkt>>) = 1
      OBVIOUS
    <3> QED BY <2>2, <3>3, <3>4, <3>5, <3>6
  <2> QED BY <2>6, <2>7
<1> QED BY <1>1, <1>2

\* Nothing is left at no place, everything at every place.
LEMMA AtNone ==
  ASSUME NEW S, NEW s \in Seq(S)
  PROVE  At(s, {}) = <<>>
<1>1. At(s, {}) \in Seq(S)
  BY AtPlaces
<1>2. Cardinality({}) = 0
  BY FS_EmptySet
<1>3. DOMAIN At(s, {}) = {}
  BY <1>2 DEF At
<1> QED BY <1>1, <1>3

\* Taking every place of a queue takes the queue.
LEMMA AtAll ==
  ASSUME NEW S, NEW s \in Seq(S)
  PROVE  At(s, DOMAIN s) = s
<1> DEFINE n == Len(s)
<1>1. n \in Nat /\ DOMAIN s = 1 .. n
  OBVIOUS
<1>2. Cardinality(1 .. n) = n
  BY <1>1, FS_Interval
<1>3. ASSUME NEW i \in 1 .. n PROVE Place(1 .. n, i) = i
  <2>1. {j \in 1 .. n : j <= i} = 1 .. i
    BY <1>1
  <2>2. Cardinality(1 .. i) = i
    BY FS_Interval
  <2>3. Rank(1 .. n, i) = i
    BY <2>1, <2>2 DEF Rank
  <2>4. Place(1 .. n, Rank(1 .. n, i)) = i
    BY <1>1, PlaceRank
  <2> QED BY <2>3, <2>4
<1>4. At(s, 1 .. n) = [k \in 1 .. n |-> s[Place(1 .. n, k)]]
  BY <1>2 DEF At
<1>5. [k \in 1 .. n |-> s[Place(1 .. n, k)]] = [k \in 1 .. n |-> s[k]]
  BY <1>3
<1>6. s = [k \in 1 .. n |-> s[k]]
  BY <1>1
<1> QED BY <1>1, <1>4, <1>5, <1>6

\* What a controller takes of a host's packets.
LEMMA TakenPart ==
  ASSUME NEW S, NEW s \in Seq(S)
  PROVE  /\ Taken(s) \in Seq(S)
         /\ ~isUp => Taken(s) = <<>>
         /\ isUp /\ (\A k \in DOMAIN s : s[k].handle = links) => Taken(s) = s
<1> DEFINE I == {k \in DOMAIN s : isUp /\ s[k].handle = links}
<1>1. I \in SUBSET DOMAIN s
  OBVIOUS
<1>2. Taken(s) = At(s, I)
  BY DEF Taken
<1>3. ~isUp => I = {}
  OBVIOUS
<1>4. isUp /\ (\A k \in DOMAIN s : s[k].handle = links) => I = DOMAIN s
  OBVIOUS
<1> HIDE DEF I
<1>5. At(s, I) \in Seq(S)
  BY <1>1, AtPlaces
<1> QED BY <1>2, <1>3, <1>4, <1>5, AtNone, AtAll

\* Of nothing the controller takes nothing.
LEMMA TakenNothing == Taken(<<>>) = <<>>
<1>1. <<>> \in Seq(Nat) /\ DOMAIN <<>> = {}
  OBVIOUS
<1>2. {k \in DOMAIN <<>> : isUp /\ <<>>[k].handle = links} = {}
  BY <1>1
<1> QED BY <1>1, <1>2, AtNone DEF Taken

\* What a poll leaves alone: the link, the channels, and what profiles ask for.
SameChannels(s, t) == t.conn = s.conn /\ t.chan = s.chan /\ t.opens = s.opens

\* Announcing channels changes none, and serves open ones only.
LEMMA AnnouncedType ==
  ASSUME NEW s \in HostSet, s.served \subseteq OpenCids(s)
  PROVE  /\ Announced(s) \in HostSet /\ SameChannels(s, Announced(s))
         /\ Announced(s).served \subseteq OpenCids(s)
<1>1. OpenCids(s) \in SUBSET Cid
  <2>1. PICK D \in SUBSET Cid : s.chan \in [D -> ChannelSet]
    BY HostFields DEF Chans
  <2> QED BY <2>1 DEF OpenCids
<1>2. Announced(s) \in HostSet
  BY <1>1, HostChanges DEF Announced
<1> QED BY <1>2 DEF Announced, HostSet, SameChannels

\* Collecting SDUs changes no channel, and queues data.
LEMMA CollectedType ==
  ASSUME NEW s \in HostSet
  PROVE  Collected(s) \in HostSet /\ SameChannels(s, Collected(s)) /\ Collected(s).served = s.served
<1> DEFINE now == {k \in DOMAIN s.wants : SendOn(s, s.wants[k]) # {}}
           ready == At(s.wants, now)
           left == At(s.wants, DOMAIN s.wants \ now)
           data == [k \in DOMAIN ready |->
                      LET cid == CHOOSE c \in SendOn(s, ready[k]) : TRUE
                      IN Packet(s, "Data", s.chan[cid].peer, [psm |-> ready[k], src |-> cid])]
<1>1. Collected(s) = [s EXCEPT !.wants = left, !.pending = s.pending \o data]
  BY DEF Collected
<1>2. s.wants \in Seq(Psms) /\ s.pending \in Seq(DataSet) /\ s.conn \in Nat
  BY HostFields
<1>3. PICK D \in SUBSET Cid : s.chan \in [D -> ChannelSet]
  BY HostFields DEF Chans
<1>4. now \in SUBSET DOMAIN s.wants /\ DOMAIN s.wants \ now \in SUBSET DOMAIN s.wants
  OBVIOUS
<1>5. left \in Seq(Psms) /\ ready \in Seq(Psms)
  <2> HIDE DEF now
  <2> QED BY <1>2, <1>4, AtPlaces
<1>6. \A k \in DOMAIN ready : ready[k] \in Psms /\ SendOn(s, ready[k]) # {}
  <2>1. \A k \in DOMAIN ready : Place(now, k) \in now /\ ready[k] = s.wants[Place(now, k)]
    <3> HIDE DEF now
    <3> QED BY <1>2, <1>4, AtPlaces
  <2>2. \A i \in now : SendOn(s, s.wants[i]) # {} /\ s.wants[i] \in Psms
    BY <1>2
  <2> HIDE DEF now, ready
  <2> QED BY <2>1, <2>2
<1>7. Len(ready) \in Nat /\ DOMAIN ready = 1 .. Len(ready)
  <2> HIDE DEF ready
  <2> QED BY <1>5
<1>8. ASSUME NEW k \in DOMAIN ready PROVE data[k] \in DataSet
  <2> DEFINE m == ready[k]
             cid == CHOOSE c \in SendOn(s, m) : TRUE
  <2>1. m \in Psms /\ SendOn(s, m) # {}
    BY <1>6
  <2>2. data[k] = Packet(s, "Data", s.chan[cid].peer, [psm |-> m, src |-> cid])
    OBVIOUS
  <2> HIDE DEF m, data, ready
  <2>3. cid \in SendOn(s, m)
    BY <2>1
  <2> HIDE DEF cid
  <2>4. cid \in D
    BY <2>3, <1>3 DEF SendOn, OpenCids
  <2>5. cid \in 0 .. MaxCid /\ s.chan[cid].peer \in 0 .. MaxCid
    BY <2>4, <1>3, HostFacts DEF ChannelSet
  <2> QED BY <1>2, <2>1, <2>2, <2>5 DEF Packet, DataSet
<1>9. data \in Seq(DataSet)
  <2>1. DOMAIN data = 1 .. Len(ready)
    BY <1>7
  <2>2. data = [k \in 1 .. Len(ready) |-> data[k]]
    BY <1>7
  <2> HIDE DEF data
  <2> HIDE DEF ready
  <2>3. data \in [1 .. Len(ready) -> DataSet]
    BY <1>7, <1>8, <2>1, <2>2
  <2> QED BY <1>7, <2>3, IsASeq
<1>10. s.pending \o data \in Seq(DataSet)
  <2> HIDE DEF data
  <2> QED BY <1>2, <1>9
<1>11. Collected(s) \in HostSet
  <2> HIDE DEF left, data
  <2>1. [s EXCEPT !.wants = left, !.pending = s.pending \o data] \in HostSet
    BY <1>5, <1>10, HostChanges
  <2> QED BY <1>1, <2>1
<1> HIDE DEF left, data
<1> QED BY <1>1, <1>11 DEF HostSet, SameChannels

\* Releasing packets changes no channel, and hands data over.
LEMMA ReleasedType ==
  ASSUME NEW s \in HostSet
  PROVE  LET r == Released(s) IN
         /\ r.s \in HostSet /\ SameChannels(s, r.s) /\ r.s.served = s.served
         /\ r.out \in Seq(DataSet)
<1> DEFINE room == Buffers - s.inFlight
           n == IF room > Len(s.pending) THEN Len(s.pending) ELSE IF room < 0 THEN 0 ELSE room
<1>1. s.pending \in Seq(DataSet) /\ s.inFlight \in Nat /\ Buffers \in Nat
  BY HostFields, HostAssumption
<1>2. Len(s.pending) \in Nat
  BY <1>1
<1>3. n \in Nat /\ n <= Len(s.pending)
  BY <1>1, <1>2
<1>4. Released(s).s = [s EXCEPT !.pending = SubSeq(s.pending, n + 1, Len(s.pending)), !.inFlight = s.inFlight + n]
      /\ Released(s).out = SubSeq(s.pending, 1, n)
  BY DEF Released
<1> HIDE DEF n
<1>5. SubSeq(s.pending, n + 1, Len(s.pending)) \in Seq(DataSet) /\ SubSeq(s.pending, 1, n) \in Seq(DataSet)
  BY <1>1, <1>2, <1>3
<1>6. s.inFlight + n \in Nat
  BY <1>1, <1>3
<1>7. Released(s).s \in HostSet
  <2> DEFINE w == SubSeq(s.pending, n + 1, Len(s.pending))
             k == s.inFlight + n
  <2>1. w \in Seq(DataSet) /\ k \in Nat
    BY <1>5, <1>6
  <2>2. Released(s).s = [s EXCEPT !.pending = w, !.inFlight = k]
    BY <1>4
  <2> HIDE DEF w, k
  <2>3. [s EXCEPT !.pending = w, !.inFlight = k] \in HostSet
    BY <2>1, HostChanges
  <2> QED BY <2>2, <2>3
<1> QED BY <1>4, <1>5, <1>7 DEF HostSet, SameChannels

\* What poll p of s gives the controller: data, and perhaps a request for a channel.
Gives(s, p, data, out) ==
  /\ data \in Seq(DataSet) /\ Asks(s, p.s, out) /\ p.out = Taken(data) \o Taken(out)
  /\ Len(p.s.opens) + Len(out) <= Len(s.opens)

\* A poll keeps the link, serves channels that were open, and does nothing without a link.
LEMMA PollType ==
  ASSUME NEW s \in HostSet, s.served \subseteq OpenCids(s)
  PROVE  LET p == Poll(s) IN
         /\ p.s \in HostSet /\ p.s.conn = s.conn
         /\ p.s.served \subseteq OpenCids(s)
         /\ \E data, out : Gives(s, p, data, out)
         /\ s.conn = 0 => p.s = s
<1>1. CASE s.conn = 0
  <2>1. Poll(s).s = s /\ Poll(s).out = <<>>
    BY <1>1 DEF Poll
  <2>2. Taken(<<>>) = <<>>
    BY TakenNothing
  <2>3. Len(s.opens) + Len(<<>>) <= Len(s.opens)
    <3>1. s.opens \in Seq(Psms)
      BY HostFields
    <3> QED BY <3>1
  <2>4. <<>> \in Seq(DataSet) /\ <<>> \o <<>> = <<>>
    OBVIOUS
  <2>5. Asks(s, s, <<>>)
    BY DEF Asks
  <2>6. Poll(s).out = Taken(<<>>) \o Taken(<<>>)
    BY <2>1, <2>2, <2>4
  <2>7. Gives(s, Poll(s), <<>>, <<>>)
    BY <2>1, <2>3, <2>4, <2>5, <2>6 DEF Gives
  <2> QED BY <2>1, <2>7
<1>2. CASE s.conn # 0
  <2> DEFINE a == Announced(s)
             b == Collected(a)
             r == Released(b)
             o == OpensRequested(r.s)
  <2>1. a \in HostSet /\ SameChannels(s, a) /\ a.served \subseteq OpenCids(s)
    BY AnnouncedType
  <2> HIDE DEF a
  <2>2. b \in HostSet /\ SameChannels(a, b) /\ b.served = a.served
    BY <2>1, CollectedType
  <2> HIDE DEF b
  <2>3. r.s \in HostSet /\ SameChannels(b, r.s) /\ r.s.served = b.served /\ r.out \in Seq(DataSet)
    BY <2>2, ReleasedType
  <2> HIDE DEF r
  <2>4. /\ o.s \in HostSet /\ o.s.conn = r.s.conn /\ o.s.served = r.s.served
        /\ Asks(r.s, o.s, o.out) /\ Len(o.s.opens) + Len(o.out) <= Len(r.s.opens)
    BY <2>3, OpensType
  <2>5. Poll(s).s = o.s /\ Poll(s).out = Taken(r.out) \o Taken(o.out)
    BY <1>2 DEF Poll, a, b, r
  <2> HIDE DEF o
  <2>6. r.s.conn = s.conn /\ r.s.chan = s.chan /\ r.s.opens = s.opens
    BY <2>1, <2>2, <2>3 DEF SameChannels
  <2>7. Asks(s, o.s, o.out)
    BY <2>4, <2>6 DEF Asks
  <2>8. Gives(s, Poll(s), r.out, o.out)
    BY <2>3, <2>4, <2>5, <2>6, <2>7 DEF Gives
  <2> QED BY <1>2, <2>1, <2>2, <2>3, <2>4, <2>5, <2>6, <2>8
<1> QED BY <1>1, <1>2

--------------------------------------------------------------------------------
(* Packets come and go. *)

\* Data is packets, of none of the handshake's types.
LEMMA DataPackets ==
  ASSUME NEW u \in Seq(DataSet)
  PROVE  /\ u \in Seq(PacketSet)
         /\ \A i \in DOMAIN u : u[i].type = "Data"
<1>1. Len(u) \in Nat /\ DOMAIN u = 1 .. Len(u) /\ u = [i \in 1 .. Len(u) |-> u[i]] /\ \A i \in 1 .. Len(u) : u[i] \in DataSet
  OBVIOUS
<1>2. \A p \in DataSet : p \in PacketSet /\ p.type = "Data"
  BY DEF DataSet, PacketSet
<1>3. u \in [1 .. Len(u) -> PacketSet]
  BY <1>1, <1>2
<1>4. u \in Seq(PacketSet)
  BY <1>1, <1>3, IsASeq
<1> QED BY <1>1, <1>2, <1>4

\* A host sends a packet.
LEMMA Appended ==
  ASSUME NEW q, NEW t, NEW g \in Host, q[g] \in Seq(PacketSet), NEW p \in PacketSet,
         t[g] = q[g] \o <<p>>, \A x \in Host : x # g => t[x] = q[x]
  PROVE  LET n == Len(q[g]) + 1 IN
         /\ t[g] \in Seq(PacketSet) /\ Len(t[g]) = n /\ n \in Nat
         /\ IF p.type = "ConnReq" THEN GainReq(q, t, g, n, p.body.src, p.body.psm) ELSE SameReq(q, t)
         /\ IF p.type = "ConnRsp" THEN GainRsp(q, t, g, n, p.dst, p.body.src) ELSE SameRsp(q, t)
         /\ IF p.type = "ConfReq" THEN GainCfg(q, t, g, n, p.dst) ELSE SameCfg(q, t)
         /\ IF p.type = "ConfRsp" THEN GainAck(q, t, g, n, p.dst) ELSE SameAck(q, t)
<1> DEFINE s == q[g]
           n == Len(s) + 1
<1>1. /\ t[g] \in Seq(PacketSet) /\ Len(t[g]) = n /\ n \in Nat
      /\ \A i : i \in DOMAIN t[g] <=> i \in DOMAIN s \/ i = n
      /\ n \notin DOMAIN s /\ t[g][n] = p /\ \A i \in DOMAIN s : t[g][i] = s[i]
  <2>1. s \in Seq(PacketSet) /\ <<p>> \in Seq(PacketSet) /\ Len(<<p>>) = 1 /\ <<p>>[1] = p
    OBVIOUS
  <2> HIDE DEF s
  <2>2. /\ s \o <<p>> \in Seq(PacketSet) /\ Len(s) \in Nat /\ DOMAIN s = 1 .. Len(s)
        /\ Len(s \o <<p>>) = Len(s) + 1 /\ DOMAIN (s \o <<p>>) = 1 .. (Len(s) + 1)
        /\ \A i \in 1 .. (Len(s) + 1) : (s \o <<p>>)[i] = IF i <= Len(s) THEN s[i] ELSE p
    BY <2>1
  <2>3. /\ (Len(s) + 1) \in 1 .. (Len(s) + 1) /\ ~(Len(s) + 1 <= Len(s)) /\ Len(s) + 1 \in Nat
        /\ Len(s) + 1 \notin 1 .. Len(s)
        /\ \A i : i \in 1 .. (Len(s) + 1) <=> i \in 1 .. Len(s) \/ i = Len(s) + 1
        /\ \A i \in 1 .. Len(s) : i <= Len(s)
    BY <2>2
  <2>4. t[g] = s \o <<p>>
    BY DEF s
  <2> HIDE DEF n
  <2> QED BY <2>2, <2>3, <2>4 DEF n
<1> HIDE DEF n
<1>2. \A x \in Host : \A i : i \in DOMAIN t[x] <=> i \in DOMAIN q[x] \/ (x = g /\ i = n)
  BY <1>1
<1>3. \A x \in Host : \A i \in DOMAIN q[x] : t[x][i] = q[x][i] /\ ~(x = g /\ i = n)
  BY <1>1
<1>4. t[g][n] = p
  BY <1>1
<1> HIDE DEF s
<1>5. \A x \in Host : \A i, c, m :
              Req(t, x, i, c, m) <=> \/ Req(q, x, i, c, m)
                                     \/ /\ x = g /\ i = n
                                        /\ p.type = "ConnReq" /\ p.body = [psm |-> m, src |-> c]
  BY <1>2, <1>3, <1>4 DEF Req
<1>6. \A x \in Host : \A i, c, d :
              Rsp(t, x, i, c, d) <=> \/ Rsp(q, x, i, c, d)
                                     \/ /\ x = g /\ i = n
                                        /\ p.type = "ConnRsp" /\ p.dst = c /\ p.body.src = d
  BY <1>2, <1>3, <1>4 DEF Rsp
<1>7. \A x \in Host : \A i, c :
              Cfg(t, x, i, c) <=> \/ Cfg(q, x, i, c)
                                  \/ x = g /\ i = n /\ p.type = "ConfReq" /\ p.dst = c
  BY <1>2, <1>3, <1>4 DEF Cfg
<1>8. \A x \in Host : \A i, c :
              Ack(t, x, i, c) <=> \/ Ack(q, x, i, c)
                                  \/ x = g /\ i = n /\ p.type = "ConfRsp" /\ p.dst = c
  BY <1>2, <1>3, <1>4 DEF Ack
<1>9. \A c, m : p.body = [psm |-> m, src |-> c] <=> c = p.body.src /\ m = p.body.psm
  <2>1. p.body \in [psm : Psms, src : 0 .. MaxCid]
    BY DEF PacketSet
  <2> QED BY <2>1
<1>10. IF p.type = "ConnReq" THEN GainReq(q, t, g, n, p.body.src, p.body.psm) ELSE SameReq(q, t)
  <2>1. ASSUME NEW x \in Host, NEW i, NEW c, NEW m
        PROVE  Req(t, x, i, c, m) <=> \/ Req(q, x, i, c, m)
                                      \/ x = g /\ i = n /\ p.type = "ConnReq" /\ c = p.body.src /\ m = p.body.psm
    <3>1. p.body = [psm |-> m, src |-> c] <=> c = p.body.src /\ m = p.body.psm
      BY <1>9, Zenon
    <3>2. Req(t, x, i, c, m) <=> \/ Req(q, x, i, c, m)
                                 \/ /\ x = g /\ i = n
                                    /\ p.type = "ConnReq" /\ p.body = [psm |-> m, src |-> c]
      BY <1>5, Zenon
    <3> QED BY <3>1, <3>2, Zenon
  <2> QED BY <2>1 DEF GainReq, SameReq
<1>11. IF p.type = "ConnRsp" THEN GainRsp(q, t, g, n, p.dst, p.body.src) ELSE SameRsp(q, t)
  BY <1>6 DEF GainRsp, SameRsp
<1>12. IF p.type = "ConfReq" THEN GainCfg(q, t, g, n, p.dst) ELSE SameCfg(q, t)
  BY <1>7 DEF GainCfg, SameCfg
<1>13. IF p.type = "ConfRsp" THEN GainAck(q, t, g, n, p.dst) ELSE SameAck(q, t)
  BY <1>8 DEF GainAck, SameAck
<1> QED BY <1>1, <1>10, <1>11, <1>12, <1>13 DEF n, s

\* A host sends data.
LEMMA DataAppended ==
  ASSUME NEW q, NEW t, NEW g \in Host, q[g] \in Seq(PacketSet), NEW u \in Seq(DataSet),
         t[g] = q[g] \o u, \A x \in Host : x # g => t[x] = q[x]
  PROVE  /\ t[g] \in Seq(PacketSet)
         /\ SameReq(q, t) /\ SameRsp(q, t) /\ SameCfg(q, t) /\ SameAck(q, t)
<1>1. u \in Seq(PacketSet) /\ \A i \in DOMAIN u : u[i].type = "Data"
  BY DataPackets
<1> DEFINE s == q[g]
<1>2. /\ s \o u \in Seq(PacketSet)
      /\ \A i \in DOMAIN s : i \in DOMAIN (s \o u) /\ (s \o u)[i] = s[i]
      /\ \A i \in DOMAIN (s \o u) : \/ i \in DOMAIN s
                                    \/ i - Len(s) \in DOMAIN u /\ (s \o u)[i] = u[i - Len(s)]
  <2>1. s \in Seq(PacketSet)
    OBVIOUS
  <2> HIDE DEF s
  <2> QED BY <1>1, <2>1, QueueMore
<1>3. t[g] = s \o u
  OBVIOUS
<1> HIDE DEF s
<1>4. /\ \A i \in DOMAIN s : i \in DOMAIN t[g] /\ t[g][i] = s[i]
      /\ \A i \in DOMAIN t[g] : i \in DOMAIN s \/ t[g][i].type = "Data"
  BY <1>1, <1>2, <1>3
<1>5. \A x \in Host : /\ \A i \in DOMAIN q[x] : i \in DOMAIN t[x] /\ t[x][i] = q[x][i]
                      /\ \A i \in DOMAIN t[x] : i \in DOMAIN q[x] \/ t[x][i].type = "Data"
  BY <1>4, Zenon DEF s
<1>6. SameReq(q, t)
  BY <1>5 DEF SameReq, Req
<1>7. SameRsp(q, t)
  BY <1>5 DEF SameRsp, Rsp
<1>8. SameCfg(q, t)
  BY <1>5 DEF SameCfg, Cfg
<1>9. SameAck(q, t)
  BY <1>5 DEF SameAck, Ack
<1> QED BY <1>2, <1>3, <1>6, <1>7, <1>8, <1>9

\* A packet leaves: what is said of the others stays, at their places.
LEMMA HeadTaken ==
  ASSUME NEW q, NEW t, NEW h \in Host, t[h] = [i \in DOMAIN q[h] \ {1} |-> q[h][i]],
         \A x \in Host : x # h => t[x] = q[x]
  PROVE  LoseReq(q, t, h) /\ LoseRsp(q, t, h) /\ LoseCfg(q, t, h) /\ LoseAck(q, t, h)
<1>1. \A x \in Host : \A i : i \in DOMAIN t[x] <=> i \in DOMAIN q[x] /\ ~(x = h /\ i = 1)
  OBVIOUS
<1>2. \A x \in Host : \A i \in DOMAIN t[x] : t[x][i] = q[x][i]
  OBVIOUS
<1> QED BY <1>1, <1>2 DEF Req, Rsp, Cfg, Ack, LoseReq, LoseRsp, LoseCfg, LoseAck

\* The packets of h are numbered anew, in their order.
Later(h, x, i) == IF x = h THEN i + 1 ELSE i

\* The handshake does not depend on the numbers of the packets, but on their order.
LEMMA Renumbered ==
  ASSUME NEW ch, NEW u, NEW t, NEW h \in Host, NEW s \in Seq(PacketSet), s # <<>>,
         u[h] = [i \in DOMAIN s \ {1} |-> s[i]], t[h] = Tail(s),
         \A x \in Host : x # h => t[x] = u[x],
         Handshake(ch, u)
  PROVE  Handshake(ch, t)
<1> DEFINE L(x, i) == Later(h, x, i)
<1>0. \A x \in Host : Peer(x) \in Host
  BY HostFacts
<1>1. /\ \A x \in Host, i \in Nat : L(x, i) \in Nat
      /\ \A x \in Host, i, j \in Nat : (i < j <=> L(x, i) < L(x, j)) /\ (L(x, i) = L(x, j) => i = j)
  BY DEF Later
<1>2. /\ DOMAIN s \subseteq Nat
      /\ \A i \in DOMAIN Tail(s) : i \in Nat /\ i # 0 /\ i + 1 \in DOMAIN s /\ Tail(s)[i] = s[i + 1]
      /\ \A i \in DOMAIN s : i = 1 \/ (i - 1 \in DOMAIN Tail(s) /\ Tail(s)[i - 1] = s[i])
  BY QueueTail
<1>3. ASSUME NEW x \in Host, NEW i \in Nat
      PROVE  (i \in DOMAIN t[x] <=> L(x, i) \in DOMAIN u[x]) /\ (i \in DOMAIN t[x] => t[x][i] = u[x][L(x, i)])
  <2>1. CASE x # h
    BY <2>1 DEF Later
  <2>2. CASE x = h
    <3>1. L(x, i) = i + 1
      BY <2>2 DEF Later
    <3>2. ASSUME i \in DOMAIN Tail(s) PROVE i + 1 \in DOMAIN s \ {1} /\ Tail(s)[i] = u[h][i + 1]
      <4>1. i # 0 /\ i + 1 \in DOMAIN s /\ Tail(s)[i] = s[i + 1]
        BY <1>2, <3>2
      <4>2. i + 1 # 1
        BY <4>1
      <4> QED BY <4>1, <4>2
    <3>3. ASSUME i + 1 \in DOMAIN s \ {1} PROVE i \in DOMAIN Tail(s)
      <4>1. (i + 1) - 1 \in DOMAIN Tail(s)
        BY <1>2, <3>3
      <4>2. (i + 1) - 1 = i
        OBVIOUS
      <4> QED BY <4>1, <4>2
    <3>4. i + 1 \in DOMAIN u[h] <=> i + 1 \in DOMAIN s \ {1}
      OBVIOUS
    <3> QED BY <2>2, <3>1, <3>2, <3>3, <3>4, Zenon
  <2> QED BY <2>1, <2>2
<1>4. ASSUME NEW x \in Host, NEW i \in Nat, i \in DOMAIN u[x]
      PROVE  \E j \in Nat : i = L(x, j)
  <2>1. CASE x # h
    BY <2>1 DEF Later
  <2>2. CASE x = h
    <3>1. i \in DOMAIN s /\ i # 1
      BY <1>4, <2>2
    <3>2. i - 1 \in DOMAIN Tail(s)
      BY <1>2, <3>1
    <3>3. i - 1 \in Nat
      BY <1>2, <3>2
    <3>4. (i - 1) + 1 = i
      OBVIOUS
    <3> QED BY <2>2, <3>3, <3>4 DEF Later
  <2> QED BY <2>1, <2>2
<1> HIDE DEF L
<1>5. /\ \A x \in Host, i \in Nat : \A c, m : Req(t, x, i, c, m) <=> Req(u, x, L(x, i), c, m)
      /\ \A x \in Host, i \in Nat : \A c, d : Rsp(t, x, i, c, d) <=> Rsp(u, x, L(x, i), c, d)
      /\ \A x \in Host, i \in Nat : \A c : Cfg(t, x, i, c) <=> Cfg(u, x, L(x, i), c)
      /\ \A x \in Host, i \in Nat : \A c : Ack(t, x, i, c) <=> Ack(u, x, L(x, i), c)
  BY <1>3 DEF Req, Rsp, Cfg, Ack
<1>6. /\ \A x \in Host, i \in Nat : \A c, m : Req(u, x, i, c, m) => \E j \in Nat : i = L(x, j) /\ Req(t, x, j, c, m)
      /\ \A x \in Host, i \in Nat : \A c, d : Rsp(u, x, i, c, d) => \E j \in Nat : i = L(x, j) /\ Rsp(t, x, j, c, d)
      /\ \A x \in Host, i \in Nat : \A c : Cfg(u, x, i, c) => \E j \in Nat : i = L(x, j) /\ Cfg(t, x, j, c)
      /\ \A x \in Host, i \in Nat : \A c : Ack(u, x, i, c) => \E j \in Nat : i = L(x, j) /\ Ack(t, x, j, c)
  <2>1. ASSUME NEW x \in Host, NEW i \in Nat, NEW c, NEW m, Req(u, x, i, c, m)
        PROVE  \E j \in Nat : i = L(x, j) /\ Req(t, x, j, c, m)
    <3>1. PICK j \in Nat : i = L(x, j)
      BY <1>4, <2>1 DEF Req
    <3> QED BY <1>5, <2>1, <3>1
  <2>2. ASSUME NEW x \in Host, NEW i \in Nat, NEW c, NEW d, Rsp(u, x, i, c, d)
        PROVE  \E j \in Nat : i = L(x, j) /\ Rsp(t, x, j, c, d)
    <3>1. PICK j \in Nat : i = L(x, j)
      BY <1>4, <2>2 DEF Rsp
    <3> QED BY <1>5, <2>2, <3>1
  <2>3. ASSUME NEW x \in Host, NEW i \in Nat, NEW c, Cfg(u, x, i, c)
        PROVE  \E j \in Nat : i = L(x, j) /\ Cfg(t, x, j, c)
    <3>1. PICK j \in Nat : i = L(x, j)
      BY <1>4, <2>3 DEF Cfg
    <3> QED BY <1>5, <2>3, <3>1
  <2>4. ASSUME NEW x \in Host, NEW i \in Nat, NEW c, Ack(u, x, i, c)
        PROVE  \E j \in Nat : i = L(x, j) /\ Ack(t, x, j, c)
    <3>1. PICK j \in Nat : i = L(x, j)
      BY <1>4, <2>4 DEF Ack
    <3> QED BY <1>5, <2>4, <3>1
  <2> QED BY <2>1, <2>2, <2>3, <2>4
<1>7. AsksOnce(ch, t)
  <2> SUFFICES ASSUME NEW x \in Host, NEW i \in Nat, NEW c \in 0 .. MaxCid, NEW m \in Psms, Req(t, x, i, c, m)
               PROVE  Alone(ch, t, x, i, c, m)
    BY DEF AsksOnce
  <2>1. L(x, i) \in Nat /\ Req(u, x, L(x, i), c, m)
    BY <1>1, <1>5
  <2>2. Alone(ch, u, x, L(x, i), c, m)
    BY <2>1 DEF Handshake, AsksOnce
  <2>3. ASSUME NEW j \in Nat, NEW n \in Psms, Req(t, x, j, c, n) PROVE j = i
    <3>1. L(x, j) \in Nat /\ Req(u, x, L(x, j), c, n)
      BY <1>1, <1>5, <2>3
    <3>2. L(x, j) = L(x, i)
      BY <2>2, <3>1 DEF Alone
    <3> QED BY <1>1, <3>2
  <2>4. ASSUME NEW j \in Nat, NEW d \in 0 .. MaxCid, Rsp(t, Peer(x), j, c, d) PROVE FALSE
    <3>1. L(Peer(x), j) \in Nat /\ Rsp(u, Peer(x), L(Peer(x), j), c, d)
      BY <1>0, <1>1, <1>5, <2>4
    <3> QED BY <2>2, <3>1 DEF Alone
  <2> QED BY <2>2, <2>3, <2>4 DEF Alone
<1>8. AnswersOnce(ch, t)
  <2> SUFFICES ASSUME NEW x \in Host, NEW i \in Nat, NEW c \in 0 .. MaxCid, NEW d \in 0 .. MaxCid, Rsp(t, x, i, c, d)
               PROVE  Answering(ch, t, x, i, c, d)
    BY DEF AnswersOnce
  <2>1. L(x, i) \in Nat /\ Rsp(u, x, L(x, i), c, d)
    BY <1>1, <1>5
  <2>2. Answering(ch, u, x, L(x, i), c, d)
    BY <2>1 DEF Handshake, AnswersOnce
  <2>3. ASSUME NEW j \in Nat, NEW e \in 0 .. MaxCid, Rsp(t, x, j, c, e) PROVE j = i
    <3>1. L(x, j) \in Nat /\ Rsp(u, x, L(x, j), c, e)
      BY <1>1, <1>5, <2>3
    <3>2. L(x, j) = L(x, i)
      BY <2>2, <3>1 DEF Answering
    <3> QED BY <1>1, <3>2
  <2>4. ASSUME NEW j \in Nat, L(x, i) < j, Cfg(u, x, j, c) PROVE \E k \in Nat : i < k /\ Cfg(t, x, k, c)
    <3>1. PICK k \in Nat : j = L(x, k) /\ Cfg(t, x, k, c)
      BY <1>6, <2>4
    <3> QED BY <1>1, <2>4, <3>1
  <2> QED BY <2>2, <2>3, <2>4 DEF Answering
<1>9. ConfiguresJoined(ch, t)
  <2> SUFFICES ASSUME NEW x \in Host, NEW i \in Nat, NEW c \in 0 .. MaxCid, Cfg(t, x, i, c)
               PROVE  Configuring(ch, t, x, i, c)
    BY DEF ConfiguresJoined
  <2>1. L(x, i) \in Nat /\ Cfg(u, x, L(x, i), c)
    BY <1>1, <1>5
  <2>2. Configuring(ch, u, x, L(x, i), c)
    BY <2>1 DEF Handshake, ConfiguresJoined
  <2>3. ASSUME NEW j \in Nat, NEW d \in 0 .. MaxCid, j < L(x, i), Rsp(u, x, j, c, d)
        PROVE  \E k \in Nat : k < i /\ Rsp(t, x, k, c, d)
    <3>1. PICK k \in Nat : j = L(x, k) /\ Rsp(t, x, k, c, d)
      BY <1>6, <2>3
    <3> QED BY <1>1, <2>3, <3>1
  <2> QED BY <2>2, <2>3 DEF Configuring
<1>10. AcceptsJoined(ch, t)
  <2> SUFFICES ASSUME NEW x \in Host, NEW i \in Nat, NEW c \in 0 .. MaxCid, Ack(t, x, i, c)
               PROVE  c \in DOMAIN ch[Peer(x)] /\ ~Waits(ch, Peer(x), c)
    BY DEF AcceptsJoined
  <2>1. L(x, i) \in Nat /\ Ack(u, x, L(x, i), c)
    BY <1>1, <1>5
  <2> QED BY <2>1 DEF Handshake, AcceptsJoined
<1>11. WaitsAnswered(ch, t)
  <2> SUFFICES ASSUME NEW x \in Host, NEW c \in DOMAIN ch[x], Waits(ch, x, c)
               PROVE  Awaiting(ch, t, x, c)
    BY DEF WaitsAnswered
  <2>1. Awaiting(ch, u, x, c)
    BY DEF Handshake, WaitsAnswered
  <2> QED BY <2>1, <1>0, <1>6 DEF Awaiting
<1>12. JoinedBack(ch, t)
  <2> SUFFICES ASSUME NEW x \in Host, NEW c \in DOMAIN ch[x], ~Waits(ch, x, c)
               PROVE  Back(ch, t, x, c)
    BY DEF JoinedBack
  <2>1. Back(ch, u, x, c)
    BY DEF Handshake, JoinedBack
  <2> QED BY <2>1, <1>6 DEF Back
<1>13. HalvesDone(ch, t)
  <2> SUFFICES ASSUME NEW x \in Host, NEW c \in DOMAIN ch[x], ~Waits(ch, x, c)
               PROVE  Half(ch, t, x, c)
    BY DEF HalvesDone
  <2>1. Half(ch, u, x, c)
    BY DEF Handshake, HalvesDone
  <2> QED BY <2>1, <1>0, <1>6 DEF Half
<1> QED BY <1>7, <1>8, <1>9, <1>10, <1>11, <1>12, <1>13 DEF Handshake

--------------------------------------------------------------------------------
(* Every handler keeps the handshake. *)

\* The packets host h sent without the first, and those g sent with more.
Less(q, h) == [q EXCEPT ![h] = [i \in DOMAIN q[h] \ {1} |-> q[h][i]]]
More(q, g, out) == [q EXCEPT ![g] = @ \o out]

\* Host s of the peer is about to handle the first packet of h, and has handled it as r.
Facing(ch, q, h, s) ==
  /\ isUp /\ links \in Nat /\ ch \in [Host -> Chans]
  /\ q \in [Host -> Seq(PacketSet)] /\ q[h] # <<>>
  /\ Handshake(ch, q)
  /\ s \in HostSet /\ s.conn = links /\ s.chan = ch[Peer(h)] /\ s.served \subseteq OpenCids(s)

Handles(ch, q, h, s, r) ==
  /\ r.s \in HostSet /\ r.s.conn = s.conn /\ r.s.opens = s.opens /\ r.s.served \subseteq OpenCids(r.s)
  /\ r.out \in Seq(PacketSet)
  /\ \A k \in DOMAIN r.out : r.out[k].handle = links /\ r.out[k].type # "ConnReq"
  /\ \/ DOMAIN r.s.chan \subseteq DOMAIN s.chan
     \/ Head(q[h]).type = "ConnReq" /\ \E d \in Cid : DOMAIN r.s.chan = (DOMAIN s.chan) \cup {d}
  /\ Handshake([ch EXCEPT ![Peer(h)] = r.s.chan], More(Less(q, h), Peer(h), r.out))

\* The first packet, and what its leaving leaves alone.
LEMMA HeadOf ==
  ASSUME NEW q \in [Host -> Seq(PacketSet)], NEW h \in Host, q[h] # <<>>
  PROVE  LET p == Head(q[h])
             v == Less(q, h)
         IN /\ p \in PacketSet /\ 1 \in DOMAIN q[h] /\ q[h][1] = p
            /\ v[Peer(h)] = q[Peer(h)] /\ v[Peer(h)] \in Seq(PacketSet)
            /\ LoseReq(q, v, h) /\ LoseRsp(q, v, h) /\ LoseCfg(q, v, h) /\ LoseAck(q, v, h)
            /\ DOMAIN v = Host
            /\ p.type # "ConnReq" => SameReq(q, v)
            /\ p.type # "ConnRsp" => SameRsp(q, v)
            /\ p.type # "ConfReq" => SameCfg(q, v)
            /\ p.type # "ConfRsp" => SameAck(q, v)
<1> DEFINE p == Head(q[h])
           v == Less(q, h)
<1>1. q[h] \in Seq(PacketSet) /\ Peer(h) \in Host /\ Peer(h) # h /\ q[Peer(h)] \in Seq(PacketSet)
  BY HostFacts
<1>2. 1 \in DOMAIN q[h] /\ p = q[h][1] /\ p \in PacketSet
  <2> DEFINE s == q[h]
  <2> HIDE DEF s
  <2>1. s \in Seq(PacketSet) /\ s # <<>>
    BY <1>1 DEF s
  <2>2. 1 \in DOMAIN s /\ Head(s) = s[1] /\ s[1] \in PacketSet
    BY <2>1, QueueTail
  <2> QED BY <2>2 DEF s
<1>3. v[h] = [i \in DOMAIN q[h] \ {1} |-> q[h][i]] /\ (\A x \in Host : x # h => v[x] = q[x]) /\ DOMAIN v = Host
  BY DEF Less
<1> HIDE DEF v, p
<1>4. LoseReq(q, v, h) /\ LoseRsp(q, v, h) /\ LoseCfg(q, v, h) /\ LoseAck(q, v, h)
  BY <1>3, HeadTaken
<1>5. p.type # "ConnReq" => \A i, c, m : ~(i = 1 /\ Req(q, h, i, c, m))
  BY <1>2 DEF Req
<1>6. p.type # "ConnRsp" => \A i, c, d : ~(i = 1 /\ Rsp(q, h, i, c, d))
  BY <1>2 DEF Rsp
<1>7. p.type # "ConfReq" => \A i, c : ~(i = 1 /\ Cfg(q, h, i, c))
  BY <1>2 DEF Cfg
<1>8. p.type # "ConfRsp" => \A i, c : ~(i = 1 /\ Ack(q, h, i, c))
  BY <1>2 DEF Ack
<1>9. p.type # "ConnReq" => SameReq(q, v)
  BY <1>4, <1>5 DEF SameReq, LoseReq
<1>10. p.type # "ConnRsp" => SameRsp(q, v)
  BY <1>4, <1>6 DEF SameRsp, LoseRsp
<1>11. p.type # "ConfReq" => SameCfg(q, v)
  BY <1>4, <1>7 DEF SameCfg, LoseCfg
<1>12. p.type # "ConfRsp" => SameAck(q, v)
  BY <1>4, <1>8 DEF SameAck, LoseAck
<1> QED BY <1>1, <1>2, <1>3, <1>4, <1>9, <1>10, <1>11, <1>12 DEF v, p

\* Sending nothing, one packet, and two.
LEMMA MoreNone ==
  ASSUME NEW v, NEW g \in Host, v[g] \in Seq(PacketSet), NEW u, u = More(v, g, <<>>), DOMAIN v = Host
  PROVE  \A x \in Host : u[x] = v[x]
<1>1. v[g] \o <<>> = v[g]
  OBVIOUS
<1> QED BY <1>1 DEF More

\* The same queues say the same.
LEMMA MoreSame ==
  ASSUME NEW v, NEW u, \A x \in Host : u[x] = v[x]
  PROVE  SameReq(v, u) /\ SameRsp(v, u) /\ SameCfg(v, u) /\ SameAck(v, u)
BY DEF SameReq, SameRsp, SameCfg, SameAck, Req, Rsp, Cfg, Ack

\* Data is nothing to the handshake.
LEMMA DataHandled ==
  ASSUME NEW ch, NEW q, NEW h \in Host, NEW s, Facing(ch, q, h, s), Head(q[h]).type = "Data"
  PROVE  Handles(ch, q, h, s, [s |-> s, out |-> <<>>])
<1> DEFINE g == Peer(h)
           v == Less(q, h)
           u == More(v, g, <<>>)
<1>1. g \in Host /\ g # h
  BY HostFacts
<1>2. /\ v[g] \in Seq(PacketSet) /\ DOMAIN v = Host
      /\ SameReq(q, v) /\ SameRsp(q, v) /\ SameCfg(q, v) /\ SameAck(q, v)
  BY HeadOf DEF Facing, Less
<1> HIDE DEF v
<1>3. SameReq(v, u) /\ SameRsp(v, u) /\ SameCfg(v, u) /\ SameAck(v, u)
  BY <1>1, <1>2, MoreNone, MoreSame
<1> HIDE DEF u
<1>4. SameReq(q, u) /\ SameRsp(q, u) /\ SameCfg(q, u) /\ SameAck(q, u)
  BY <1>2, <1>3 DEF SameReq, SameRsp, SameCfg, SameAck
<1>5. Handshake(ch, u)
  BY <1>4, Unconcerned DEF Facing
<1>6. [ch EXCEPT ![g] = s.chan] = ch
  BY <1>1 DEF Facing
<1>7. <<>> \in Seq(PacketSet) /\ DOMAIN <<>> = {}
  OBVIOUS
<1> QED BY <1>5, <1>6, <1>7 DEF Facing, Handles, u, v

\* The fields of a packet.
LEMMA PacketFields ==
  ASSUME NEW p \in PacketSet
  PROVE  /\ p.handle \in Nat /\ p.dst \in 0 .. MaxCid /\ p.body.psm \in Psms /\ p.body.src \in 0 .. MaxCid
         /\ p.body = [psm |-> p.body.psm, src |-> p.body.src]
         /\ p.type \in {"ConnReq", "ConnRsp", "ConfReq", "ConfRsp", "Data"}
         /\ p.body \in [psm : Psms, src : 0 .. MaxCid]
BY DEF PacketSet

\* The channels of both hosts after a change of one host's.
LEMMA ChansWith ==
  ASSUME NEW ch \in [Host -> Chans], NEW g \in Host, NEW chan \in Chans, NEW ch2, ch2 = [ch EXCEPT ![g] = chan]
  PROVE  ch2 \in [Host -> Chans] /\ ch2[g] = chan /\ \A x \in Host : x # g => ch2[x] = ch[x]
OBVIOUS

\* One packet is sent after the first of the other host was taken.
LEMMA OneMore ==
  ASSUME NEW q, NEW g \in Host, q[g] \in Seq(PacketSet), DOMAIN q = Host, NEW p \in PacketSet
  PROVE  LET u == More(q, g, <<p>>)
             n == Len(q[g]) + 1
         IN /\ n \in Nat /\ u[g] \in Seq(PacketSet) /\ Len(u[g]) = n /\ DOMAIN u = Host
            /\ IF p.type = "ConnReq" THEN GainReq(q, u, g, n, p.body.src, p.body.psm) ELSE SameReq(q, u)
            /\ IF p.type = "ConnRsp" THEN GainRsp(q, u, g, n, p.dst, p.body.src) ELSE SameRsp(q, u)
            /\ IF p.type = "ConfReq" THEN GainCfg(q, u, g, n, p.dst) ELSE SameCfg(q, u)
            /\ IF p.type = "ConfRsp" THEN GainAck(q, u, g, n, p.dst) ELSE SameAck(q, u)
<1> DEFINE u == More(q, g, <<p>>)
           n == Len(q[g]) + 1
<1>1. u[g] = q[g] \o <<p>> /\ (\A x \in Host : x # g => u[x] = q[x]) /\ DOMAIN u = Host
  BY DEF More
<1> HIDE DEF u
<1>2. /\ u[g] \in Seq(PacketSet) /\ Len(u[g]) = n /\ n \in Nat
      /\ IF p.type = "ConnReq" THEN GainReq(q, u, g, n, p.body.src, p.body.psm) ELSE SameReq(q, u)
      /\ IF p.type = "ConnRsp" THEN GainRsp(q, u, g, n, p.dst, p.body.src) ELSE SameRsp(q, u)
      /\ IF p.type = "ConfReq" THEN GainCfg(q, u, g, n, p.dst) ELSE SameCfg(q, u)
      /\ IF p.type = "ConfRsp" THEN GainAck(q, u, g, n, p.dst) ELSE SameAck(q, u)
  BY <1>1, Appended
<1> QED BY <1>1, <1>2 DEF u

\* What is the same twice is the same, and what is the same before or after a change changes so.
LEMMA SameThen ==
  ASSUME NEW q, NEW v, NEW u
  PROVE  /\ SameReq(q, v) /\ SameReq(v, u) => SameReq(q, u)
         /\ SameRsp(q, v) /\ SameRsp(v, u) => SameRsp(q, u)
         /\ SameCfg(q, v) /\ SameCfg(v, u) => SameCfg(q, u)
         /\ SameAck(q, v) /\ SameAck(v, u) => SameAck(q, u)
         /\ \A h : LoseReq(q, v, h) /\ SameReq(v, u) => LoseReq(q, u, h)
         /\ \A h : LoseRsp(q, v, h) /\ SameRsp(v, u) => LoseRsp(q, u, h)
         /\ \A h : LoseCfg(q, v, h) /\ SameCfg(v, u) => LoseCfg(q, u, h)
         /\ \A h : LoseAck(q, v, h) /\ SameAck(v, u) => LoseAck(q, u, h)
         /\ \A h, n, c, d : SameReq(q, v) /\ GainReq(v, u, h, n, c, d) => GainReq(q, u, h, n, c, d)
         /\ \A h, n, c, d : SameRsp(q, v) /\ GainRsp(v, u, h, n, c, d) => GainRsp(q, u, h, n, c, d)
         /\ \A h, n, c : SameCfg(q, v) /\ GainCfg(v, u, h, n, c) => GainCfg(q, u, h, n, c)
         /\ \A h, n, c : SameAck(q, v) /\ GainAck(v, u, h, n, c) => GainAck(q, u, h, n, c)
         /\ \A h, n, c, d : GainRsp(q, v, h, n, c, d) /\ SameRsp(v, u) => GainRsp(q, u, h, n, c, d)
<1>1. /\ SameReq(q, v) /\ SameReq(v, u) => SameReq(q, u)
      /\ SameRsp(q, v) /\ SameRsp(v, u) => SameRsp(q, u)
      /\ SameCfg(q, v) /\ SameCfg(v, u) => SameCfg(q, u)
      /\ SameAck(q, v) /\ SameAck(v, u) => SameAck(q, u)
  BY DEF SameReq, SameRsp, SameCfg, SameAck
<1>2. /\ \A h : LoseReq(q, v, h) /\ SameReq(v, u) => LoseReq(q, u, h)
      /\ \A h : LoseRsp(q, v, h) /\ SameRsp(v, u) => LoseRsp(q, u, h)
      /\ \A h : LoseCfg(q, v, h) /\ SameCfg(v, u) => LoseCfg(q, u, h)
      /\ \A h : LoseAck(q, v, h) /\ SameAck(v, u) => LoseAck(q, u, h)
  BY DEF SameReq, SameRsp, SameCfg, SameAck, LoseReq, LoseRsp, LoseCfg, LoseAck
<1>3. /\ \A h, n, c, d : SameReq(q, v) /\ GainReq(v, u, h, n, c, d) => GainReq(q, u, h, n, c, d)
      /\ \A h, n, c, d : SameRsp(q, v) /\ GainRsp(v, u, h, n, c, d) => GainRsp(q, u, h, n, c, d)
      /\ \A h, n, c, d : GainRsp(q, v, h, n, c, d) /\ SameRsp(v, u) => GainRsp(q, u, h, n, c, d)
  BY DEF SameReq, SameRsp, GainReq, GainRsp
<1>4. /\ \A h, n, c : SameCfg(q, v) /\ GainCfg(v, u, h, n, c) => GainCfg(q, u, h, n, c)
      /\ \A h, n, c : SameAck(q, v) /\ GainAck(v, u, h, n, c) => GainAck(q, u, h, n, c)
  BY DEF SameCfg, SameAck, GainCfg, GainAck
<1> QED BY <1>1, <1>2, <1>3, <1>4

\* What is known when packet p arrives from h at host s of g, before v leaves out p.
Known(ch, q, h, s, g, v, p) ==
  /\ g \in Host /\ g = Peer(h) /\ g # h /\ h = Peer(g)
  /\ isUp /\ links \in Nat /\ ch \in [Host -> Chans] /\ Handshake(ch, q)
  /\ s \in HostSet /\ s.conn = links /\ s.chan = ch[g] /\ s.chan \in Chans
  /\ s.served \subseteq OpenCids(s)
  /\ p \in PacketSet /\ p.dst \in 0 .. MaxCid /\ p.body.psm \in Psms /\ p.body.src \in 0 .. MaxCid
  /\ p.body = [psm |-> p.body.psm, src |-> p.body.src]
  /\ p.body \in [psm : Psms, src : 0 .. MaxCid]
  /\ v[g] \in Seq(PacketSet) /\ DOMAIN v = Host
  /\ p.type = "ConnReq" => Req(q, h, 1, p.body.src, p.body.psm)
  /\ p.type = "ConnRsp" => Rsp(q, h, 1, p.dst, p.body.src)
  /\ p.type = "ConfReq" => Cfg(q, h, 1, p.dst)
  /\ p.type = "ConfRsp" => Ack(q, h, 1, p.dst)

\* The first packet of h, taken apart.
LEMMA Faced ==
  ASSUME NEW ch, NEW q, NEW h \in Host, NEW s, Facing(ch, q, h, s)
  PROVE  Known(ch, q, h, s, Peer(h), Less(q, h), Head(q[h]))
<1> DEFINE g == Peer(h)
           v == Less(q, h)
           p == Head(q[h])
<1>1. g \in Host /\ g # h /\ h = Peer(g)
  BY HostFacts
<1>2. /\ isUp /\ links \in Nat /\ ch \in [Host -> Chans] /\ q \in [Host -> Seq(PacketSet)] /\ q[h] # <<>>
      /\ Handshake(ch, q) /\ s \in HostSet /\ s.conn = links /\ s.chan = ch[g] /\ s.served \subseteq OpenCids(s)
  BY DEF Facing
<1>3. p \in PacketSet /\ 1 \in DOMAIN q[h] /\ q[h][1] = p /\ v[g] \in Seq(PacketSet) /\ DOMAIN v = Host
  BY <1>1, <1>2, HeadOf
<1>4. /\ p.dst \in 0 .. MaxCid /\ p.body.psm \in Psms /\ p.body.src \in 0 .. MaxCid
      /\ p.body = [psm |-> p.body.psm, src |-> p.body.src] /\ p.body \in [psm : Psms, src : 0 .. MaxCid]
  BY <1>3, PacketFields
<1>5. s.chan \in Chans
  BY <1>2, HostFields
<1>g. g = Peer(h)
  OBVIOUS
<1> HIDE DEF p, v, g
<1>6. /\ p.type = "ConnReq" => Req(q, h, 1, p.body.src, p.body.psm)
      /\ p.type = "ConnRsp" => Rsp(q, h, 1, p.dst, p.body.src)
      /\ p.type = "ConfReq" => Cfg(q, h, 1, p.dst)
      /\ p.type = "ConfRsp" => Ack(q, h, 1, p.dst)
  BY <1>3, <1>4, Zenon DEF Req, Rsp, Cfg, Ack
<1>7. Known(ch, q, h, s, g, v, p)
  BY <1>g, <1>1, <1>2, <1>3, <1>4, <1>5, <1>6 DEF Known
<1> QED BY <1>7 DEF p, v, g

\* A channel of s changes: what is served stays open when the channel does.
LEMMA StillServed ==
  ASSUME NEW s \in HostSet, NEW t, t.served = s.served, s.served \subseteq OpenCids(s),
         NEW c, \A e \in DOMAIN s.chan : e # c => e \in DOMAIN t.chan /\ t.chan[e] = s.chan[e],
         c \in OpenCids(s) => c \in OpenCids(t)
  PROVE  t.served \subseteq OpenCids(t)
<1> SUFFICES ASSUME NEW e \in s.served PROVE e \in OpenCids(t)
  OBVIOUS
<1>1. e \in DOMAIN s.chan /\ s.chan[e].state = "Open"
  BY DEF OpenCids
<1> QED BY <1>1 DEF OpenCids

\* Packets are numbered from 1.
LEMMA NoRsp0 ==
  ASSUME NEW q \in [Host -> Seq(PacketSet)], NEW h \in Host
  PROVE  \A e, d : ~Rsp(q, h, 0, e, d)
<1> DEFINE z == q[h]
<1>1. z \in Seq(PacketSet)
  OBVIOUS
<1> HIDE DEF z
<1>2. 0 \notin DOMAIN z
  BY <1>1
<1> QED BY <1>2 DEF Rsp, z

\* A configuration taken keeps all else of a channel, and opens it with both halves done.
LEMMA Opening ==
  ASSUME NEW old \in ChannelSet
  PROVE  /\ LET new == MaybeOpen([old EXCEPT !.remoteDone = TRUE])
            IN /\ new \in ChannelSet /\ new.peer = old.peer /\ new.psm = old.psm /\ new.remoteDone
               /\ new.localDone = old.localDone /\ (new.localDone => new.state = "Open")
               /\ new.state = old.state \/ new.state = "Open"
         /\ LET new == MaybeOpen([old EXCEPT !.localDone = TRUE])
            IN /\ new \in ChannelSet /\ new.peer = old.peer /\ new.psm = old.psm /\ new.localDone
               /\ new.remoteDone = old.remoteDone /\ (new.remoteDone => new.state = "Open")
               /\ new.state = old.state \/ new.state = "Open"
BY DEF ChannelSet, MaybeOpen, State

\* A host with its channel c changed.
Becomes(ch, ch2, g, s, t, c, new) ==
  t = [s EXCEPT !.chan = [s.chan EXCEPT ![c] = new]] /\ ch2 = [ch EXCEPT ![g] = t.chan]

\* Changing one channel, open ones staying open, keeps the host's type and what it serves.
LEMMA ChangedHost ==
  ASSUME NEW ch \in [Host -> Chans], NEW g \in Host, NEW s \in HostSet, s.chan = ch[g],
         NEW c \in DOMAIN s.chan, NEW new \in ChannelSet, new.psm = s.chan[c].psm,
         s.served \subseteq OpenCids(s), s.chan[c].state = "Open" => new.state = "Open",
         NEW t, NEW ch2, Becomes(ch, ch2, g, s, t, c, new)
  PROVE  /\ t \in HostSet /\ t.conn = s.conn /\ t.opens = s.opens /\ t.served \subseteq OpenCids(t)
         /\ DOMAIN t.chan = DOMAIN s.chan /\ t.chan[c] = new
         /\ ch2 \in [Host -> Chans] /\ Alters(ch, ch2, g, c) /\ ch2[g][c] = new
<1> DEFINE chan == [s.chan EXCEPT ![c] = new]
<1>1. s.chan \in Chans
  BY HostFields
<1>2. /\ chan \in Chans /\ DOMAIN chan = DOMAIN s.chan /\ chan[c] = new
      /\ \A e \in DOMAIN s.chan : e # c => chan[e] = s.chan[e]
  BY <1>1, ChanChange
<1>3. t = [s EXCEPT !.chan = chan] /\ ch2 = [ch EXCEPT ![g] = t.chan]
  BY DEF Becomes
<1> HIDE DEF chan
<1>4. t \in HostSet
  <2>1. chan \in Chans
    BY <1>2
  <2>2. [s EXCEPT !.chan = chan] \in HostSet
    BY <2>1, HostChanges
  <2> QED BY <1>3, <2>2
<1>5. t.conn = s.conn /\ t.opens = s.opens /\ t.served = s.served /\ t.chan = chan
  BY <1>3 DEF HostSet
<1>6. c \in OpenCids(s) => c \in OpenCids(t)
  BY <1>2, <1>5 DEF OpenCids
<1>7. t.served \subseteq OpenCids(t)
  BY <1>2, <1>5, <1>6, StillServed
<1>8. ch2 \in [Host -> Chans] /\ ch2[g] = chan /\ \A x \in Host : x # g => ch2[x] = ch[x]
  BY <1>2, <1>3, <1>5, ChansWith
<1>9. Alters(ch, ch2, g, c)
  BY <1>2, <1>8 DEF Alters
<1> QED BY <1>2, <1>4, <1>5, <1>7, <1>8, <1>9

\* One answer, of this link, that asks for nothing.
LEMMA OneOut ==
  ASSUME NEW p \in PacketSet, p.handle = links, p.type # "ConnReq"
  PROVE  /\ <<p>> \in Seq(PacketSet)
         /\ \A k \in DOMAIN <<p>> : <<p>>[k].handle = links /\ <<p>>[k].type # "ConnReq"
<1>1. <<p>> \in Seq(PacketSet) /\ \A k \in DOMAIN <<p>> : <<p>>[k] = p
  OBVIOUS
<1> QED BY <1>1

\* Configuration Request: taken by a channel that is there, and accepted.
LEMMA ConfReqHandled ==
  ASSUME NEW ch, NEW q, NEW h \in Host, NEW s, Facing(ch, q, h, s), Head(q[h]).type = "ConfReq"
  PROVE  Handles(ch, q, h, s, OnConfigurationRequest(s, Head(q[h])))
<1> DEFINE g == Peer(h)
           p == Head(q[h])
           v == Less(q, h)
           c == p.dst
           r == OnConfigurationRequest(s, p)
<1>0. Known(ch, q, h, s, g, v, p) /\ p.type = "ConfReq"
  BY Faced
<1>2. SameReq(q, v) /\ SameRsp(q, v) /\ LoseCfg(q, v, h) /\ SameAck(q, v)
  BY HeadOf DEF Facing
<1>3. \A e, d : ~Rsp(q, h, 0, e, d)
  BY NoRsp0 DEF Facing
<1> HIDE DEF p, v, g
<1>1. /\ g \in Host /\ g = Peer(h) /\ g # h /\ h = Peer(g)
      /\ isUp /\ links \in Nat /\ ch \in [Host -> Chans] /\ Handshake(ch, q)
      /\ s \in HostSet /\ s.conn = links /\ s.chan = ch[g] /\ s.served \subseteq OpenCids(s)
      /\ c \in 0 .. MaxCid /\ p.body \in [psm : Psms, src : 0 .. MaxCid]
      /\ v[g] \in Seq(PacketSet) /\ DOMAIN v = Host
      /\ p.type = "ConfReq" /\ Cfg(q, h, 1, c)
  BY <1>0 DEF Known
<1>4. c \in DOMAIN ch[g] /\ ~Waits(ch, g, c)
  <2>1. Configuring(ch, q, h, 1, c)
    BY <1>1 DEF Handshake, ConfiguresJoined
  <2>2. c \in DOMAIN ch[g]
    BY <2>1 DEF Configuring, Joined, g
  <2>3. ASSUME NEW j \in Nat, NEW d, Rsp(q, h, j, c, d), j < 1 PROVE FALSE
    <3>1. j = 0
      BY <2>3
    <3> QED BY <1>3, <2>3, <3>1
  <2> QED BY <2>1, <2>2, <2>3 DEF Configuring, g
<1> DEFINE old == s.chan[c]
           new == MaybeOpen([old EXCEPT !.remoteDone = TRUE])
           ch2 == [ch EXCEPT ![g] = r.s.chan]
           out == [handle |-> links, type |-> "ConfRsp", dst |-> old.peer, body |-> p.body]
           u == More(v, g, <<out>>)
           n == Len(v[g]) + 1
<1>5. r.s = [s EXCEPT !.chan = [s.chan EXCEPT ![c] = new]] /\ r.out = <<out>>
  BY <1>1, <1>4 DEF OnConfigurationRequest, Packet
<1>6. old \in ChannelSet /\ old = ch[g][c] /\ c \in DOMAIN s.chan /\ old.peer \in 0 .. MaxCid
  <2> HIDE DEF c
  <2>1. ch[g][c] \in ChannelSet /\ ch[g][c].peer \in 0 .. MaxCid
    BY <1>1, <1>4, ChansType
  <2> QED BY <1>1, <1>4, <2>1
<1>7. /\ new \in ChannelSet /\ new.peer = old.peer /\ new.psm = old.psm /\ new.remoteDone
      /\ new.localDone = old.localDone /\ (new.localDone => new.state = "Open")
      /\ new.state = old.state \/ new.state = "Open"
  BY <1>6, Opening
<1>8. old.state # "WaitConnectRsp" /\ new.state # "WaitConnectRsp" /\ (old.state = "Open" => new.state = "Open")
  BY <1>4, <1>6, <1>7 DEF Waits
<1>9. out \in PacketSet /\ out.type = "ConfRsp" /\ out.dst = old.peer /\ out.handle = links
  BY <1>1, <1>6 DEF PacketSet
<1> HIDE DEF out, new, r
<1>10. /\ r.s \in HostSet /\ r.s.conn = s.conn /\ r.s.opens = s.opens /\ r.s.served \subseteq OpenCids(r.s)
       /\ DOMAIN r.s.chan = DOMAIN s.chan
       /\ ch2 \in [Host -> Chans] /\ Alters(ch, ch2, g, c) /\ ch2[g][c] = new
  <2>1. new.psm = s.chan[c].psm /\ (s.chan[c].state = "Open" => new.state = "Open")
    BY <1>6, <1>7, <1>8
  <2>2. /\ g \in Host /\ ch \in [Host -> Chans] /\ s \in HostSet /\ s.chan = ch[g] /\ s.served \subseteq OpenCids(s)
        /\ c \in DOMAIN s.chan /\ new \in ChannelSet
    BY <1>1, <1>6, <1>7
  <2>3. Becomes(ch, ch2, g, s, r.s, c, new)
    BY <1>5 DEF Becomes
  <2> HIDE DEF c, old, ch2
  <2> QED BY <2>1, <2>2, <2>3, ChangedHost
<1> HIDE DEF ch2
<1>11. n \in Nat /\ SameReq(v, u) /\ SameRsp(v, u) /\ SameCfg(v, u) /\ GainAck(v, u, g, n, old.peer)
  BY <1>1, <1>9, OneMore
<1> HIDE DEF u, n
<1>12. SameReq(q, u) /\ SameRsp(q, u) /\ LoseCfg(q, u, h) /\ GainAck(q, u, g, n, old.peer)
  BY <1>2, <1>11, SameThen
<1>13. Handshake(ch2, u)
  <2>1. /\ ch2[g][c].peer = old.peer /\ (ch2[g][c].state = "WaitConnectRsp" <=> ch[g][c].state = "WaitConnectRsp")
        /\ ch2[g][c].localDone = ch[g][c].localDone /\ ch2[g][c].remoteDone
        /\ (ch2[g][c].localDone => ch2[g][c].state = "Open") /\ old.peer = ch[g][c].peer
    BY <1>6, <1>7, <1>8, <1>10
  <2> HIDE DEF old, c
  <2> QED BY <1>1, <1>3, <1>10, <1>11, <1>12, <2>1, Configured
<1>14. r.out \in Seq(PacketSet) /\ \A k \in DOMAIN r.out : r.out[k].handle = links /\ r.out[k].type # "ConnReq"
  BY <1>5, <1>9, OneOut
<1> QED BY <1>5, <1>10, <1>13, <1>14 DEF Handles, u, v, g, p, ch2, r

\* Configuration Response: the other half.
LEMMA ConfRspHandled ==
  ASSUME NEW ch, NEW q, NEW h \in Host, NEW s, Facing(ch, q, h, s), Head(q[h]).type = "ConfRsp"
  PROVE  Handles(ch, q, h, s, OnConfigurationResponse(s, Head(q[h])))
<1> DEFINE g == Peer(h)
           p == Head(q[h])
           v == Less(q, h)
           c == p.dst
           r == OnConfigurationResponse(s, p)
<1>0. Known(ch, q, h, s, g, v, p) /\ p.type = "ConfRsp"
  BY Faced
<1>2. SameReq(q, v) /\ SameRsp(q, v) /\ SameCfg(q, v) /\ LoseAck(q, v, h)
  BY HeadOf DEF Facing
<1> HIDE DEF p, v, g
<1>1. /\ g \in Host /\ g = Peer(h) /\ g # h /\ h = Peer(g)
      /\ isUp /\ links \in Nat /\ ch \in [Host -> Chans] /\ Handshake(ch, q)
      /\ s \in HostSet /\ s.conn = links /\ s.chan = ch[g] /\ s.served \subseteq OpenCids(s)
      /\ c \in 0 .. MaxCid
      /\ v[g] \in Seq(PacketSet) /\ DOMAIN v = Host
      /\ p.type = "ConfRsp" /\ Ack(q, h, 1, c)
  BY <1>0 DEF Known
<1>4. c \in DOMAIN ch[g] /\ ~Waits(ch, g, c)
  BY <1>1 DEF Handshake, AcceptsJoined, g
<1> DEFINE old == s.chan[c]
           new == MaybeOpen([old EXCEPT !.localDone = TRUE])
           ch2 == [ch EXCEPT ![g] = r.s.chan]
           u == More(v, g, <<>>)
<1>5. r.s = [s EXCEPT !.chan = [s.chan EXCEPT ![c] = new]] /\ r.out = <<>>
  BY <1>1, <1>4 DEF OnConfigurationResponse
<1>6. old \in ChannelSet /\ old = ch[g][c] /\ c \in DOMAIN s.chan
  BY <1>1, <1>4, ChansType
<1>7. /\ new \in ChannelSet /\ new.peer = old.peer /\ new.psm = old.psm /\ new.localDone
      /\ new.remoteDone = old.remoteDone /\ (new.remoteDone => new.state = "Open")
      /\ new.state = old.state \/ new.state = "Open"
  BY <1>6, Opening
<1>8. old.state # "WaitConnectRsp" /\ new.state # "WaitConnectRsp" /\ (old.state = "Open" => new.state = "Open")
  BY <1>4, <1>6, <1>7 DEF Waits
<1> HIDE DEF new, r
<1>10. /\ r.s \in HostSet /\ r.s.conn = s.conn /\ r.s.opens = s.opens /\ r.s.served \subseteq OpenCids(r.s)
       /\ DOMAIN r.s.chan = DOMAIN s.chan
       /\ ch2 \in [Host -> Chans] /\ Alters(ch, ch2, g, c) /\ ch2[g][c] = new
  <2>1. new.psm = s.chan[c].psm /\ (s.chan[c].state = "Open" => new.state = "Open")
    BY <1>6, <1>7, <1>8
  <2>2. /\ g \in Host /\ ch \in [Host -> Chans] /\ s \in HostSet /\ s.chan = ch[g] /\ s.served \subseteq OpenCids(s)
        /\ c \in DOMAIN s.chan /\ new \in ChannelSet
    BY <1>1, <1>6, <1>7
  <2>3. Becomes(ch, ch2, g, s, r.s, c, new)
    BY <1>5 DEF Becomes
  <2> HIDE DEF c, old, ch2
  <2> QED BY <2>1, <2>2, <2>3, ChangedHost
<1> HIDE DEF ch2
<1>11. SameReq(v, u) /\ SameRsp(v, u) /\ SameCfg(v, u) /\ SameAck(v, u)
  BY <1>1, MoreNone, MoreSame
<1> HIDE DEF u
<1>12. SameReq(q, u) /\ SameRsp(q, u) /\ SameCfg(q, u) /\ LoseAck(q, u, h)
  BY <1>2, <1>11, SameThen
<1>13. Handshake(ch2, u)
  <2>1. /\ ch2[g][c].peer = ch[g][c].peer
        /\ (ch2[g][c].state = "WaitConnectRsp" <=> ch[g][c].state = "WaitConnectRsp")
        /\ ch2[g][c].remoteDone = ch[g][c].remoteDone /\ ch2[g][c].localDone
        /\ (ch2[g][c].remoteDone => ch2[g][c].state = "Open")
    BY <1>6, <1>7, <1>8, <1>10
  <2> HIDE DEF old, c
  <2> QED BY <1>1, <1>10, <1>12, <2>1, Accepted
<1>14. <<>> \in Seq(PacketSet) /\ DOMAIN <<>> = {}
  OBVIOUS
<1> QED BY <1>5, <1>10, <1>13, <1>14 DEF Handles, u, v, g, p, ch2, r

\* Connection Response that refuses: the channel is dropped.
LEMMA RefusalHandled ==
  ASSUME NEW ch, NEW q, NEW h \in Host, NEW s, Facing(ch, q, h, s), Head(q[h]).type = "ConnRsp",
         Head(q[h]).body.src = 0
  PROVE  Handles(ch, q, h, s, OnConnectionResponse(s, Head(q[h])))
<1> DEFINE g == Peer(h)
           p == Head(q[h])
           v == Less(q, h)
           c == p.dst
           r == OnConnectionResponse(s, p)
<1>0. Known(ch, q, h, s, g, v, p) /\ p.type = "ConnRsp" /\ p.body.src = 0
  BY Faced
<1>2. SameReq(q, v) /\ LoseRsp(q, v, h) /\ SameCfg(q, v) /\ SameAck(q, v)
  BY HeadOf DEF Facing
<1> HIDE DEF p, v, g
<1>1. /\ g \in Host /\ g = Peer(h) /\ g # h /\ h = Peer(g)
      /\ isUp /\ links \in Nat /\ ch \in [Host -> Chans] /\ Handshake(ch, q)
      /\ s \in HostSet /\ s.conn = links /\ s.chan = ch[g] /\ s.served \subseteq OpenCids(s)
      /\ c \in 0 .. MaxCid /\ v[g] \in Seq(PacketSet) /\ DOMAIN v = Host /\ Rsp(q, h, 1, c, 0)
      /\ s.chan \in Chans
  BY <1>0 DEF Known
<1>4. Waits(ch, g, c)
  BY <1>0, <1>1, AnswerOf DEF Known
<1> DEFINE chan == Without(s.chan, c)
           ch2 == [ch EXCEPT ![g] = r.s.chan]
           u == More(v, g, <<>>)
<1>5. r.s = [s EXCEPT !.chan = chan] /\ r.out = <<>>
  BY <1>0 DEF OnConnectionResponse
<1> HIDE DEF r
<1>6. /\ chan \in Chans /\ DOMAIN chan = DOMAIN s.chan \ {c}
      /\ \A e \in (DOMAIN s.chan) \ {c} : chan[e] = s.chan[e]
  BY <1>1, ChanWithout
<1> HIDE DEF chan
<1>7. r.s \in HostSet
  <2>1. [s EXCEPT !.chan = chan] \in HostSet
    BY <1>1, <1>6, HostChanges
  <2> QED BY <1>5, <2>1
<1>8. r.s.conn = s.conn /\ r.s.opens = s.opens /\ r.s.served = s.served /\ r.s.chan = chan
  BY <1>1, <1>5 DEF HostSet
<1>9. r.s.served \subseteq OpenCids(r.s)
  <2> SUFFICES ASSUME NEW e \in s.served PROVE e \in DOMAIN chan /\ chan[e].state = "Open"
    BY <1>8 DEF OpenCids
  <2>1. e \in DOMAIN s.chan /\ s.chan[e].state = "Open"
    BY <1>1 DEF OpenCids
  <2>2. e # c
    BY <1>1, <1>4, <2>1 DEF Waits
  <2> QED BY <1>6, <2>1, <2>2
<1>10. ch2 \in [Host -> Chans] /\ ch2[g] = chan /\ \A x \in Host : x # g => ch2[x] = ch[x]
  BY <1>1, <1>6, <1>8, ChansWith
<1> HIDE DEF ch2
<1>11. Drops(ch, ch2, g, c)
  BY <1>1, <1>6, <1>10 DEF Drops
<1>12. SameReq(v, u) /\ SameRsp(v, u) /\ SameCfg(v, u) /\ SameAck(v, u)
  BY <1>1, MoreNone, MoreSame
<1> HIDE DEF u
<1>13. SameReq(q, u) /\ LoseRsp(q, u, h) /\ SameCfg(q, u) /\ SameAck(q, u)
  BY <1>2, <1>12, SameThen
<1>14. Handshake(ch2, u)
  <2> HIDE DEF c
  <2> QED BY <1>1, <1>10, <1>11, <1>13, AnswerRefused
<1>15. <<>> \in Seq(PacketSet) /\ DOMAIN <<>> = {}
  OBVIOUS
<1>16. DOMAIN r.s.chan \subseteq DOMAIN s.chan
  BY <1>6, <1>8
<1> QED BY <1>5, <1>7, <1>8, <1>9, <1>14, <1>15, <1>16 DEF Handles, u, v, g, p, ch2, r

\* Connection Response that accepts: the channel asks for its configuration.
LEMMA AnswerHandled ==
  ASSUME NEW ch, NEW q, NEW h \in Host, NEW s, Facing(ch, q, h, s), Head(q[h]).type = "ConnRsp",
         Head(q[h]).body.src # 0
  PROVE  Handles(ch, q, h, s, OnConnectionResponse(s, Head(q[h])))
<1> DEFINE g == Peer(h)
           p == Head(q[h])
           v == Less(q, h)
           c == p.dst
           d == p.body.src
           r == OnConnectionResponse(s, p)
<1>0. Known(ch, q, h, s, g, v, p) /\ p.type = "ConnRsp" /\ d # 0
  BY Faced
<1>2. SameReq(q, v) /\ LoseRsp(q, v, h) /\ SameCfg(q, v) /\ SameAck(q, v)
  BY HeadOf DEF Facing
<1> HIDE DEF p, v, g
<1>1. /\ g \in Host /\ g = Peer(h) /\ g # h /\ h = Peer(g)
      /\ isUp /\ links \in Nat /\ ch \in [Host -> Chans] /\ Handshake(ch, q)
      /\ s \in HostSet /\ s.conn = links /\ s.chan = ch[g] /\ s.served \subseteq OpenCids(s)
      /\ c \in 0 .. MaxCid /\ v[g] \in Seq(PacketSet) /\ DOMAIN v = Host /\ Rsp(q, h, 1, c, d)
      /\ d \in 0 .. MaxCid
  BY <1>0 DEF Known
<1>3. d \in Cid
  BY <1>0, <1>1, HostAssumption DEF Cid
<1>4. Waits(ch, g, c) /\ c \in DOMAIN ch[g] /\ ch[g][c].peer = 0
  BY <1>1, AnswerOf DEF Waits
<1> DEFINE old == s.chan[c]
           new == [old EXCEPT !.peer = d, !.state = "WaitConfig"]
           ch2 == [ch EXCEPT ![g] = r.s.chan]
           out == [handle |-> links, type |-> "ConfReq", dst |-> d, body |-> [psm |-> old.psm, src |-> c]]
           u == More(v, g, <<out>>)
           n == Len(v[g]) + 1
<1>6. old \in ChannelSet /\ old = ch[g][c] /\ c \in DOMAIN s.chan /\ old.psm \in Psms
  <2> HIDE DEF c
  <2>1. ch[g][c] \in ChannelSet /\ ch[g][c].psm \in Psms
    BY <1>1, <1>4, ChansType
  <2> QED BY <1>1, <1>4, <2>1
<1>7. /\ new \in ChannelSet /\ new.peer = d /\ new.psm = old.psm /\ new.state = "WaitConfig"
      /\ new.localDone = old.localDone /\ new.remoteDone = old.remoteDone
  BY <1>1, <1>6 DEF ChannelSet, State
<1>8. old.state # "Open"
  BY <1>4, <1>6 DEF Waits
<1> DEFINE t == [s EXCEPT !.chan = [s.chan EXCEPT ![c] = new]]
<1>t. [s EXCEPT !.chan[p.dst].peer = p.body.src, !.chan[p.dst].state = "WaitConfig"] = t
  BY <1>1, <1>6 DEF HostSet, Chans
<1>5. r.s = t /\ r.out = <<ConfigRequest(t, c)>>
  BY <1>0, <1>1, <1>6, <1>t DEF OnConnectionResponse
<1> HIDE DEF new, r
<1>10. /\ r.s \in HostSet /\ r.s.conn = s.conn /\ r.s.opens = s.opens /\ r.s.served \subseteq OpenCids(r.s)
       /\ DOMAIN r.s.chan = DOMAIN s.chan /\ r.s.chan[c] = new
       /\ ch2 \in [Host -> Chans] /\ Alters(ch, ch2, g, c) /\ ch2[g][c] = new
  <2>1. new.psm = s.chan[c].psm /\ (s.chan[c].state = "Open" => new.state = "Open")
    BY <1>6, <1>7, <1>8
  <2>2. /\ g \in Host /\ ch \in [Host -> Chans] /\ s \in HostSet /\ s.chan = ch[g] /\ s.served \subseteq OpenCids(s)
        /\ c \in DOMAIN s.chan /\ new \in ChannelSet
    BY <1>1, <1>6, <1>7
  <2>3. Becomes(ch, ch2, g, s, r.s, c, new)
    BY <1>5 DEF Becomes
  <2> HIDE DEF c, old, ch2
  <2> QED BY <2>1, <2>2, <2>3, ChangedHost
<1>r. r.out = <<out>>
  <2>1. r.out = <<ConfigRequest(r.s, c)>>
    BY <1>5
  <2> HIDE DEF c, d, t, old
  <2>2. ConfigRequest(r.s, c) = out
    BY <1>1, <1>7, <1>10 DEF ConfigRequest, Packet
  <2> QED BY <2>1, <2>2
<1>9. out \in PacketSet /\ out.type = "ConfReq" /\ out.dst = d /\ out.handle = links
  BY <1>1, <1>6 DEF PacketSet
<1> HIDE DEF out, ch2
<1>11. n \in Nat /\ SameReq(v, u) /\ SameRsp(v, u) /\ GainCfg(v, u, g, n, d) /\ SameAck(v, u)
  BY <1>1, <1>9, OneMore
<1> HIDE DEF u, n
<1>12. SameReq(q, u) /\ LoseRsp(q, u, h) /\ GainCfg(q, u, g, n, d) /\ SameAck(q, u)
  BY <1>2, <1>11, SameThen
<1>13. Handshake(ch2, u)
  <2>1. /\ ch2[g][c].peer = d /\ ch2[g][c].state = "WaitConfig"
        /\ ch2[g][c].localDone = ch[g][c].localDone /\ ch2[g][c].remoteDone = ch[g][c].remoteDone
    BY <1>6, <1>7, <1>10
  <2> HIDE DEF old, c, d
  <2> QED BY <1>1, <1>3, <1>10, <1>11, <1>12, <2>1, Answered
<1>14. r.out \in Seq(PacketSet) /\ \A k \in DOMAIN r.out : r.out[k].handle = links /\ r.out[k].type # "ConnReq"
  BY <1>r, <1>9, OneOut
<1> QED BY <1>r, <1>10, <1>13, <1>14 DEF Handles, u, v, g, p, ch2, r

\* Connection Request that no profile serves: refused.
LEMMA RequestRefused ==
  ASSUME NEW ch, NEW q, NEW h \in Host, NEW s, Facing(ch, q, h, s), Head(q[h]).type = "ConnReq",
         Head(q[h]).body.psm \notin Servers[Peer(h)]
  PROVE  Handles(ch, q, h, s, OnConnectionRequest(s, Peer(h), Head(q[h])))
<1> DEFINE g == Peer(h)
           p == Head(q[h])
           v == Less(q, h)
           c == p.body.src
           m == p.body.psm
           r == OnConnectionRequest(s, g, p)
<1>0. Known(ch, q, h, s, g, v, p) /\ p.type = "ConnReq" /\ m \notin Servers[g]
  BY Faced
<1>2. LoseReq(q, v, h) /\ SameRsp(q, v) /\ SameCfg(q, v) /\ SameAck(q, v)
  BY HeadOf DEF Facing
<1> HIDE DEF p, v, g
<1>1. /\ g \in Host /\ g = Peer(h) /\ g # h /\ h = Peer(g)
      /\ isUp /\ links \in Nat /\ ch \in [Host -> Chans] /\ Handshake(ch, q)
      /\ s \in HostSet /\ s.conn = links /\ s.chan = ch[g] /\ s.served \subseteq OpenCids(s)
      /\ c \in 0 .. MaxCid /\ m \in Psms /\ v[g] \in Seq(PacketSet) /\ DOMAIN v = Host /\ Req(q, h, 1, c, m)
  BY <1>0 DEF Known
<1> DEFINE out == [handle |-> links, type |-> "ConnRsp", dst |-> c, body |-> [psm |-> m, src |-> 0]]
           ch2 == [ch EXCEPT ![g] = s.chan]
           u == More(v, g, <<out>>)
           n == Len(v[g]) + 1
<1>5. r.s = s /\ r.out = <<out>>
  BY <1>0, <1>1 DEF OnConnectionRequest, Packet
<1>6. 0 \in 0 .. MaxCid
  BY HostFacts
<1>7. out \in PacketSet /\ out.type = "ConnRsp" /\ out.dst = c /\ out.body.src = 0 /\ out.handle = links
  BY <1>1, <1>6 DEF PacketSet
<1>8. ch2 = ch
  BY <1>1
<1> HIDE DEF out, r
<1>9. n \in Nat /\ SameReq(v, u) /\ GainRsp(v, u, g, n, c, 0) /\ SameCfg(v, u) /\ SameAck(v, u)
  BY <1>1, <1>7, OneMore
<1> HIDE DEF u, n
<1>10. LoseReq(q, u, h) /\ GainRsp(q, u, g, n, c, 0) /\ SameCfg(q, u) /\ SameAck(q, u)
  BY <1>2, <1>9, SameThen
<1>11. Handshake(ch, u)
  <2> HIDE DEF c, m
  <2> QED BY <1>1, <1>9, <1>10, Refused
<1>12. r.out \in Seq(PacketSet) /\ \A k \in DOMAIN r.out : r.out[k].handle = links /\ r.out[k].type # "ConnReq"
  BY <1>5, <1>7, OneOut
<1> QED BY <1>1, <1>5, <1>8, <1>11, <1>12 DEF Handles, u, v, g, p, r

\* Connection Request that finds no identifier free: dropped, which Roomy rules out.
LEMMA RequestDropped ==
  ASSUME NEW ch, NEW q, NEW h \in Host, NEW s, Facing(ch, q, h, s), Head(q[h]).type = "ConnReq",
         Head(q[h]).body.psm \in Servers[Peer(h)], FreeCids(s) = {}, ~Roomy
  PROVE  Handles(ch, q, h, s, OnConnectionRequest(s, Peer(h), Head(q[h])))
<1> DEFINE g == Peer(h)
           p == Head(q[h])
           v == Less(q, h)
           r == OnConnectionRequest(s, g, p)
           u == More(v, g, <<>>)
<1>0. Known(ch, q, h, s, g, v, p) /\ p.type = "ConnReq" /\ p.body.psm \in Servers[g]
  BY Faced
<1>2. LoseReq(q, v, h) /\ SameRsp(q, v) /\ SameCfg(q, v) /\ SameAck(q, v)
  BY HeadOf DEF Facing
<1> HIDE DEF p, v, g
<1>1. /\ g \in Host /\ isUp /\ ch \in [Host -> Chans] /\ Handshake(ch, q)
      /\ s \in HostSet /\ s.conn = links /\ s.chan = ch[g] /\ s.served \subseteq OpenCids(s)
      /\ v[g] \in Seq(PacketSet) /\ DOMAIN v = Host
  BY <1>0 DEF Known
<1>5. r.s = s /\ r.out = <<>>
  BY <1>0, <1>1 DEF OnConnectionRequest
<1> HIDE DEF r
<1>8. [ch EXCEPT ![g] = s.chan] = ch
  BY <1>1
<1>9. SameReq(v, u) /\ SameRsp(v, u) /\ SameCfg(v, u) /\ SameAck(v, u)
  BY <1>1, MoreNone, MoreSame
<1> HIDE DEF u
<1>10. LoseReq(q, u, h) /\ SameRsp(q, u) /\ SameCfg(q, u) /\ SameAck(q, u)
  BY <1>2, <1>9, SameThen
<1>11. Handshake(ch, u)
  BY <1>1, <1>10, Dropped
<1>12. <<>> \in Seq(PacketSet) /\ DOMAIN <<>> = {}
  OBVIOUS
<1> QED BY <1>1, <1>5, <1>8, <1>11, <1>12 DEF Handles, u, v, g, p, r

\* Two packets are one and then another.
LEMMA MoreTwo ==
  ASSUME NEW v, NEW g \in Host, v[g] \in Seq(PacketSet), DOMAIN v = Host, NEW a \in PacketSet, NEW b \in PacketSet
  PROVE  More(v, g, <<a, b>>) = More(More(v, g, <<a>>), g, <<b>>)
<1>1. v[g] \o <<a, b>> = (v[g] \o <<a>>) \o <<b>>
  <2> DEFINE z == v[g]
  <2>1. z \in Seq(PacketSet)
    OBVIOUS
  <2> HIDE DEF z
  <2>2. <<a>> \in Seq(PacketSet) /\ <<b>> \in Seq(PacketSet)
    OBVIOUS
  <2>4. <<a, b>> = <<a>> \o <<b>>
    <3>1. /\ Len(<<a>> \o <<b>>) = 2 /\ (<<a>> \o <<b>>)[1] = a /\ (<<a>> \o <<b>>)[2] = b
          /\ <<a>> \o <<b>> \in Seq({a, b})
      OBVIOUS
    <3>2. <<a, b>> \in Seq({a, b}) /\ Len(<<a, b>>) = 2 /\ <<a, b>>[1] = a /\ <<a, b>>[2] = b
      OBVIOUS
    <3>3. 1 .. 2 = {1, 2}
      OBVIOUS
    <3>4. \A i \in 1 .. Len(<<a, b>>) : <<a, b>>[i] = (<<a>> \o <<b>>)[i]
      BY <3>1, <3>2, <3>3
    <3> QED BY <3>1, <3>2, <3>4, SeqEqual
  <2>3. z \o (<<a>> \o <<b>>) = (z \o <<a>>) \o <<b>>
    BY <2>1, <2>2, ConcatAssociative
  <2> QED BY <2>3, <2>4 DEF z
<1> QED BY <1>1 DEF More

\* Connection Request that is accepted: a channel, the answer, the configuration request.
LEMMA RequestAccepted ==
  ASSUME NEW ch, NEW q, NEW h \in Host, NEW s, Facing(ch, q, h, s), Head(q[h]).type = "ConnReq",
         Head(q[h]).body.psm \in Servers[Peer(h)], FreeCids(s) # {}
  PROVE  Handles(ch, q, h, s, OnConnectionRequest(s, Peer(h), Head(q[h])))
<1> DEFINE g == Peer(h)
           p == Head(q[h])
           v == Less(q, h)
           c == p.body.src
           m == p.body.psm
           d == CHOOSE e \in FreeCids(s) : TRUE
           r == OnConnectionRequest(s, g, p)
<1>0. Known(ch, q, h, s, g, v, p) /\ p.type = "ConnReq" /\ m \in Servers[g]
  BY Faced
<1>2. LoseReq(q, v, h) /\ SameRsp(q, v) /\ SameCfg(q, v) /\ SameAck(q, v)
  BY HeadOf DEF Facing
<1> HIDE DEF p, v, g
<1>1. /\ g \in Host /\ g = Peer(h) /\ g # h /\ h = Peer(g)
      /\ isUp /\ links \in Nat /\ ch \in [Host -> Chans] /\ Handshake(ch, q)
      /\ s \in HostSet /\ s.conn = links /\ s.chan = ch[g] /\ s.served \subseteq OpenCids(s) /\ s.chan \in Chans
      /\ c \in 0 .. MaxCid /\ m \in Psms /\ v[g] \in Seq(PacketSet) /\ DOMAIN v = Host /\ Req(q, h, 1, c, m)
  BY <1>0 DEF Known
<1>3. d \in Cid /\ d \notin DOMAIN s.chan
  <2>1. d \in FreeCids(s)
    OBVIOUS
  <2> QED BY <1>1, <2>1, Allocates
<1>4. c \in Cid
  <2> HIDE DEF c, m
  <2>1. Waits(ch, h, c)
    BY <1>1, AskedOf
  <2> QED BY <1>1, <2>1, ChansType DEF Waits
<1> DEFINE x == Channel(m, c, "WaitConfig")
           t == Allocated(s, d, x)
           ch2 == [ch EXCEPT ![g] = r.s.chan]
           a == [handle |-> links, type |-> "ConnRsp", dst |-> c, body |-> [psm |-> m, src |-> d]]
           b == [handle |-> links, type |-> "ConfReq", dst |-> c, body |-> [psm |-> m, src |-> d]]
           w == More(v, g, <<a>>)
           u == More(w, g, <<b>>)
           n == Len(v[g]) + 1
<1>5. r.s = t /\ r.out = <<Packet(s, "ConnRsp", c, [psm |-> m, src |-> d]), ConfigRequest(t, d)>>
  BY <1>0 DEF OnConnectionRequest
<1> HIDE DEF d, r
<1>6. x \in ChannelSet /\ x.psm = m /\ x.peer = c /\ x.state = "WaitConfig" /\ ~x.localDone /\ ~x.remoteDone
  <2>1. "WaitConfig" \in State
    BY DEF State
  <2> HIDE DEF c, m
  <2> QED BY <1>1, <2>1, ChannelType
<1> HIDE DEF x
<1>7. t \in HostSet /\ t.chan = With(s.chan, d, x) /\ t.conn = s.conn /\ t.opens = s.opens /\ t.served = s.served
  BY <1>1, <1>3, <1>6, AllocatedType
<1> HIDE DEF t
<1>8. /\ t.chan \in Chans /\ DOMAIN t.chan = DOMAIN s.chan \cup {d} /\ t.chan[d] = x
      /\ \A e \in DOMAIN s.chan : t.chan[e] = s.chan[e]
  <2> DEFINE old == s.chan
             new == With(old, d, x)
  <2>1. old \in Chans /\ d \in Cid /\ d \notin DOMAIN old /\ t.chan = new
    BY <1>1, <1>3, <1>7
  <2> HIDE DEF old
  <2>2. new \in Chans /\ DOMAIN new = (DOMAIN old) \cup {d} /\ new[d] = x /\ \A e \in DOMAIN old : e # d => new[e] = old[e]
    <3>1. old \in Chans /\ d \in Cid /\ x \in ChannelSet
      BY <2>1, <1>6
    <3> QED BY <3>1, ChanWith, Zenon
  <2> HIDE DEF new
  <2>3. \A e \in DOMAIN old : new[e] = old[e]
    BY <2>1, <2>2
  <2> QED BY <2>1, <2>2, <2>3 DEF old
<1>9. Packet(s, "ConnRsp", c, [psm |-> m, src |-> d]) = a /\ ConfigRequest(t, d) = b
  <2> HIDE DEF c, m
  <2> QED BY <1>1, <1>6, <1>7, <1>8 DEF Packet, ConfigRequest
<1>10. t.served \subseteq OpenCids(t)
  BY <1>1, <1>7, <1>8 DEF OpenCids
<1>11. ch2 \in [Host -> Chans] /\ ch2[g] = t.chan /\ \A y \in Host : y # g => ch2[y] = ch[y]
  BY <1>1, <1>5, <1>8, ChansWith
<1> HIDE DEF ch2
<1>12. Adds(ch, ch2, g, d)
  BY <1>1, <1>3, <1>8, <1>11 DEF Adds
<1>13. d \in 0 .. MaxCid
  BY <1>3, HostFacts
<1>14. a \in PacketSet /\ a.type = "ConnRsp" /\ a.dst = c /\ a.body.src = d /\ a.handle = links
  BY <1>1, <1>13 DEF PacketSet
<1>15. b \in PacketSet /\ b.type = "ConfReq" /\ b.dst = c /\ b.handle = links
  BY <1>1, <1>13 DEF PacketSet
<1> HIDE DEF a, b
<1>16. /\ n \in Nat /\ w[g] \in Seq(PacketSet) /\ Len(w[g]) = n /\ DOMAIN w = Host
       /\ SameReq(v, w) /\ GainRsp(v, w, g, n, c, d) /\ SameCfg(v, w) /\ SameAck(v, w)
  BY <1>1, <1>14, OneMore
<1>u. u = More(v, g, <<a, b>>)
  BY <1>1, <1>14, <1>15, MoreTwo
<1> HIDE DEF w, n
<1>17. SameReq(w, u) /\ SameRsp(w, u) /\ GainCfg(w, u, g, n + 1, c) /\ SameAck(w, u)
  BY <1>1, <1>15, <1>16, OneMore
<1> HIDE DEF u
<1>18. LoseReq(q, w, h) /\ GainRsp(q, w, g, n, c, d) /\ SameCfg(q, w) /\ SameAck(q, w)
  BY <1>2, <1>16, SameThen
<1>19. LoseReq(q, u, h) /\ GainRsp(q, u, g, n, c, d) /\ GainCfg(q, u, g, n + 1, c) /\ SameAck(q, u)
  BY <1>17, <1>18, SameThen
<1>20. Handshake(ch2, u)
  <2>1. /\ ch2[g][d].psm = m /\ ch2[g][d].peer = c /\ ch2[g][d].state = "WaitConfig"
        /\ ~ch2[g][d].localDone /\ ~ch2[g][d].remoteDone
    BY <1>6, <1>8, <1>11
  <2> HIDE DEF c, m
  <2> QED BY <1>1, <1>3, <1>4, <1>11, <1>12, <1>16, <1>19, <2>1, Requested
<1>21. r.out = <<a, b>>
  BY <1>5, <1>9
<1>22. r.out \in Seq(PacketSet) /\ \A k \in DOMAIN r.out : r.out[k].handle = links /\ r.out[k].type # "ConnReq"
  <2>1. <<a, b>> \in Seq(PacketSet) /\ \A k \in DOMAIN <<a, b>> : <<a, b>>[k] \in {a, b}
    BY <1>14, <1>15
  <2> QED BY <1>14, <1>15, <1>21, <2>1
<1>23. DOMAIN r.s.chan = DOMAIN s.chan \cup {d}
  BY <1>5, <1>8
<1> QED BY <1>0, <1>3, <1>5, <1>7, <1>10, <1>20, <1>21, <1>u, <1>22, <1>23 DEF Handles, v, g, p, ch2, r

\* Whatever the first packet is, the peer's handler keeps the handshake; with identifiers
\* enough, a request finds one.
LEMMA AclHandled ==
  ASSUME NEW ch, NEW q, NEW h \in Host, NEW s, Facing(ch, q, h, s),
         Roomy /\ Head(q[h]).type = "ConnReq" => ~(Cid \subseteq DOMAIN s.chan)
  PROVE  Handles(ch, q, h, s, HandleAcl(s, Peer(h), Head(q[h])))
<1> DEFINE g == Peer(h)
           p == Head(q[h])
           r == HandleAcl(s, g, p)
<1>1. p.type \in {"ConnReq", "ConnRsp", "ConfReq", "ConfRsp", "Data"}
  <2>1. p \in PacketSet
    BY HeadOf DEF Facing
  <2> QED BY <2>1, PacketFields
<1>2. CASE p.type = "ConnReq"
  <2>1. r = OnConnectionRequest(s, g, p)
    BY <1>2 DEF HandleAcl
  <2>2. CASE p.body.psm \notin Servers[g]
    BY <1>2, <2>1, <2>2, RequestRefused
  <2>3. CASE p.body.psm \in Servers[g] /\ FreeCids(s) = {}
    <3>1. s \in HostSet
      BY DEF Facing
    <3>2. ~Roomy
      BY <1>2, <2>3, <3>1, Allocates
    <3> QED BY <1>2, <2>1, <2>3, <3>2, RequestDropped
  <2>4. CASE p.body.psm \in Servers[g] /\ FreeCids(s) # {}
    BY <1>2, <2>1, <2>4, RequestAccepted
  <2> QED BY <2>2, <2>3, <2>4
<1>3. CASE p.type = "ConnRsp"
  <2>1. r = OnConnectionResponse(s, p)
    BY <1>3 DEF HandleAcl
  <2> QED BY <1>3, <2>1, RefusalHandled, AnswerHandled
<1>4. CASE p.type = "ConfReq"
  <2>1. r = OnConfigurationRequest(s, p)
    BY <1>4 DEF HandleAcl
  <2> QED BY <1>4, <2>1, ConfReqHandled
<1>5. CASE p.type = "ConfRsp"
  <2>1. r = OnConfigurationResponse(s, p)
    BY <1>5 DEF HandleAcl
  <2> QED BY <1>5, <2>1, ConfRspHandled
<1>6. CASE p.type = "Data"
  <2>1. r = [s |-> s, out |-> <<>>]
    BY <1>6 DEF HandleAcl
  <2> QED BY <1>6, <2>1, DataHandled
<1> QED BY <1>1, <1>2, <1>3, <1>4, <1>5, <1>6

\* The packets as the controllers hold them: those of h without the first, those of g with more.
Sent(q, h, g, out) == [q EXCEPT ![h] = Tail(@), ![g] = @ \o out]

\* The handler's answers in the controllers, its packet gone.
LEMMA HandledSent ==
  ASSUME NEW ch, NEW q, NEW h \in Host, NEW s, Facing(ch, q, h, s), NEW r, Handles(ch, q, h, s, r)
  PROVE  LET g == Peer(h)
             t == Sent(q, h, g, r.out)
         IN /\ t \in [Host -> Seq(PacketSet)]
            /\ [ch EXCEPT ![g] = r.s.chan] \in [Host -> Chans]
            /\ Handshake([ch EXCEPT ![g] = r.s.chan], t)
            /\ t[h] = Tail(q[h]) /\ t[g] = q[g] \o r.out
<1> DEFINE g == Peer(h)
           out == r.out
           t == Sent(q, h, g, out)
           u == More(Less(q, h), g, out)
           ch2 == [ch EXCEPT ![g] = r.s.chan]
           z == q[h]
<1>1. g \in Host /\ g # h
  BY HostFacts
<1>2. /\ q \in [Host -> Seq(PacketSet)] /\ z \in Seq(PacketSet) /\ z # <<>> /\ out \in Seq(PacketSet)
      /\ ch \in [Host -> Chans] /\ r.s \in HostSet /\ Handshake(ch2, u)
  BY DEF Facing, Handles
<1>3. /\ t[h] = Tail(z) /\ t[g] = q[g] \o out /\ DOMAIN t = Host
      /\ \A x \in Host : x # h => t[x] = u[x]
      /\ u[h] = [i \in DOMAIN z \ {1} |-> z[i]]
  <2>1. \A x \in Host : x = h \/ x = g
    BY HostFacts
  <2> QED BY <1>1, <1>2, <2>1 DEF Sent, More, Less
<1>4. ch2 \in [Host -> Chans]
  <2>1. r.s.chan \in Chans
    BY <1>2, HostFields
  <2> QED BY <1>1, <1>2, <2>1, ChansWith
<1>5. t \in [Host -> Seq(PacketSet)]
  <2>1. Tail(z) \in Seq(PacketSet)
    <3> HIDE DEF z
    <3> QED BY <1>2
  <2>2. q[g] \o out \in Seq(PacketSet)
    <3> DEFINE y == q[g]
    <3>1. y \in Seq(PacketSet)
      BY <1>1, <1>2
    <3> HIDE DEF y, out
    <3>2. y \o out \in Seq(PacketSet)
      BY <1>2, <3>1
    <3> QED BY <3>2 DEF y, out
  <2>3. t = [q EXCEPT ![h] = Tail(z), ![g] = q[g] \o out]
    BY <1>1, <1>2 DEF Sent
  <2> DEFINE a == Tail(z)
             b == q[g] \o out
  <2>4. a \in Seq(PacketSet) /\ b \in Seq(PacketSet) /\ t = [q EXCEPT ![h] = a, ![g] = b]
    BY <2>1, <2>2, <2>3
  <2> HIDE DEF a, b, t
  <2> QED BY <1>1, <1>2, <2>4
<1> HIDE DEF t, u, z, out, ch2
<1>6. Handshake(ch2, t)
  BY <1>2, <1>3, Renumbered
<1> QED BY <1>3, <1>4, <1>5, <1>6 DEF t, z, out, ch2

--------------------------------------------------------------------------------
(* So does every poll. *)

\* A channel asked for leaves the open ones alone.
LEMMA AskServed ==
  ASSUME NEW s \in HostSet, NEW t \in HostSet, NEW out, Asks(s, t, out)
  PROVE  OpenCids(s) \subseteq OpenCids(t)
<1>1. CASE t.chan = s.chan
  BY <1>1 DEF OpenCids
<1>2. ASSUME NEW c \in Cid, NEW m \in Psms, c \notin DOMAIN s.chan,
             t.chan = With(s.chan, c, Channel(m, 0, "WaitConnectRsp"))
      PROVE  OpenCids(s) \subseteq OpenCids(t)
  BY <1>2 DEF OpenCids, With
<1> QED BY <1>1, <1>2 DEF Asks

\* A host about to poll while the link is up.
Polling(ch, q, g, s) ==
  /\ isUp /\ links \in Nat /\ ch \in [Host -> Chans] /\ q \in [Host -> Seq(PacketSet)]
  /\ Handshake(ch, q)
  /\ s \in HostSet /\ s.conn = links /\ s.chan = ch[g] /\ s.served \subseteq OpenCids(s)

\* A host asks for a channel.
LEMMA AskSent ==
  ASSUME NEW ch, NEW q, NEW g \in Host, NEW s, Polling(ch, q, g, s),
         NEW t, t \in HostSet, NEW out, Asks(s, t, out)
  PROVE  LET u == More(q, g, out)
             ch2 == [ch EXCEPT ![g] = t.chan]
         IN /\ Taken(out) = out
            /\ u \in [Host -> Seq(PacketSet)] /\ ch2 \in [Host -> Chans] /\ Handshake(ch2, u)
<1> DEFINE u == More(q, g, out)
           ch2 == [ch EXCEPT ![g] = t.chan]
           h == Peer(g)
<1>1. h \in Host /\ h # g /\ Peer(h) = g /\ Peer(g) = h
  BY HostFacts
<1>2. /\ isUp /\ links \in Nat /\ ch \in [Host -> Chans] /\ q \in [Host -> Seq(PacketSet)]
      /\ Handshake(ch, q) /\ s \in HostSet /\ s.conn = links /\ s.chan = ch[g]
  BY DEF Polling
<1>3. DOMAIN q = Host /\ q[g] \in Seq(PacketSet) /\ s.chan \in Chans /\ t.chan \in Chans
  BY <1>2, HostFields
<1>4. ch2 \in [Host -> Chans] /\ ch2[g] = t.chan /\ \A x \in Host : x # g => ch2[x] = ch[x]
  BY <1>2, <1>3, ChansWith
<1>5. u[g] \in Seq(PacketSet) => u \in [Host -> Seq(PacketSet)]
  <2> DEFINE b == q[g] \o out
  <2>1. u = [q EXCEPT ![g] = b] /\ u[g] = b
    BY <1>3 DEF More
  <2> HIDE DEF b, u
  <2> QED BY <1>2, <2>1
<1>6. CASE t.chan = s.chan /\ out = <<>>
  <2>1. ch2 = ch
    BY <1>2, <1>6
  <2>2. \A x \in Host : u[x] = q[x]
    BY <1>3, <1>6, MoreNone
  <2>3. Taken(out) = out
    BY <1>6, TakenNothing
  <2> HIDE DEF u
  <2>4. Handshake(ch, u)
    BY <1>2, <2>2, MoreSame, Unconcerned
  <2> QED BY <1>3, <1>4, <1>5, <2>1, <2>2, <2>3, <2>4 DEF u
<1>7. ASSUME NEW c \in Cid, NEW m \in Psms, c \notin DOMAIN s.chan,
             t.chan = With(s.chan, c, Channel(m, 0, "WaitConnectRsp")),
             out = <<[handle |-> s.conn, type |-> "ConnReq", dst |-> 0, body |-> [psm |-> m, src |-> c]]>>
      PROVE  Taken(out) = out /\ u \in [Host -> Seq(PacketSet)] /\ Handshake(ch2, u)
  <2> DEFINE p == [handle |-> s.conn, type |-> "ConnReq", dst |-> 0, body |-> [psm |-> m, src |-> c]]
             x == Channel(m, 0, "WaitConnectRsp")
             n == Len(q[g]) + 1
  <2>1. p \in PacketSet /\ p.handle = links /\ p.type = "ConnReq" /\ p.body.src = c /\ p.body.psm = m
    BY <1>2, HostFacts DEF PacketSet
  <2>2. x \in ChannelSet /\ x.psm = m /\ x.peer = 0 /\ x.state = "WaitConnectRsp" /\ ~x.localDone /\ ~x.remoteDone
    BY HostFacts, ChannelType DEF State
  <2>3. t.chan = With(s.chan, c, x) /\ out = <<p>>
    BY <1>7
  <2> HIDE DEF p, x
  <2>4. Taken(out) = out
    <3>1. <<p>> \in Seq(PacketSet) /\ \A k \in DOMAIN <<p>> : <<p>>[k] = p
      BY <2>1
    <3>2. \A k \in DOMAIN <<p>> : <<p>>[k].handle = links
      BY <2>1, <3>1
    <3>3. Taken(<<p>>) = <<p>>
      BY <1>2, <3>1, <3>2, TakenPart
    <3> QED BY <2>3, <3>3
  <2>5. DOMAIN t.chan = (DOMAIN s.chan) \cup {c} /\ t.chan[c] = x /\ \A e \in DOMAIN s.chan : t.chan[e] = s.chan[e]
    <3> DEFINE old == s.chan
               w == t.chan
    <3>1. old \in Chans /\ c \notin DOMAIN old /\ w = With(old, c, x) /\ x \in ChannelSet
      BY <1>3, <1>7, <2>2, <2>3
    <3> HIDE DEF old, w
    <3>2. DOMAIN w = (DOMAIN old) \cup {c} /\ w[c] = x /\ \A e \in DOMAIN old : w[e] = old[e]
      BY <3>1, ChanNew
    <3> QED BY <3>2 DEF old, w
  <2>6. Adds(ch, ch2, g, c)
    BY <1>2, <1>4, <1>7, <2>5 DEF Adds
  <2>7. u = More(q, g, <<p>>)
    BY <2>3
  <2> HIDE DEF u, n, ch2, h
  <2>8. /\ n \in Nat /\ u[g] \in Seq(PacketSet) /\ GainReq(q, u, g, n, c, m)
        /\ SameRsp(q, u) /\ SameCfg(q, u) /\ SameAck(q, u)
    BY <1>3, <2>1, <2>7, OneMore DEF n
  <2>9. /\ ch2[g][c].psm = m /\ ch2[g][c].peer = 0 /\ ch2[g][c].state = "WaitConnectRsp"
        /\ ~ch2[g][c].localDone /\ ~ch2[g][c].remoteDone
    BY <1>4, <2>2, <2>5
  <2>10. Handshake(ch2, u)
    BY <1>1, <1>2, <1>4, <2>6, <2>8, <2>9, Opened
  <2> QED BY <1>5, <2>4, <2>8, <2>10
<1>8. Taken(out) = out /\ u \in [Host -> Seq(PacketSet)] /\ Handshake(ch2, u)
  <2>1. CASE ~(t.chan = s.chan /\ out = <<>>)
    <3>1. PICK c \in Cid, m \in Psms :
            /\ c \notin DOMAIN s.chan /\ t.chan = With(s.chan, c, Channel(m, 0, "WaitConnectRsp"))
            /\ out = <<[handle |-> s.conn, type |-> "ConnReq", dst |-> 0, body |-> [psm |-> m, src |-> c]]>>
      BY <2>1 DEF Asks
    <3> QED BY <1>7, <3>1, Zenon
  <2> QED BY <1>6, <2>1
<1> QED BY <1>4, <1>8

\* After data of host g, u has what it asks when it goes from s to t.
AsksAfter(q, u, g, s, t) ==
  \E v, out : /\ v \in [Host -> Seq(PacketSet)] /\ SameReq(q, v) /\ v[g] \in Seq(PacketSet)
              /\ u = More(v, g, out) /\ Asks(s, t, out)
              /\ Len(t.opens) + Len(out) <= Len(s.opens)

\* A poll while the link is up: its data and its request join what the controller holds.
LEMMA PollSent ==
  ASSUME NEW ch, NEW q, NEW g \in Host, NEW s, Polling(ch, q, g, s)
  PROVE  LET p == Poll(s)
             u == More(q, g, p.out)
             ch2 == [ch EXCEPT ![g] = p.s.chan]
         IN /\ p.s \in HostSet /\ p.s.conn = s.conn /\ p.s.served \subseteq OpenCids(p.s)
            /\ p.out \in Seq(PacketSet)
            /\ u \in [Host -> Seq(PacketSet)] /\ ch2 \in [Host -> Chans] /\ Handshake(ch2, u)
            /\ AsksAfter(q, u, g, s, p.s)
<1> DEFINE p == Poll(s)
<1>1. /\ isUp /\ links \in Nat /\ ch \in [Host -> Chans] /\ q \in [Host -> Seq(PacketSet)]
      /\ Handshake(ch, q) /\ s \in HostSet /\ s.conn = links /\ s.chan = ch[g] /\ s.served \subseteq OpenCids(s)
  BY DEF Polling
<1>2. /\ p.s \in HostSet /\ p.s.conn = s.conn /\ p.s.served \subseteq OpenCids(s)
      /\ \E data, out : Gives(s, p, data, out)
  BY <1>1, PollType
<1>p. PICK data, out : Gives(s, p, data, out)
  BY <1>2
<1>3. /\ data \in Seq(DataSet) /\ Asks(s, p.s, out) /\ p.out = Taken(data) \o Taken(out)
      /\ Len(p.s.opens) + Len(out) <= Len(s.opens)
  BY <1>p DEF Gives
<1> HIDE DEF p
<1>4. p.s.served \subseteq OpenCids(p.s)
  BY <1>1, <1>2, <1>3, AskServed
<1> DEFINE d == Taken(data)
           v == More(q, g, d)
           u == More(v, g, out)
           ch2 == [ch EXCEPT ![g] = p.s.chan]
<1>5. d \in Seq(DataSet)
  BY <1>3, TakenPart
<1> HIDE DEF d
<1>6. q[g] \in Seq(PacketSet) /\ DOMAIN q = Host /\ d \in Seq(PacketSet)
  BY <1>1, <1>5, DataPackets
<1>7. v[g] = q[g] \o d /\ \A x \in Host : x # g => v[x] = q[x]
  BY <1>6 DEF More
<1>8. v = [q EXCEPT ![g] = v[g]]
  BY <1>6, <1>7 DEF More
<1> HIDE DEF v
<1>9. v[g] \in Seq(PacketSet) /\ SameReq(q, v) /\ SameRsp(q, v) /\ SameCfg(q, v) /\ SameAck(q, v)
  BY <1>5, <1>6, <1>7, DataAppended
<1>10. v \in [Host -> Seq(PacketSet)]
  BY <1>1, <1>8, <1>9
<1>11. Handshake(ch, v)
  BY <1>1, <1>9, Unconcerned
<1>12. Polling(ch, v, g, s)
  BY <1>1, <1>10, <1>11 DEF Polling
<1>13. Taken(out) = out /\ u \in [Host -> Seq(PacketSet)] /\ ch2 \in [Host -> Chans] /\ Handshake(ch2, u)
  BY <1>2, <1>3, <1>12, AskSent
<1>14. p.out = d \o out
  BY <1>3, <1>13 DEF d
<1>15. out \in Seq(PacketSet)
  <2>1. ASSUME NEW c \in Cid, NEW m \in Psms,
               out = <<[handle |-> s.conn, type |-> "ConnReq", dst |-> 0, body |-> [psm |-> m, src |-> c]]>>
        PROVE  out \in Seq(PacketSet)
    <3> DEFINE a == [handle |-> s.conn, type |-> "ConnReq", dst |-> 0, body |-> [psm |-> m, src |-> c]]
    <3>1. a \in PacketSet
      BY <1>1, HostFacts DEF PacketSet
    <3> HIDE DEF a
    <3>2. <<a>> \in Seq(PacketSet)
      BY <3>1
    <3> QED BY <2>1, <3>2 DEF a
  <2>2. <<>> \in Seq(PacketSet)
    OBVIOUS
  <2> QED BY <1>3, <2>1, <2>2 DEF Asks
<1>16. u = More(q, g, p.out)
  <2> DEFINE z == q[g]
  <2>1. z \in Seq(PacketSet)
    BY <1>6
  <2> HIDE DEF z
  <2>2. (z \o d) \o out = z \o (d \o out)
    BY <1>6, <1>15, <2>1, ConcatAssociative
  <2>3. v[g] \o out = q[g] \o p.out
    BY <1>7, <1>14, <2>2 DEF z
  <2> QED BY <1>1, <1>6, <1>8, <2>3 DEF More
<1>17. p.out \in Seq(PacketSet)
  BY <1>6, <1>14, <1>15
<1>18. AsksAfter(q, u, g, s, p.s)
  <2>1. u = More(v, g, out)
    OBVIOUS
  <2> HIDE DEF u
  <2> QED BY <1>3, <1>9, <1>10, <2>1 DEF AsksAfter
<1> HIDE DEF u
<1> QED BY <1>2, <1>4, <1>13, <1>16, <1>17, <1>18 DEF p

--------------------------------------------------------------------------------
(* No host has more channels than were asked for. *)

\* Sets of channel identifiers and their sizes.
LEMMA CidSets ==
  ASSUME NEW A \in SUBSET Cid
  PROVE  /\ IsFiniteSet(A) /\ Cardinality(A) \in Nat /\ Cardinality(A) <= MaxCid
         /\ \A B \in SUBSET A : Cardinality(B) \in Nat /\ Cardinality(B) <= Cardinality(A)
         /\ \A c \in Cid : Cardinality(A \cup {c}) \in Nat /\ Cardinality(A \cup {c}) <= Cardinality(A) + 1
         /\ \A B \in SUBSET A, c \in A : c \notin B => Cardinality(B) + 1 <= Cardinality(A)
         /\ Cid \subseteq A => Cardinality(A) = MaxCid
<1>1. MaxCid \in Nat /\ IsFiniteSet(Cid) /\ Cardinality(Cid) = MaxCid
  <2>1. MaxCid \in Nat /\ 1 \in Int /\ MaxCid \in Int
    BY HostFacts
  <2> QED BY <2>1, FS_Interval DEF Cid
<1>2. IsFiniteSet(A) /\ Cardinality(A) <= MaxCid
  BY <1>1, FS_Subset
<1>3. Cardinality(A) \in Nat
  BY <1>2, FS_CardinalityType
<1>4. ASSUME NEW B \in SUBSET A PROVE IsFiniteSet(B) /\ Cardinality(B) \in Nat /\ Cardinality(B) <= Cardinality(A)
  <2>1. IsFiniteSet(B) /\ Cardinality(B) <= Cardinality(A)
    BY <1>2, FS_Subset
  <2> QED BY <2>1, FS_CardinalityType
<1>5. ASSUME NEW c \in Cid PROVE Cardinality(A \cup {c}) \in Nat /\ Cardinality(A \cup {c}) <= Cardinality(A) + 1
  BY <1>2, <1>3, FS_AddElement
<1>6. ASSUME NEW B \in SUBSET A, NEW c \in A, c \notin B PROVE Cardinality(B) + 1 <= Cardinality(A)
  <2>1. B \cup {c} \subseteq A
    BY <1>6
  <2>2. Cardinality(B \cup {c}) <= Cardinality(A)
    BY <2>1, <1>2, FS_Subset
  <2>3. Cardinality(B \cup {c}) = Cardinality(B) + 1
    BY <1>4, <1>6, FS_AddElement
  <2> QED BY <2>2, <2>3
<1>7. Cid \subseteq A => Cardinality(A) = MaxCid
  <2>1. Cid \subseteq A => A = Cid
    OBVIOUS
  <2> QED BY <1>1, <2>1
<1> QED BY <1>2, <1>3, <1>4, <1>5, <1>6, <1>7

\* The load of a host is a number, over identifiers.
LEMMA LoadType ==
  ASSUME NEW ch \in [Host -> Chans], NEW q, NEW h \in Host
  PROVE  /\ DOMAIN ch[h] \in SUBSET Cid /\ Asking(q, h) \in SUBSET Cid /\ Asking(q, Peer(h)) \in SUBSET Cid
         /\ Cardinality(DOMAIN ch[h]) \in Nat /\ Cardinality(Asking(q, Peer(h))) \in Nat
         /\ Load(ch, q, h) \in Nat
<1>1. DOMAIN ch[h] \in SUBSET Cid
  BY ChansType
<1>2. Asking(q, h) \in SUBSET Cid /\ Asking(q, Peer(h)) \in SUBSET Cid
  BY DEF Asking
<1> HIDE DEF Asking
<1>3. Cardinality(DOMAIN ch[h]) \in Nat /\ Cardinality(Asking(q, Peer(h))) \in Nat
  BY <1>1, <1>2, CidSets
<1> QED BY <1>1, <1>2, <1>3 DEF Load

\* What is asked after the first packet of h was handled: nothing new, and not what was accepted.
LEMMA HandledAsking ==
  ASSUME NEW ch, NEW q, NEW h \in Host, NEW s, Facing(ch, q, h, s), NEW r, Handles(ch, q, h, s, r),
         NEW t, t = Sent(q, h, Peer(h), r.out)
  PROVE  /\ \A x \in Host : Asking(t, x) \subseteq Asking(q, x)
         /\ Head(q[h]).type = "ConnReq" => \E c \in Asking(q, h) : c \notin Asking(t, h)
<1> DEFINE g == Peer(h)
           a == q[h]
           b == q[g]
           out == r.out
<1>1. g \in Host /\ g # h /\ \A x \in Host : x = h \/ x = g
  BY HostFacts
<1>2. /\ q \in [Host -> Seq(PacketSet)] /\ a \in Seq(PacketSet) /\ a # <<>> /\ b \in Seq(PacketSet)
      /\ out \in Seq(PacketSet) /\ \A k \in DOMAIN out : out[k].type # "ConnReq"
  BY <1>1 DEF Facing, Handles
<1>3. t[h] = Tail(a) /\ t[g] = b \o out
  BY <1>1, <1>2 DEF Sent
<1>g. g = Peer(h)
  OBVIOUS
<1>qa. q[h] = a /\ q[g] = b
  OBVIOUS
<1> HIDE DEF a, b, out
<1>4. ASSUME NEW i \in Nat, NEW c, NEW m, Req(t, h, i, c, m) PROVE Req(q, h, i + 1, c, m) /\ i # 0 /\ i + 1 # 1
  <2>1. i \in DOMAIN Tail(a) /\ Tail(a)[i].type = "ConnReq" /\ Tail(a)[i].body = [psm |-> m, src |-> c]
    BY <1>3, <1>4 DEF Req
  <2>2. i # 0 /\ i + 1 \in DOMAIN a /\ Tail(a)[i] = a[i + 1]
    BY <1>2, <2>1, QueueTail
  <2>3. i + 1 # 1
    BY <2>2
  <2> QED BY <1>qa, <2>1, <2>2, <2>3 DEF Req
<1>5. ASSUME NEW i \in Nat, NEW c, NEW m, Req(t, g, i, c, m) PROVE Req(q, g, i, c, m)
  <2>1. i \in DOMAIN (b \o out) /\ (b \o out)[i].type = "ConnReq" /\ (b \o out)[i].body = [psm |-> m, src |-> c]
    BY <1>3, <1>5 DEF Req
  <2>2. i \in DOMAIN b \/ (i - Len(b) \in DOMAIN out /\ (b \o out)[i] = out[i - Len(b)])
    BY <1>2, <2>1, QueueMore
  <2>3. i \in DOMAIN b
    BY <1>2, <2>1, <2>2
  <2>4. (b \o out)[i] = b[i]
    BY <1>2, <2>3, QueueMore
  <2> QED BY <1>qa, <2>1, <2>3, <2>4 DEF Req
<1>6. \A i \in Nat : i + 1 \in Nat
  OBVIOUS
<1>7. Asking(t, h) \subseteq Asking(q, h)
  BY <1>4, <1>6 DEF Asking
<1>8. Asking(t, g) \subseteq Asking(q, g)
  BY <1>5 DEF Asking
<1>9. ASSUME Head(q[h]).type = "ConnReq" PROVE \E c \in Asking(q, h) : c \notin Asking(t, h)
  <2> DEFINE c == Head(q[h]).body.src
             m == Head(q[h]).body.psm
  <2>1. Req(q, h, 1, c, m) /\ c \in 0 .. MaxCid /\ m \in Psms /\ Handshake(ch, q) /\ ch \in [Host -> Chans]
    BY <1>9, Faced DEF Known
  <2> HIDE DEF c, m
  <2>2. Waits(ch, h, c) /\ \A j \in Nat, n \in Psms : Req(q, h, j, c, n) => j = 1
    BY <1>g, <2>1, AskedOf
  <2>3. c \in Cid
    BY <2>1, <2>2, ChansType DEF Waits
  <2>4. c \in Asking(q, h)
    BY <2>1, <2>3 DEF Asking
  <2>5. c \notin Asking(t, h)
    BY <1>4, <1>6, <2>2 DEF Asking
  <2> QED BY <2>4, <2>5
<1> QED BY <1>1, <1>7, <1>8, <1>9

\* Handling a packet adds no load.
LEMMA HandledLoad ==
  ASSUME NEW ch, NEW q, NEW h \in Host, NEW s, Facing(ch, q, h, s), NEW r, Handles(ch, q, h, s, r)
  PROVE  \A x \in Host : Load([ch EXCEPT ![Peer(h)] = r.s.chan], Sent(q, h, Peer(h), r.out), x) <= Load(ch, q, x)
<1> DEFINE g == Peer(h)
           t == Sent(q, h, g, r.out)
           ch2 == [ch EXCEPT ![g] = r.s.chan]
           N == DOMAIN r.s.chan
           D == DOMAIN s.chan
<1>1. g \in Host /\ g # h /\ Peer(g) = h /\ \A x \in Host : x = h \/ x = g
  BY HostFacts
<1>2. /\ ch \in [Host -> Chans] /\ ch[g] = s.chan /\ s.chan \in Chans
      /\ r.s.chan \in Chans
      /\ N \subseteq D \/ (Head(q[h]).type = "ConnReq" /\ \E d \in Cid : N = D \cup {d})
  BY HostFields DEF Facing, Handles
<1>3. ch2 \in [Host -> Chans] /\ ch2[g] = r.s.chan /\ ch2[h] = ch[h]
  BY <1>1, <1>2, ChansWith
<1> DEFINE A == Asking(q, h)
           B == Asking(q, g)
           A2 == Asking(t, h)
           B2 == Asking(t, g)
<1>4. A2 \subseteq A /\ B2 \subseteq B /\ (Head(q[h]).type = "ConnReq" => \E c \in A : c \notin A2)
  BY <1>1, HandledAsking
<1>5. D \in SUBSET Cid /\ A \in SUBSET Cid /\ B \in SUBSET Cid
  BY <1>1, <1>2, LoadType
<1>6. N \in SUBSET Cid /\ A2 \in SUBSET Cid /\ B2 \in SUBSET Cid
  BY <1>1, <1>3, LoadType
<1>7. Load(ch2, t, h) = Cardinality(DOMAIN ch[h]) + Cardinality(B2) /\ Load(ch, q, h) = Cardinality(DOMAIN ch[h]) + Cardinality(B)
  BY <1>3 DEF Load
<1>8. Load(ch2, t, g) = Cardinality(N) + Cardinality(A2) /\ Load(ch, q, g) = Cardinality(D) + Cardinality(A)
  BY <1>1, <1>2, <1>3 DEF Load
<1>n. Cardinality(DOMAIN ch[h]) \in Nat
  BY <1>2, LoadType
<1> HIDE DEF A, B, A2, B2, N, D, t, ch2
<1>9. Cardinality(B2) <= Cardinality(B) /\ Cardinality(B) \in Nat /\ Cardinality(B2) \in Nat
  BY <1>4, <1>5, <1>6, CidSets
<1>10. Cardinality(N) + Cardinality(A2) <= Cardinality(D) + Cardinality(A)
  <2>1. /\ Cardinality(N) \in Nat /\ Cardinality(D) \in Nat /\ Cardinality(A) \in Nat /\ Cardinality(A2) \in Nat
        /\ Cardinality(A2) <= Cardinality(A)
    BY <1>4, <1>5, <1>6, CidSets
  <2>2. CASE N \subseteq D
    <3>1. Cardinality(N) <= Cardinality(D)
      BY <1>5, <2>2, CidSets
    <3> QED BY <2>1, <3>1
  <2>3. CASE Head(q[h]).type = "ConnReq" /\ \E d \in Cid : N = D \cup {d}
    <3>1. Cardinality(N) <= Cardinality(D) + 1
      BY <1>5, <2>3, CidSets
    <3>2. Cardinality(A2) + 1 <= Cardinality(A)
      BY <1>4, <1>5, <2>3, CidSets
    <3> QED BY <2>1, <3>1, <3>2
  <2> QED BY <1>2, <2>2, <2>3
<1>11. Load(ch2, t, h) <= Load(ch, q, h)
  BY <1>7, <1>9, <1>n
<1> QED BY <1>1, <1>8, <1>10, <1>11 DEF t, ch2

\* A host asks for at most one channel at a time.
LEMMA AsksOne ==
  ASSUME NEW s \in HostSet, NEW t, NEW out, Asks(s, t, out)
  PROVE  \/ t.chan = s.chan /\ out = <<>> /\ Len(out) = 0
         \/ \E c \in Cid, m \in Psms :
              /\ DOMAIN t.chan = (DOMAIN s.chan) \cup {c} /\ Len(out) = 1
              /\ out = <<[handle |-> s.conn, type |-> "ConnReq", dst |-> 0, body |-> [psm |-> m, src |-> c]]>>
<1>1. CASE ~(t.chan = s.chan /\ out = <<>>)
  <2>1. PICK c \in Cid, m \in Psms :
            /\ c \notin DOMAIN s.chan /\ t.chan = With(s.chan, c, Channel(m, 0, "WaitConnectRsp"))
            /\ out = <<[handle |-> s.conn, type |-> "ConnReq", dst |-> 0, body |-> [psm |-> m, src |-> c]]>>
    BY <1>1 DEF Asks
  <2>2. DOMAIN t.chan = (DOMAIN s.chan) \cup {c}
    BY <2>1 DEF With
  <2>3. Len(out) = 1
    <3> DEFINE a == [handle |-> s.conn, type |-> "ConnReq", dst |-> 0, body |-> [psm |-> m, src |-> c]]
    <3>1. out = <<a>>
      BY <2>1
    <3> HIDE DEF a
    <3> QED BY <3>1
  <2> QED BY <2>1, <2>2, <2>3
<1> QED BY <1>1

\* What one count gains another loses.
LEMMA Sums ==
  ASSUME NEW k \in Nat, NEW a \in Nat, NEW b \in Nat, NEW n \in Nat, NEW c \in Nat, NEW d \in Nat,
         a <= b + n, c + n <= d
  PROVE  (k + a) + c <= (k + b) + d /\ (a + k) + c <= (b + k) + d
OBVIOUS

\* A poll adds no load but what the host was asked to open.
LEMMA PolledLoad ==
  ASSUME NEW ch, NEW q, NEW g \in Host, NEW s, Polling(ch, q, g, s), NEW p, p = Poll(s)
  PROVE  \A x \in Host : Load([ch EXCEPT ![g] = p.s.chan], More(q, g, p.out), x) + Len(p.s.opens)
                           <= Load(ch, q, x) + Len(s.opens)
<1> DEFINE h == Peer(g)
           u == More(q, g, p.out)
           ch2 == [ch EXCEPT ![g] = p.s.chan]
<1>1. h \in Host /\ h # g /\ Peer(h) = g /\ \A x \in Host : x = h \/ x = g
  BY HostFacts
<1>2. ch \in [Host -> Chans] /\ s \in HostSet /\ s.conn = links /\ links \in Nat /\ ch[g] = s.chan
  BY DEF Polling
<1>3. p.s \in HostSet /\ ch2 \in [Host -> Chans]
  BY PollSent
<1>4. PICK v, out : /\ v \in [Host -> Seq(PacketSet)] /\ SameReq(q, v) /\ v[g] \in Seq(PacketSet)
                    /\ u = More(v, g, out) /\ Asks(s, p.s, out)
                    /\ Len(p.s.opens) + Len(out) <= Len(s.opens)
  <2>1. AsksAfter(q, u, g, s, p.s)
    BY PollSent
  <2> HIDE DEF u
  <2> QED BY <2>1 DEF AsksAfter
<1>5. p.s.chan \in Chans /\ ch2[g] = p.s.chan /\ ch2[h] = ch[h] /\ DOMAIN v = Host
  BY <1>1, <1>2, <1>3, <1>4, HostFields, ChansWith
<1>6. \A x \in Host : Asking(v, x) = Asking(q, x)
  BY <1>4 DEF Asking, SameReq
<1>7. Len(p.s.opens) \in Nat /\ Len(s.opens) \in Nat
  <2>1. p.s.opens \in Seq(Psms) /\ s.opens \in Seq(Psms)
    BY <1>2, <1>3, HostFields
  <2> QED BY <2>1
<1> DEFINE A == Asking(q, h)
           B == Asking(q, g)
           D == DOMAIN s.chan
           N == DOMAIN p.s.chan
<1>8. A \in SUBSET Cid /\ B \in SUBSET Cid /\ D \in SUBSET Cid /\ Cardinality(DOMAIN ch[h]) \in Nat
  BY <1>1, <1>2, LoadType
<1>9. /\ Load(ch2, u, h) = Cardinality(DOMAIN ch[h]) + Cardinality(Asking(u, g))
      /\ Load(ch, q, h) = Cardinality(DOMAIN ch[h]) + Cardinality(B)
      /\ Load(ch2, u, g) = Cardinality(N) + Cardinality(Asking(u, h))
      /\ Load(ch, q, g) = Cardinality(D) + Cardinality(A)
  BY <1>1, <1>2, <1>5 DEF Load
<1>10. /\ Asking(u, h) = A
       /\ \/ N = D /\ Asking(u, g) = B /\ Len(out) = 0
          \/ \E c \in Cid : N = D \cup {c} /\ Asking(u, g) \subseteq B \cup {c} /\ Len(out) = 1
  <2> HIDE DEF ch2, A, B
  <2>1. CASE p.s.chan = s.chan /\ out = <<>> /\ Len(out) = 0
    <3>1. \A x \in Host : u[x] = v[x]
      BY <1>4, <1>5, <2>1, MoreNone
    <3>2. \A x \in Host : Asking(u, x) = Asking(v, x)
      BY <3>1 DEF Asking, Req
    <3> QED BY <1>1, <1>6, <2>1, <3>2 DEF A, B
  <2>2. ASSUME NEW c \in Cid, NEW m \in Psms, N = D \cup {c}, Len(out) = 1,
               out = <<[handle |-> s.conn, type |-> "ConnReq", dst |-> 0, body |-> [psm |-> m, src |-> c]]>>
        PROVE  Asking(u, h) = A /\ Asking(u, g) \subseteq B \cup {c}
    <3> DEFINE a == [handle |-> s.conn, type |-> "ConnReq", dst |-> 0, body |-> [psm |-> m, src |-> c]]
               n == Len(v[g]) + 1
    <3>1. a \in PacketSet /\ a.type = "ConnReq" /\ a.body.src = c /\ a.body.psm = m
      BY <1>2, HostFacts DEF PacketSet
    <3>2. u = More(v, g, <<a>>)
      BY <1>4, <2>2
    <3> HIDE DEF a, u, n, h
    <3>3. GainReq(v, u, g, n, c, m)
      BY <1>4, <1>5, <3>1, <3>2, OneMore DEF n
    <3>4. Asking(u, h) = Asking(v, h)
      BY <1>1, <3>3 DEF GainReq, Asking
    <3>5. Asking(u, g) \subseteq Asking(v, g) \cup {c}
      BY <3>3 DEF GainReq, Asking
    <3> QED BY <1>1, <1>6, <3>4, <3>5 DEF A, B
  <2>3. CASE ~(p.s.chan = s.chan /\ out = <<>> /\ Len(out) = 0)
    <3>1. PICK c \in Cid, m \in Psms :
              /\ DOMAIN p.s.chan = (DOMAIN s.chan) \cup {c} /\ Len(out) = 1
              /\ out = <<[handle |-> s.conn, type |-> "ConnReq", dst |-> 0, body |-> [psm |-> m, src |-> c]]>>
      BY <1>2, <1>4, <2>3, AsksOne
    <3>2. Asking(u, h) = A /\ Asking(u, g) \subseteq B \cup {c}
      BY <2>2, <3>1, Zenon
    <3> QED BY <3>1, <3>2
  <2> QED BY <2>1, <2>3
<1> HIDE DEF A, B, D, N, u, ch2
<1>11. Cardinality(D) \in Nat /\ Cardinality(B) \in Nat /\ Cardinality(A) \in Nat
  BY <1>8, CidSets
<1>12. /\ Cardinality(N) \in Nat /\ Cardinality(Asking(u, g)) \in Nat /\ Len(out) \in Nat
       /\ Cardinality(N) <= Cardinality(D) + Len(out) /\ Cardinality(Asking(u, g)) <= Cardinality(B) + Len(out)
  <2>1. CASE N = D /\ Asking(u, g) = B /\ Len(out) = 0
    BY <1>11, <2>1
  <2>2. ASSUME NEW c \in Cid, N = D \cup {c}, Asking(u, g) \subseteq B \cup {c}, Len(out) = 1
        PROVE  /\ Cardinality(N) \in Nat /\ Cardinality(Asking(u, g)) \in Nat /\ Len(out) \in Nat
               /\ Cardinality(N) <= Cardinality(D) + Len(out) /\ Cardinality(Asking(u, g)) <= Cardinality(B) + Len(out)
    <3>1. Cardinality(N) \in Nat /\ Cardinality(N) <= Cardinality(D) + 1
      BY <1>8, <2>2, CidSets
    <3>2. B \cup {c} \in SUBSET Cid /\ Cardinality(B \cup {c}) \in Nat /\ Cardinality(B \cup {c}) <= Cardinality(B) + 1
      BY <1>8, CidSets
    <3>3. Cardinality(Asking(u, g)) \in Nat /\ Cardinality(Asking(u, g)) <= Cardinality(B \cup {c})
      BY <2>2, <3>2, CidSets
    <3> QED BY <1>11, <2>2, <3>1, <3>2, <3>3
  <2> QED BY <1>10, <2>1, <2>2
<1>o. Len(p.s.opens) + Len(out) <= Len(s.opens)
  BY <1>4
<1>13. Load(ch2, u, h) + Len(p.s.opens) <= Load(ch, q, h) + Len(s.opens)
  <2>1. (Cardinality(DOMAIN ch[h]) + Cardinality(Asking(u, g))) + Len(p.s.opens)
           <= (Cardinality(DOMAIN ch[h]) + Cardinality(B)) + Len(s.opens)
    BY <1>o, <1>7, <1>8, <1>11, <1>12, Sums
  <2> QED BY <1>9, <2>1
<1>14. Load(ch2, u, g) + Len(p.s.opens) <= Load(ch, q, g) + Len(s.opens)
  <2>1. Cardinality(Asking(u, h)) = Cardinality(A)
    BY <1>10
  <2>2. (Cardinality(N) + Cardinality(A)) + Len(p.s.opens) <= (Cardinality(D) + Cardinality(A)) + Len(s.opens)
    BY <1>o, <1>7, <1>11, <1>12, Sums
  <2> QED BY <1>9, <2>1, <2>2
<1> QED BY <1>1, <1>13, <1>14 DEF u, ch2

\* A poll while the link is down reaches no controller.
LEMMA PollKept ==
  ASSUME NEW s \in HostSet, s.served \subseteq OpenCids(s), ~isUp, NEW p, p = Poll(s)
  PROVE  /\ p.s \in HostSet /\ p.s.conn = s.conn /\ p.s.served \subseteq OpenCids(p.s) /\ p.out = <<>>
         /\ Cardinality(DOMAIN p.s.chan) + Len(p.s.opens) <= Cardinality(DOMAIN s.chan) + Len(s.opens)
         /\ Len(p.s.opens) <= Len(s.opens)
         /\ s.conn = 0 => p.s = s
<1>1. /\ p.s \in HostSet /\ p.s.conn = s.conn /\ p.s.served \subseteq OpenCids(s)
      /\ \E data, out : Gives(s, p, data, out)
      /\ s.conn = 0 => p.s = s
  BY PollType
<1>p. PICK data, out : Gives(s, p, data, out)
  BY <1>1
<1>2. /\ data \in Seq(DataSet) /\ Asks(s, p.s, out) /\ p.out = Taken(data) \o Taken(out)
      /\ Len(p.s.opens) + Len(out) <= Len(s.opens)
  BY <1>p DEF Gives
<1>3. p.s.served \subseteq OpenCids(p.s)
  BY <1>1, <1>2, AskServed
<1> DEFINE D == DOMAIN s.chan
           N == DOMAIN p.s.chan
<1>4. D \in SUBSET Cid /\ N \in SUBSET Cid
  <2>1. s.chan \in Chans /\ p.s.chan \in Chans
    BY <1>1, HostFields
  <2> QED BY <2>1 DEF Chans
<1>5. Len(p.s.opens) \in Nat /\ Len(s.opens) \in Nat
  <2>1. p.s.opens \in Seq(Psms) /\ s.opens \in Seq(Psms)
    BY <1>1, HostFields
  <2> QED BY <2>1
<1>6. Taken(data) = <<>>
  BY <1>2, TakenPart
<1>7. CASE p.s.chan = s.chan /\ out = <<>> /\ Len(out) = 0
  <2>1. p.out = <<>>
    <3>1. <<>> \o <<>> = <<>>
      OBVIOUS
    <3> QED BY <1>2, <1>6, <1>7, <3>1, TakenNothing
  <2>2. Cardinality(N) = Cardinality(D) /\ Cardinality(D) \in Nat
    BY <1>4, <1>7, CidSets
  <2> QED BY <1>1, <1>2, <1>3, <1>5, <1>7, <2>1, <2>2
<1>8. CASE ~(p.s.chan = s.chan /\ out = <<>> /\ Len(out) = 0)
  <2>1. PICK c \in Cid, m \in Psms :
            /\ N = D \cup {c} /\ Len(out) = 1
            /\ out = <<[handle |-> s.conn, type |-> "ConnReq", dst |-> 0, body |-> [psm |-> m, src |-> c]]>>
    BY <1>2, <1>8, AsksOne
  <2> DEFINE a == [handle |-> s.conn, type |-> "ConnReq", dst |-> 0, body |-> [psm |-> m, src |-> c]]
  <2>2. out = <<a>>
    BY <2>1
  <2>3. Taken(<<a>>) = <<>>
    <3> HIDE DEF a
    <3>1. <<a>> \in Seq({a})
      OBVIOUS
    <3> QED BY <3>1, TakenPart
  <2>4. p.out = <<>>
    <3>1. <<>> \o <<>> = <<>>
      OBVIOUS
    <3> HIDE DEF a
    <3> QED BY <1>2, <1>6, <2>2, <2>3, <3>1
  <2> HIDE DEF D, N
  <2>5. Cardinality(N) <= Cardinality(D) + 1 /\ Cardinality(D) \in Nat /\ Cardinality(N) \in Nat
    BY <1>4, <2>1, CidSets
  <2>6. Cardinality(N) + Len(p.s.opens) <= Cardinality(D) + Len(s.opens) /\ Len(p.s.opens) <= Len(s.opens)
    BY <1>2, <1>5, <2>1, <2>5
  <2> QED BY <1>1, <1>3, <2>4, <2>6 DEF D, N
<1> QED BY <1>7, <1>8

\* With identifiers enough, a request finds one free.
LEMMA RoomLeft ==
  ASSUME NEW ch, NEW q, NEW h \in Host, NEW s, Facing(ch, q, h, s), Roomy, Head(q[h]).type = "ConnReq",
         Load(ch, q, Peer(h)) <= 2 * MaxAsks
  PROVE  ~(Cid \subseteq DOMAIN s.chan)
<1> DEFINE g == Peer(h)
           A == Asking(q, h)
           D == DOMAIN s.chan
<1>1. g \in Host /\ Peer(g) = h /\ g = Peer(h)
  BY HostFacts
<1>2. ch \in [Host -> Chans] /\ ch[g] = s.chan /\ q \in [Host -> Seq(PacketSet)]
  BY DEF Facing
<1>3. D \in SUBSET Cid /\ A \in SUBSET Cid /\ Load(ch, q, g) = Cardinality(D) + Cardinality(A)
  BY <1>1, <1>2, LoadType DEF Load
<1>4. A # {}
  <2> DEFINE c == Head(q[h]).body.src
             m == Head(q[h]).body.psm
  <2>1. Req(q, h, 1, c, m) /\ c \in 0 .. MaxCid /\ m \in Psms /\ Handshake(ch, q)
    BY Faced DEF Known
  <2> HIDE DEF c, m
  <2>2. Waits(ch, h, c)
    BY <1>1, <2>1, AskedOf
  <2>3. c \in Cid
    BY <1>2, <2>1, <2>2, ChansType DEF Waits
  <2> QED BY <2>1, <2>3 DEF Asking
<1>m. MaxAsks \in Nat /\ MaxCid \in Nat
  BY HostAssumption
<1> HIDE DEF A, D
<1>5. PICK c \in A : TRUE
  BY <1>4
<1>6. Cardinality({}) + 1 <= Cardinality(A) /\ Cardinality({}) = 0
  <2>1. {} \in SUBSET A /\ c \notin {}
    OBVIOUS
  <2> QED BY <1>3, <2>1, CidSets, FS_EmptySet
<1>7. Cardinality(D) \in Nat /\ Cardinality(A) \in Nat /\ (Cid \subseteq D => Cardinality(D) = MaxCid)
  BY <1>3, CidSets
<1>8. ~(Cid \subseteq D)
  BY <1>3, <1>6, <1>7, <1>m DEF Roomy
<1> QED BY <1>8 DEF D

--------------------------------------------------------------------------------
(* One step of the hosts. *)

\* The channels of all hosts.
ChanOf(hs) == [h \in Host |-> hs[h].chan]

\* The channels of hosts, and the number of their requests.
LEMMA ChanOfType ==
  ASSUME NEW hs \in [Host -> HostSet]
  PROVE  /\ ChanOf(hs) \in [Host -> Chans]
         /\ \A h \in Host : ChanOf(hs)[h] = hs[h].chan /\ Len(hs[h].opens) \in Nat /\ Opens(hs, h) \in Nat
<1>1. \A h \in Host : hs[h].chan \in Chans /\ hs[h].opens \in Seq(Psms)
  BY HostFields
<1>2. \A h \in Host : Len(hs[h].opens) \in Nat /\ Peer(h) \in Host
  BY <1>1, HostFacts
<1>3. \A h \in Host : Opens(hs, h) \in Nat
  <2> SUFFICES ASSUME NEW h \in Host PROVE Opens(hs, h) \in Nat
    OBVIOUS
  <2> DEFINE k == Len(hs[h].opens)
             l == Len(hs[Peer(h)].opens)
  <2>1. k \in Nat /\ l \in Nat
    BY <1>2
  <2>2. Opens(hs, h) = k + l
    BY DEF Opens
  <2> HIDE DEF k, l
  <2> QED BY <2>1, <2>2
<1>4. ChanOf(hs) \in [Host -> Chans] /\ \A h \in Host : ChanOf(hs)[h] = hs[h].chan
  BY <1>1 DEF ChanOf
<1> QED BY <1>2, <1>3, <1>4

\* The count bounds what a host has and will be asked for.
LEMMA CountedBound ==
  ASSUME NEW hs \in [Host -> HostSet], NEW ch \in [Host -> Chans], NEW q, NEW a \in [Host -> 0 .. MaxAsks],
         Counted(ch, q, hs, a), NEW g \in Host
  PROVE  Load(ch, q, g) <= 2 * MaxAsks
<1>1. Load(ch, q, g) \in Nat /\ Opens(hs, g) \in Nat /\ Load(ch, q, g) + Opens(hs, g) <= a[g] + a[Peer(g)]
  BY LoadType, ChanOfType DEF Counted
<1>2. MaxAsks \in Nat /\ Peer(g) \in Host /\ a[g] \in 0 .. MaxAsks /\ a[Peer(g)] \in 0 .. MaxAsks
  BY HostFacts, HostAssumption
<1> QED BY <1>1, <1>2

\* One host changes; the count stays within what was asked.
LEMMA CountedAfter ==
  ASSUME NEW hs \in [Host -> HostSet], NEW ch \in [Host -> Chans], NEW q, NEW a,
         NEW ch2 \in [Host -> Chans], NEW q2, NEW g \in Host, NEW t \in HostSet,
         NEW hs2, hs2 = [hs EXCEPT ![g] = t],
         Counted(ch, q, hs, a), \A x \in Host : a[x] \in Nat,
         \A x \in Host : Load(ch2, q2, x) + Len(t.opens) <= Load(ch, q, x) + Len(hs[g].opens)
  PROVE  Counted(ch2, q2, hs2, a)
<1> DEFINE h == Peer(g)
           o == Len(hs[g].opens)
           o2 == Len(t.opens)
           p == Len(hs[h].opens)
<1>1. h \in Host /\ h # g /\ Peer(h) = g /\ \A x \in Host : x = h \/ x = g
  BY HostFacts
<1>2. hs2 \in [Host -> HostSet] /\ hs2[g] = t /\ hs2[h] = hs[h]
  BY <1>1
<1>3. o \in Nat /\ p \in Nat
  BY <1>1, ChanOfType
<1>4. o2 \in Nat
  <2>1. t.opens \in Seq(Psms)
    BY HostFields
  <2> QED BY <2>1
<1>5. Opens(hs, g) = o + p /\ Opens(hs, h) = p + o /\ Opens(hs2, g) = o2 + p /\ Opens(hs2, h) = p + o2
  BY <1>1, <1>2 DEF Opens
<1> HIDE DEF o, o2, p
<1>6. ASSUME NEW x \in Host PROVE Load(ch2, q2, x) + Opens(hs2, x) <= a[x] + a[Peer(x)]
  <2>1. Load(ch, q, x) \in Nat /\ Load(ch2, q2, x) \in Nat
    BY LoadType
  <2>2. Load(ch, q, x) + Opens(hs, x) <= a[x] + a[Peer(x)] /\ a[x] \in Nat /\ a[Peer(x)] \in Nat
    BY HostFacts DEF Counted
  <2>3. Load(ch2, q2, x) + o2 <= Load(ch, q, x) + o
    BY DEF o, o2
  <2>4. Opens(hs, x) = o + p /\ Opens(hs2, x) = o2 + p
    BY <1>1, <1>3, <1>4, <1>5
  <2> QED BY <1>3, <1>4, <2>1, <2>2, <2>3, <2>4
<1> QED BY <1>6 DEF Counted

\* Host g, which is or was the one in hs, polls as s while the link is up.
Polls(hs, q, a, ch, g, s, p, hs2, q2) ==
  /\ hs \in [Host -> HostSet] /\ g \in Host /\ Polling(ch, q, g, s)
  /\ \A x \in Host : x # g => ch[x] = hs[x].chan
  /\ s.opens = hs[g].opens /\ Counted(ch, q, hs, a) /\ \A x \in Host : a[x] \in Nat
  /\ p = Poll(s) /\ hs2 = [hs EXCEPT ![g] = p.s] /\ q2 = More(q, g, p.out)

\* Such a poll keeps the handshake, the count and what profiles believe.
LEMMA PollAdvances ==
  ASSUME NEW hs, NEW q, NEW a, NEW ch, NEW g, NEW s, NEW p, NEW hs2, NEW q2,
         Polls(hs, q, a, ch, g, s, p, hs2, q2)
  PROVE  /\ hs2 \in [Host -> HostSet] /\ hs2[g].conn = links /\ hs2[g].served \subseteq OpenCids(hs2[g])
         /\ \A x \in Host : x # g => hs2[x] = hs[x]
         /\ q2 \in [Host -> Seq(PacketSet)] /\ p.out \in Seq(PacketSet)
         /\ Handshake(ChanOf(hs2), q2) /\ Counted(ChanOf(hs2), q2, hs2, a)
<1>0. /\ hs \in [Host -> HostSet] /\ g \in Host /\ Polling(ch, q, g, s)
      /\ \A x \in Host : x # g => ch[x] = hs[x].chan
      /\ s.opens = hs[g].opens /\ Counted(ch, q, hs, a) /\ \A x \in Host : a[x] \in Nat
      /\ p = Poll(s) /\ hs2 = [hs EXCEPT ![g] = p.s] /\ q2 = More(q, g, p.out)
  BY DEF Polls
<1> USE <1>0
<1> DEFINE ch2 == [ch EXCEPT ![g] = p.s.chan]
<1>1. /\ p.s \in HostSet /\ p.s.conn = s.conn /\ p.s.served \subseteq OpenCids(p.s)
      /\ p.out \in Seq(PacketSet)
      /\ q2 \in [Host -> Seq(PacketSet)] /\ ch2 \in [Host -> Chans] /\ Handshake(ch2, q2)
  <2> DEFINE r == Poll(s)
             u == More(q, g, r.out)
             c == [ch EXCEPT ![g] = r.s.chan]
  <2>1. /\ r.s \in HostSet /\ r.s.conn = s.conn /\ r.s.served \subseteq OpenCids(r.s)
        /\ r.out \in Seq(PacketSet)
        /\ u \in [Host -> Seq(PacketSet)] /\ c \in [Host -> Chans] /\ Handshake(c, u)
    <3>1. r.s \in HostSet
      BY PollSent
    <3>7. r.s.conn = s.conn
      <4>1. s \in HostSet /\ s.served \subseteq OpenCids(s)
        BY DEF Polling
      <4> QED BY <4>1, PollType
    <3>6. r.s.served \subseteq OpenCids(r.s)
      BY PollSent, Zenon
    <3>2. r.out \in Seq(PacketSet)
      BY PollSent
    <3>3. u \in [Host -> Seq(PacketSet)]
      BY PollSent
    <3>4. c \in [Host -> Chans]
      BY PollSent
    <3>5. Handshake(c, u)
      BY PollSent
    <3> QED BY <3>1, <3>2, <3>3, <3>4, <3>5, <3>6, <3>7
  <2>2. p = r /\ q2 = u /\ ch2 = c
    OBVIOUS
  <2> HIDE DEF r, u, c, ch2
  <2> QED BY <2>1, <2>2
<1>2. ch \in [Host -> Chans] /\ s.conn = links
  BY DEF Polling
<1>3. hs2 \in [Host -> HostSet] /\ hs2[g] = p.s /\ \A x \in Host : x # g => hs2[x] = hs[x]
  BY <1>1
<1>4. ChanOf(hs2) = ch2
  <2>1. \A x \in Host : ChanOf(hs2)[x] = ch2[x]
    BY <1>1, <1>2, <1>3, ChanOfType
  <2> QED BY <1>1, <1>3, <2>1, ChanOfType
<1>5. Counted(ch2, q2, hs2, a)
  <2>1. \A x \in Host : Load(ch2, q2, x) + Len(p.s.opens) <= Load(ch, q, x) + Len(hs[g].opens)
    BY PolledLoad
  <2> HIDE DEF ch2
  <2> DEFINE t == p.s
  <2>2. t \in HostSet /\ hs2 = [hs EXCEPT ![g] = t] /\ \A x \in Host : Load(ch2, q2, x) + Len(t.opens) <= Load(ch, q, x) + Len(hs[g].opens)
    BY <1>1, <2>1
  <2> HIDE DEF t
  <2> QED BY <1>1, <1>2, <2>2, CountedAfter
<1> HIDE DEF ch2
<1> QED BY <1>1, <1>2, <1>3, <1>4, <1>5

\* The handler's answers and then the poll's packets.
LEMMA SentMore ==
  ASSUME NEW q \in [Host -> Seq(PacketSet)], NEW h \in Host, NEW g, g = Peer(h),
         NEW a \in Seq(PacketSet), NEW b \in Seq(PacketSet)
  PROVE  More(Sent(q, h, g, a), g, b) = Sent(q, h, g, a \o b)
<1> DEFINE z == q[g]
<1>1. g \in Host /\ g # h
  BY HostFacts
<1>2. z \in Seq(PacketSet)
  BY <1>1
<1> HIDE DEF z
<1>3. (z \o a) \o b = z \o (a \o b)
  BY <1>2, ConcatAssociative
<1> QED BY <1>1, <1>3 DEF More, Sent, z

\* What is known of the parts of the state.
LEMMA TypeFacts ==
  ASSUME TypeOK, NEW h \in Host
  PROVE  /\ host[h] \in HostSet /\ host[h].chan \in Chans /\ held[h] \in Seq(PacketSet) /\ done[h] \in Nat
         /\ host[h].conn \in Nat /\ DOMAIN host[h].chan \in SUBSET Cid
         /\ ChanOf(host) = Channels /\ Channels \in [Host -> Chans] /\ Channels[h] = host[h].chan
         /\ \A x \in Host : asked[x] \in Nat
<1>1. host[h] \in HostSet /\ held[h] \in Seq(PacketSet) /\ done[h] \in Nat /\ host \in [Host -> HostSet]
  BY DEF TypeOK
<1>2. host[h].chan \in Chans /\ host[h].conn \in Nat
  BY <1>1, HostFields
<1>3. ChanOf(host) = Channels
  BY DEF ChanOf, Channels
<1>4. ChanOf(host) \in [Host -> Chans] /\ ChanOf(host)[h] = host[h].chan
  BY <1>1, ChanOfType
<1>5. \A x \in Host : asked[x] \in Nat
  BY HostAssumption DEF TypeOK
<1>6. DOMAIN host[h].chan \in SUBSET Cid
  BY <1>2 DEF Chans
<1> QED BY <1>1, <1>2, <1>3, <1>4, <1>5, <1>6

\* What a step of the hosts while the link is up must show.
Steps(hs, q) ==
  /\ hs \in [Host -> HostSet] /\ q \in [Host -> Seq(PacketSet)]
  /\ \A h \in Host : hs[h].conn = links /\ hs[h].served \subseteq OpenCids(hs[h])
  /\ Handshake(ChanOf(hs), q) /\ Counted(ChanOf(hs), q, hs, asked)

\* A host handles a packet of the other while the link is up.
LEMMA DeliverSteps ==
  ASSUME Inv, NEW h \in Host, Deliver(h)
  PROVE  Steps(host', held')
<1> DEFINE g == Peer(h)
           s == host[g]
           r == HandleAcl(s, g, Head(held[h]))
           ch == Channels
           ch1 == [ch EXCEPT ![g] = r.s.chan]
           q1 == Sent(held, h, g, r.out)
           p == Poll(r.s)
           hs2 == [host EXCEPT ![g] = p.s]
           q2 == More(q1, g, p.out)
<1>1. g \in Host /\ g # h /\ Peer(g) = h /\ \A x \in Host : x = h \/ x = g
  BY HostFacts
<1>2. /\ isUp /\ held[h] # <<>> /\ \A x \in Host : host[x].conn = links
      /\ Handshake(ch, held) /\ Counted(ch, held, host, asked)
      /\ \A x \in Host : host[x].served \subseteq OpenCids(host[x])
  BY DEF Deliver, Inv, Linked, ProfilesInformed
<1>3. /\ TypeOK /\ s \in HostSet /\ ch \in [Host -> Chans] /\ s.chan = ch[g]
      /\ \A x \in Host : ch[x] = host[x].chan
  BY <1>1, TypeFacts DEF Inv
<1>4. /\ held \in [Host -> Seq(PacketSet)] /\ links \in Nat /\ asked \in [Host -> 0 .. MaxAsks]
      /\ host \in [Host -> HostSet]
  BY <1>3 DEF TypeOK
<1>5. Facing(ch, held, h, s)
  BY <1>1, <1>2, <1>3, <1>4 DEF Facing
<1> HIDE DEF ch
<1>6. Load(ch, held, g) <= 2 * MaxAsks
  BY <1>1, <1>2, <1>3, <1>4, CountedBound
<1>7. Handles(ch, held, h, s, r)
  BY <1>5, <1>6, AclHandled, RoomLeft
<1> HIDE DEF r
<1>8. /\ q1 \in [Host -> Seq(PacketSet)] /\ ch1 \in [Host -> Chans] /\ Handshake(ch1, q1)
  BY <1>5, <1>7, HandledSent
<1>9. /\ r.s \in HostSet /\ r.s.conn = s.conn /\ r.s.opens = s.opens /\ r.s.served \subseteq OpenCids(r.s)
      /\ r.out \in Seq(PacketSet) /\ \A k \in DOMAIN r.out : r.out[k].handle = links
  BY <1>7 DEF Handles
<1>10. \A x \in Host : Load(ch1, q1, x) <= Load(ch, held, x)
  BY <1>5, <1>7, HandledLoad
<1>11. ch1[g] = r.s.chan /\ \A x \in Host : x # g => ch1[x] = host[x].chan
  BY <1>1, <1>3, <1>9, HostFields, ChansWith
<1> HIDE DEF q1, ch1
<1>12. Counted(ch1, q1, host, asked)
  <2> SUFFICES ASSUME NEW x \in Host PROVE Load(ch1, q1, x) + Opens(host, x) <= asked[x] + asked[Peer(x)]
    BY DEF Counted
  <2>1. Load(ch, held, x) + Opens(host, x) <= asked[x] + asked[Peer(x)] /\ Opens(host, x) \in Nat
    BY <1>2, <1>4, ChanOfType DEF Counted
  <2>2. Load(ch1, q1, x) \in Nat /\ Load(ch, held, x) \in Nat
    BY <1>3, <1>8, LoadType
  <2>3. asked[x] \in Nat /\ asked[Peer(x)] \in Nat
    BY <1>3, HostFacts, TypeFacts
  <2>4. Load(ch1, q1, x) <= Load(ch, held, x)
    BY <1>10
  <2> QED BY <2>1, <2>2, <2>3, <2>4
<1>13. Polling(ch1, q1, g, r.s)
  BY <1>1, <1>2, <1>4, <1>8, <1>9, <1>11 DEF Polling
<1>14. r.s.opens = host[g].opens
  BY <1>9
<1>15. \A x \in Host : asked[x] \in Nat
  BY <1>1, <1>3, TypeFacts
<1> HIDE DEF s
<1>16. /\ hs2 \in [Host -> HostSet] /\ hs2[g].conn = links /\ hs2[g].served \subseteq OpenCids(hs2[g])
       /\ \A x \in Host : x # g => hs2[x] = host[x]
       /\ q2 \in [Host -> Seq(PacketSet)] /\ p.out \in Seq(PacketSet)
       /\ Handshake(ChanOf(hs2), q2) /\ Counted(ChanOf(hs2), q2, hs2, asked)
  <2> DEFINE t == r.s
  <2>1. /\ t.opens = host[g].opens /\ Polling(ch1, q1, g, t) /\ p = Poll(t)
        /\ hs2 = [host EXCEPT ![g] = p.s] /\ q2 = More(q1, g, p.out)
    BY <1>13, <1>14
  <2> HIDE DEF t, p, hs2, q2
  <2>2. Polls(host, q1, asked, ch1, g, t, p, hs2, q2)
    BY <1>1, <1>4, <1>11, <1>12, <1>15, <2>1 DEF Polls
  <2> QED BY <2>2, PollAdvances
<1>17. Taken(r.out) = r.out
  BY <1>2, <1>9, TakenPart
<1>18. Handled(g, r) = [s |-> p.s, out |-> r.out \o p.out]
  BY <1>17 DEF Handled
<1>19. host' = hs2 /\ held' = Sent(held, h, g, r.out \o p.out)
  <2> DEFINE R == Handled(g, HandleAcl(host[g], g, Head(held[h])))
  <2>1. host' = [host EXCEPT ![g] = R.s] /\ held' = [held EXCEPT ![h] = Tail(@), ![g] = @ \o R.out]
    BY DEF Deliver
  <2>2. R = [s |-> p.s, out |-> r.out \o p.out]
    <3> HIDE DEF p
    <3> QED BY <1>18 DEF r, s
  <2> HIDE DEF R, p
  <2> QED BY <2>1, <2>2 DEF Sent
<1>20. q2 = Sent(held, h, g, r.out \o p.out)
  <2> DEFINE a == r.out
             b == p.out
  <2>1. a \in Seq(PacketSet) /\ b \in Seq(PacketSet) /\ q1 = Sent(held, h, g, a) /\ q2 = More(q1, g, b)
    BY <1>9, <1>16 DEF q1
  <2> HIDE DEF a, b, q2
  <2>2. g = Peer(h)
    OBVIOUS
  <2> HIDE DEF g
  <2>3. q2 = Sent(held, h, g, a \o b)
    BY <1>4, <2>1, <2>2, SentMore
  <2> QED BY <2>3 DEF a, b, g
<1>21. \A x \in Host : hs2[x].conn = links /\ hs2[x].served \subseteq OpenCids(hs2[x])
  BY <1>1, <1>2, <1>16
<1> HIDE DEF hs2, q2, p
<1> QED BY <1>16, <1>19, <1>20, <1>21 DEF Steps

\* Host s is host h as a poll finds it: its link, channels and requests are the same.
Alike(h, s) ==
  /\ s \in HostSet /\ s.conn = host[h].conn /\ s.chan = host[h].chan
  /\ s.opens = host[h].opens /\ s.served = host[h].served

\* A host and its controller after a poll.
PollOf(h, s, hs, q) == hs = [host EXCEPT ![h] = Poll(s).s] /\ q = More(held, h, Poll(s).out)

\* A handler that sends nothing and then a poll.
LEMMA QuietHandler ==
  ASSUME TypeOK, NEW h \in Host, NEW s, s \in HostSet, s.served \subseteq OpenCids(s), NEW r, r = [s |-> s, out |-> <<>>]
  PROVE  Handled(h, r) = Poll(s)
<1>1. \E data, out : Gives(s, Poll(s), data, out)
  BY PollType
<1>2. Poll(s).out \in Seq(PacketSet)
  <2>0. PICK data, out : Gives(s, Poll(s), data, out)
    BY <1>1
  <2>1. data \in Seq(DataSet) /\ Asks(s, Poll(s).s, out) /\ Poll(s).out = Taken(data) \o Taken(out)
    BY <2>0 DEF Gives
  <2>2. Taken(data) \in Seq(PacketSet)
    BY <2>1, TakenPart, DataPackets
  <2>3. s.conn \in Nat
    BY HostFields
  <2>4. out \in Seq(PacketSet)
    <3>1. CASE out = <<>>
      BY <3>1
    <3>2. CASE out # <<>>
      <4>1. PICK c \in Cid, m \in Psms :
              out = <<[handle |-> s.conn, type |-> "ConnReq", dst |-> 0, body |-> [psm |-> m, src |-> c]]>>
        BY <2>1, <3>2 DEF Asks
      <4> DEFINE a == [handle |-> s.conn, type |-> "ConnReq", dst |-> 0, body |-> [psm |-> m, src |-> c]]
      <4>2. a \in PacketSet
        BY <2>3, HostFacts DEF PacketSet
      <4>3. out = <<a>>
        BY <4>1
      <4> HIDE DEF a
      <4> QED BY <4>2, <4>3
    <3> QED BY <3>1, <3>2
  <2>5. Taken(out) \in Seq(PacketSet)
    BY <2>4, TakenPart
  <2> QED BY <2>1, <2>2, <2>5
<1>3. Poll(s) = [s |-> Poll(s).s, out |-> Poll(s).out]
  BY DEF Poll
<1> DEFINE p == Poll(s)
           w == p.out
<1>4. w \in Seq(PacketSet)
  BY <1>2
<1> HIDE DEF p, w
<1>5. <<>> \o w = w
  BY <1>4
<1>6. Handled(h, r) = [s |-> p.s, out |-> Taken(<<>>) \o p.out]
  BY DEF Handled, p
<1> QED BY <1>3, <1>5, <1>6, TakenNothing DEF p, w

\* While the link is up.
LEMMA PollSteps ==
  ASSUME Inv, isUp, NEW h \in Host, NEW s, Alike(h, s), NEW hs, NEW q, PollOf(h, s, hs, q)
  PROVE  Steps(hs, q)
<1> DEFINE ch == Channels
           p == Poll(s)
<1>1. /\ \A x \in Host : host[x].conn = links /\ host[x].served \subseteq OpenCids(host[x])
      /\ Handshake(ch, held) /\ Counted(ch, held, host, asked)
  BY DEF Inv, Linked, ProfilesInformed
<1>2. /\ TypeOK /\ ch \in [Host -> Chans] /\ \A x \in Host : ch[x] = host[x].chan /\ asked[x] \in Nat
  BY TypeFacts DEF Inv
<1>3. held \in [Host -> Seq(PacketSet)] /\ links \in Nat /\ host \in [Host -> HostSet]
  BY <1>2 DEF TypeOK
<1>4. /\ s \in HostSet /\ s.conn = links /\ s.chan = ch[h] /\ s.opens = host[h].opens
      /\ s.served \subseteq OpenCids(s)
  BY <1>1, <1>2 DEF Alike, OpenCids
<1> HIDE DEF ch
<1>5. Polling(ch, held, h, s)
  BY <1>1, <1>2, <1>3, <1>4 DEF Polling
<1>6. Polls(host, held, asked, ch, h, s, p, hs, q)
  BY <1>1, <1>2, <1>3, <1>4, <1>5 DEF Polls, PollOf
<1> HIDE DEF p
<1>7. /\ hs \in [Host -> HostSet] /\ hs[h].conn = links /\ hs[h].served \subseteq OpenCids(hs[h])
      /\ \A x \in Host : x # h => hs[x] = host[x]
      /\ q \in [Host -> Seq(PacketSet)]
      /\ Handshake(ChanOf(hs), q) /\ Counted(ChanOf(hs), q, hs, asked)
  BY <1>6, PollAdvances
<1>8. \A x \in Host : hs[x].conn = links /\ hs[x].served \subseteq OpenCids(hs[x])
  BY <1>1, <1>7
<1> QED BY <1>7, <1>8 DEF Steps

\* While it is down, a host that was not told yet may still poll; nothing leaves it.
LEMMA PollDown ==
  ASSUME Inv, ~isUp, NEW h \in Host, NEW s, Alike(h, s), NEW hs, NEW q, PollOf(h, s, hs, q)
  PROVE  /\ hs \in [Host -> HostSet] /\ q = held
         /\ \A x \in Host : hs[x].served \subseteq OpenCids(hs[x])
         /\ Counted(ChanOf(hs), q, hs, asked)
         /\ \A x \in Host : x \in events \/ (hs[x].conn = 0 /\ hs[x].chan = <<>>)
<1> DEFINE ch == Channels
           p == Poll(s)
           t == p.s
           g == Peer(h)
<1>1. /\ \A x \in Host : host[x].served \subseteq OpenCids(host[x])
      /\ \A x \in Host : held[x] = <<>> /\ (x \in events \/ (host[x].conn = 0 /\ host[x].chan = <<>>))
      /\ Counted(ch, held, host, asked)
  BY DEF Inv, Linked, ProfilesInformed
<1>2. /\ TypeOK /\ ch \in [Host -> Chans] /\ \A x \in Host : ch[x] = host[x].chan /\ asked[x] \in Nat
  BY TypeFacts DEF Inv
<1>3. held \in [Host -> Seq(PacketSet)] /\ host \in [Host -> HostSet]
  BY <1>2 DEF TypeOK
<1>4. /\ s \in HostSet /\ s.conn = host[h].conn /\ s.chan = host[h].chan /\ s.opens = host[h].opens
      /\ s.served \subseteq OpenCids(s)
  BY <1>1 DEF Alike, OpenCids
<1>5. /\ t \in HostSet /\ t.conn = s.conn /\ t.served \subseteq OpenCids(t) /\ p.out = <<>>
      /\ Cardinality(DOMAIN t.chan) + Len(t.opens) <= Cardinality(DOMAIN s.chan) + Len(s.opens)
      /\ Len(t.opens) <= Len(s.opens)
      /\ s.conn = 0 => t = s
  BY <1>4, PollKept
<1>6. hs = [host EXCEPT ![h] = t] /\ q = More(held, h, p.out)
  BY DEF PollOf
<1> HIDE DEF t, p, ch
<1>7. hs \in [Host -> HostSet] /\ hs[h] = t /\ \A x \in Host : x # h => hs[x] = host[x]
  BY <1>3, <1>5, <1>6
<1>8. q = held
  <2>1. held[h] \o <<>> = held[h]
    BY <1>1
  <2> QED BY <1>3, <1>5, <1>6, <2>1 DEF More
<1>9. ChanOf(hs) \in [Host -> Chans] /\ ChanOf(hs)[h] = t.chan /\ \A x \in Host : x # h => ChanOf(hs)[x] = ch[x]
  BY <1>2, <1>7, ChanOfType
<1>10. \A x \in Host : Load(ChanOf(hs), held, x) + Len(t.opens) <= Load(ch, held, x) + Len(host[h].opens)
  <2>1. g \in Host /\ g # h /\ Peer(g) = h /\ \A x \in Host : x = h \/ x = g
    BY HostFacts
  <2> DEFINE o == Len(host[h].opens)
             o2 == Len(t.opens)
             D == DOMAIN host[h].chan
             N == DOMAIN t.chan
  <2>2. o \in Nat /\ Len(hs[h].opens) \in Nat
    BY <1>3, <1>7, ChanOfType
  <2>3. o2 \in Nat
    BY <1>7, <2>2
  <2>4. Load(ch, held, h) = Cardinality(D) + Cardinality(Asking(held, g)) /\ Load(ch, held, g) \in Nat
    BY <1>2, <2>1, LoadType DEF Load
  <2>5. Load(ChanOf(hs), held, h) = Cardinality(N) + Cardinality(Asking(held, g))
    BY <1>9 DEF Load
  <2>6. Load(ChanOf(hs), held, g) = Load(ch, held, g)
    BY <1>9, <2>1 DEF Load
  <2>7. Cardinality(N) + o2 <= Cardinality(D) + o /\ o2 <= o
    BY <1>4, <1>5
  <2>8. Cardinality(D) \in Nat /\ Cardinality(Asking(held, g)) \in Nat
    BY <1>2, LoadType
  <2>9. Cardinality(N) \in Nat
    <3>1. N \in SUBSET Cid
      BY <1>9, LoadType
    <3> HIDE DEF N
    <3> QED BY <3>1, CidSets
  <2> HIDE DEF o, o2, D, N
  <2>10. Load(ChanOf(hs), held, h) + o2 <= Load(ch, held, h) + o
    BY <2>2, <2>3, <2>4, <2>5, <2>7, <2>8, <2>9
  <2>11. Load(ChanOf(hs), held, g) + o2 <= Load(ch, held, g) + o
    BY <2>2, <2>3, <2>4, <2>6, <2>7
  <2> QED BY <2>1, <2>10, <2>11 DEF o, o2
<1>11. Counted(ChanOf(hs), held, hs, asked)
  BY <1>1, <1>2, <1>3, <1>5, <1>6, <1>9, <1>10, CountedAfter
<1>12. \A x \in Host : hs[x].served \subseteq OpenCids(hs[x])
  BY <1>1, <1>5, <1>7
<1>13. \A x \in Host : x \in events \/ (hs[x].conn = 0 /\ hs[x].chan = <<>>)
  BY <1>1, <1>4, <1>5, <1>7
<1> QED BY <1>7, <1>8, <1>11, <1>12, <1>13

--------------------------------------------------------------------------------
(* The invariant. *)

\* Nobody has a channel and nothing is on its way.
LEMMA NoHandshake ==
  ASSUME NEW ch, NEW q, \A h \in Host : ch[h] = <<>> /\ q[h] = <<>>
  PROVE  Handshake(ch, q) /\ \A h \in Host : Asking(q, h) = {} /\ DOMAIN ch[h] = {}
<1>1. DOMAIN <<>> = {}
  OBVIOUS
<1>2. \A h \in Host : DOMAIN ch[h] = {} /\ DOMAIN q[h] = {}
  BY <1>1
<1>3. \A h \in Host : \A i, c, m : ~Req(q, h, i, c, m)
  BY <1>2 DEF Req
<1>4. \A h \in Host : \A i, c, d : ~Rsp(q, h, i, c, d)
  BY <1>2 DEF Rsp
<1>5. \A h \in Host : \A i, c : ~Cfg(q, h, i, c)
  BY <1>2 DEF Cfg
<1>6. \A h \in Host : \A i, c : ~Ack(q, h, i, c)
  BY <1>2 DEF Ack
<1>7. AsksOnce(ch, q) /\ AnswersOnce(ch, q)
  BY <1>3, <1>4 DEF AsksOnce, AnswersOnce
<1>8. ConfiguresJoined(ch, q) /\ AcceptsJoined(ch, q)
  BY <1>5, <1>6 DEF ConfiguresJoined, AcceptsJoined
<1>9. WaitsAnswered(ch, q) /\ JoinedBack(ch, q) /\ HalvesDone(ch, q)
  BY <1>2 DEF WaitsAnswered, JoinedBack, HalvesDone
<1>10. \A h \in Host : Asking(q, h) = {}
  BY <1>3 DEF Asking
<1> QED BY <1>2, <1>7, <1>8, <1>9, <1>10 DEF Handshake

\* What leaves the load, the requests and what was asked alone, or lessens it, keeps the count.
LEMMA CountedLess ==
  ASSUME NEW hs \in [Host -> HostSet], NEW hs2 \in [Host -> HostSet], NEW q, NEW q2,
         NEW a, \A h \in Host : a[h] \in Nat, Counted(ChanOf(hs), q, hs, a),
         \A h \in Host : DOMAIN hs2[h].chan \subseteq DOMAIN hs[h].chan /\ hs2[h].opens = hs[h].opens,
         \A h \in Host : Asking(q2, h) \subseteq Asking(q, h)
  PROVE  Counted(ChanOf(hs2), q2, hs2, a)
<1> SUFFICES ASSUME NEW h \in Host
             PROVE  Load(ChanOf(hs2), q2, h) + Opens(hs2, h) <= a[h] + a[Peer(h)]
  BY DEF Counted
<1> DEFINE g == Peer(h)
<1>1. g \in Host /\ a[h] \in Nat /\ a[g] \in Nat
  BY HostFacts
<1>2. Load(ChanOf(hs), q, h) + Opens(hs, h) <= a[h] + a[g] /\ Opens(hs, h) \in Nat
  BY ChanOfType DEF Counted
<1>3. Opens(hs2, h) = Opens(hs, h)
  BY <1>1 DEF Opens
<1> DEFINE D == DOMAIN hs[h].chan
           N == DOMAIN hs2[h].chan
           A == Asking(q, g)
           B == Asking(q2, g)
<1>4. ChanOf(hs) \in [Host -> Chans] /\ ChanOf(hs2) \in [Host -> Chans] /\ ChanOf(hs)[h] = hs[h].chan /\ ChanOf(hs2)[h] = hs2[h].chan
  BY ChanOfType
<1>5. Load(ChanOf(hs), q, h) = Cardinality(D) + Cardinality(A) /\ Load(ChanOf(hs2), q2, h) = Cardinality(N) + Cardinality(B)
  BY <1>4 DEF Load
<1>6. D \in SUBSET Cid /\ A \in SUBSET Cid /\ N \subseteq D /\ B \subseteq A
  BY <1>1, <1>4, LoadType
<1> HIDE DEF D, N, A, B, g
<1>7. /\ Cardinality(D) \in Nat /\ Cardinality(A) \in Nat /\ Cardinality(N) \in Nat /\ Cardinality(B) \in Nat
      /\ Cardinality(N) <= Cardinality(D) /\ Cardinality(B) <= Cardinality(A)
  BY <1>6, CidSets
<1>8. Load(ChanOf(hs2), q2, h) + Opens(hs2, h) <= a[h] + a[g]
  BY <1>1, <1>2, <1>3, <1>5, <1>7
<1> QED BY <1>8 DEF g

\* The channels after a step are those of the hosts after it.
LEMMA ChannelsAfter == ChanOf(host) = Channels /\ ChanOf(host') = Channels'
BY DEF ChanOf, Channels

\* A step of the hosts while the link is up keeps the invariant.
LEMMA SteppedUp ==
  ASSUME Inv, isUp, Steps(host', held'), UNCHANGED <<links, isUp, events, asked>>, done' \in [Host -> Nat]
  PROVE  Inv'
<1>1. /\ host' \in [Host -> HostSet] /\ held' \in [Host -> Seq(PacketSet)]
      /\ \A h \in Host : host'[h].conn = links' /\ host'[h].served \subseteq OpenCids(host'[h])
      /\ Handshake(Channels', held') /\ Counted(Channels', held', host', asked')
  BY ChannelsAfter DEF Steps
<1>2. TypeOK'
  BY <1>1 DEF Inv, TypeOK
<1>3. ProfilesInformed'
  BY <1>1 DEF ProfilesInformed
<1>4. Linked'
  BY <1>1 DEF Inv, Linked
<1>5. Counted(Channels, held, host, asked)'
  BY <1>1
<1> QED BY <1>2, <1>3, <1>4, <1>5 DEF Inv

\* So does a poll, whether it is up or down.
LEMMA Polled ==
  ASSUME Inv, NEW h \in Host, NEW s, Alike(h, s), NEW r, r = [s |-> s, out |-> <<>>],
         host' = [host EXCEPT ![h] = Handled(h, r).s], held' = [held EXCEPT ![h] = @ \o Handled(h, r).out],
         UNCHANGED <<links, isUp, events, asked>>, done' \in [Host -> Nat], ~isUp => done' = done
  PROVE  Inv'
<1>1. TypeOK /\ isUp \in BOOLEAN
  BY DEF Inv, TypeOK
<1>2. Handled(h, r) = Poll(s)
  <2>1. s \in HostSet /\ s.served \subseteq OpenCids(s)
    BY DEF Alike, Inv, ProfilesInformed, OpenCids
  <2> QED BY <1>1, <2>1, QuietHandler
<1>3. PollOf(h, s, host', held')
  BY <1>2 DEF PollOf, More
<1>4. CASE isUp
  BY <1>3, <1>4, PollSteps, SteppedUp
<1>5. CASE ~isUp
  <2>1. /\ host' \in [Host -> HostSet] /\ held' = held
        /\ \A x \in Host : host'[x].served \subseteq OpenCids(host'[x])
        /\ Counted(Channels', held', host', asked')
        /\ \A x \in Host : x \in events \/ (host'[x].conn = 0 /\ host'[x].chan = <<>>)
    <3>1. /\ host' \in [Host -> HostSet] /\ held' = held
          /\ \A x \in Host : host'[x].served \subseteq OpenCids(host'[x])
          /\ Counted(ChanOf(host'), held', host', asked)
          /\ \A x \in Host : x \in events \/ (host'[x].conn = 0 /\ host'[x].chan = <<>>)
      <4> DEFINE hs == host'
                 q == held'
      <4>1. PollOf(h, s, hs, q)
        BY <1>3
      <4> HIDE DEF hs, q
      <4>2. /\ hs \in [Host -> HostSet] /\ q = held
            /\ \A x \in Host : hs[x].served \subseteq OpenCids(hs[x])
            /\ Counted(ChanOf(hs), q, hs, asked)
            /\ \A x \in Host : x \in events \/ (hs[x].conn = 0 /\ hs[x].chan = <<>>)
        BY <1>5, <4>1, PollDown
      <4> QED BY <4>2 DEF hs, q
    <3> QED BY <3>1, ChannelsAfter
  <2>2. TypeOK'
    BY <1>1, <2>1 DEF TypeOK
  <2>3. ProfilesInformed'
    BY <2>1 DEF ProfilesInformed
  <2>4. Linked'
    BY <1>5, <2>1 DEF Inv, Linked
  <2>5. Counted(Channels, held, host, asked)'
    BY <2>1
  <2> QED BY <2>2, <2>3, <2>4, <2>5 DEF Inv
<1> QED BY <1>1, <1>4, <1>5

\* The hosts start without a link.
LEMMA InitInv == Init => Inv
<1> SUFFICES ASSUME Init PROVE Inv
  OBVIOUS
<1>1. /\ host = [h \in Host |-> NewHost] /\ links = 0 /\ isUp = FALSE
      /\ held = [h \in Host |-> <<>>] /\ done = [h \in Host |-> 0] /\ events = {}
      /\ asked = [h \in Host |-> 0]
  BY DEF Init
<1>2. <<>> \in Chans /\ DOMAIN <<>> = {}
  <2>1. <<>> \in [{} -> ChannelSet] /\ {} \in SUBSET Cid
    OBVIOUS
  <2> QED BY <2>1 DEF Chans
<1>3. NewHost \in HostSet
  <2>1. 1 \in Cid
    BY HostAssumption DEF Cid
  <2>2. <<>> \in Seq(Psms) /\ <<>> \in Seq(DataSet)
    OBVIOUS
  <2> QED BY <1>2, <2>1, <2>2 DEF NewHost, HostSet
<1>4. NewHost.conn = 0 /\ NewHost.chan = <<>> /\ NewHost.served = {} /\ NewHost.opens = <<>>
  BY DEF NewHost
<1> HIDE DEF NewHost
<1>5. TypeOK
  <2>1. <<>> \in Seq(PacketSet) /\ 0 \in 0 .. MaxAsks
    BY HostAssumption
  <2> QED BY <1>1, <1>3, <2>1 DEF TypeOK
<1>6. ProfilesInformed
  BY <1>1, <1>4 DEF ProfilesInformed
<1>7. Linked
  BY <1>1, <1>4 DEF Linked
<1>8. Counted(Channels, held, host, asked)
  <2>1. \A h \in Host : Channels[h] = <<>> /\ held[h] = <<>>
    BY <1>1, <1>4 DEF Channels
  <2>2. \A h \in Host : Asking(held, h) = {} /\ DOMAIN Channels[h] = {}
    BY <2>1, NoHandshake
  <2>3. \A h \in Host : Load(Channels, held, h) = 0
    BY <2>2, HostFacts, FS_EmptySet DEF Load
  <2>4. \A h \in Host : Opens(host, h) = 0
    <3>1. Len(<<>>) = 0
      OBVIOUS
    <3>2. \A h \in Host : Len(host[h].opens) = 0 /\ Peer(h) \in Host
      BY <1>1, <1>4, <3>1, HostFacts
    <3> SUFFICES ASSUME NEW h \in Host PROVE Opens(host, h) = 0
      OBVIOUS
    <3> DEFINE k == Len(host[h].opens)
               l == Len(host[Peer(h)].opens)
    <3>3. k = 0 /\ l = 0 /\ Opens(host, h) = k + l
      BY <3>2 DEF Opens
    <3> HIDE DEF k, l
    <3> QED BY <3>3
  <2>5. \A h \in Host : asked[h] = 0 /\ asked[Peer(h)] = 0
    BY <1>1, HostFacts
  <2> QED BY <2>3, <2>4, <2>5 DEF Counted
<1> QED BY <1>5, <1>6, <1>7, <1>8 DEF Inv

\* A new link finds no channel and no packet of the last one.
LEMMA ConnectionCompleteInv == Inv /\ ConnectionComplete => Inv'
<1> SUFFICES ASSUME Inv, ConnectionComplete PROVE Inv'
  OBVIOUS
<1>1. /\ ~isUp /\ events = {} /\ isUp' = TRUE /\ links' = links + 1
      /\ host' = [h \in Host |-> [host[h] EXCEPT !.conn = links + 1]]
      /\ UNCHANGED <<held, done, events, asked>>
  BY DEF ConnectionComplete
<1>2. TypeOK /\ \A h \in Host : held[h] = <<>> /\ host[h].chan = <<>>
  BY <1>1 DEF Inv, Linked
<1>3. host \in [Host -> HostSet] /\ links \in Nat /\ \A h \in Host : asked[h] \in Nat
  BY <1>2, TypeFacts DEF TypeOK
<1>4. ASSUME NEW h \in Host
      PROVE  /\ host'[h] \in HostSet /\ host'[h].conn = links + 1 /\ host'[h].chan = host[h].chan
             /\ host'[h].served = host[h].served /\ host'[h].opens = host[h].opens
  <2> DEFINE s == host[h]
             n == links + 1
  <2>1. s \in HostSet /\ n \in Nat /\ host'[h] = [s EXCEPT !.conn = n]
    BY <1>1, <1>3
  <2> HIDE DEF s, n
  <2>2. [s EXCEPT !.conn = n] \in HostSet
    BY <2>1, HostChanges
  <2>3. /\ [s EXCEPT !.conn = n].conn = n /\ [s EXCEPT !.conn = n].chan = s.chan
        /\ [s EXCEPT !.conn = n].served = s.served /\ [s EXCEPT !.conn = n].opens = s.opens
    BY <2>1 DEF HostSet
  <2>4. /\ host'[h] \in HostSet /\ host'[h].conn = n /\ host'[h].chan = s.chan
        /\ host'[h].served = s.served /\ host'[h].opens = s.opens
    BY <2>1, <2>2, <2>3
  <2> QED BY <2>4 DEF s, n
<1>5. host' \in [Host -> HostSet]
  <2>1. \A h \in Host : host'[h] \in HostSet
    BY <1>4
  <2>2. host' = [h \in Host |-> host'[h]]
    BY <1>1
  <2> QED BY <2>1, <2>2
<1>6. TypeOK'
  <2>1. links + 1 \in Nat
    BY <1>3
  <2> QED BY <1>1, <1>2, <1>5, <2>1 DEF TypeOK
<1>7. ProfilesInformed'
  BY <1>4 DEF Inv, ProfilesInformed, OpenCids
<1>8. Counted(Channels, held, host, asked)'
  <2>1. Counted(ChanOf(host), held, host, asked)
    BY ChannelsAfter DEF Inv
  <2>2. Counted(ChanOf(host'), held, host', asked)
    BY <1>3, <1>4, <1>5, <2>1, CountedLess
  <2> QED BY <1>1, <2>2, ChannelsAfter
<1>9. Linked'
  <2>1. \A h \in Host : Channels'[h] = <<>>
    BY <1>2, <1>4 DEF Channels
  <2>2. Handshake(Channels', held')
    BY <1>1, <1>2, <2>1, NoHandshake
  <2>3. links' # 0
    BY <1>1, <1>3
  <2> QED BY <1>1, <1>4, <2>2, <2>3 DEF Linked
<1> QED BY <1>6, <1>7, <1>8, <1>9 DEF Inv

\* The controllers drop the packets of a link that is lost.
LEMMA LinkLostInv == Inv /\ LinkLost => Inv'
<1> SUFFICES ASSUME Inv, LinkLost PROVE Inv'
  OBVIOUS
<1>1. /\ isUp' = FALSE /\ held' = [h \in Host |-> <<>>] /\ done' = [h \in Host |-> 0] /\ events' = Host
      /\ UNCHANGED <<host, links, asked>>
  BY DEF LinkLost
<1>2. TypeOK /\ host \in [Host -> HostSet] /\ \A h \in Host : asked[h] \in Nat
  BY TypeFacts DEF Inv, TypeOK
<1>3. TypeOK'
  <2>1. <<>> \in Seq(PacketSet)
    OBVIOUS
  <2> QED BY <1>1, <1>2, <2>1 DEF TypeOK
<1>4. ProfilesInformed'
  BY <1>1 DEF Inv, ProfilesInformed
<1>5. Linked'
  BY <1>1 DEF Linked
<1>6. Counted(Channels, held, host, asked)'
  <2>1. DOMAIN <<>> = {}
    OBVIOUS
  <2>2. \A h \in Host : Asking(held', h) = {}
    BY <1>1, <2>1 DEF Asking, Req
  <2>3. Counted(ChanOf(host), held, host, asked)
    BY ChannelsAfter DEF Inv
  <2>4. Counted(ChanOf(host), held', host, asked)
    BY <1>2, <2>2, <2>3, CountedLess
  <2> QED BY <1>1, <2>4, ChannelsAfter
<1> QED BY <1>3, <1>4, <1>5, <1>6 DEF Inv

\* A host that is told of the loss forgets its channels, and its profiles with it.
LEMMA DisconnectionCompleteInv ==
  ASSUME Inv, NEW h \in Host, DisconnectionComplete(h)
  PROVE  Inv'
<1>1. /\ h \in events /\ events' = events \ {h} /\ host' = [host EXCEPT ![h] = ChannelsLost(host[h])]
      /\ UNCHANGED <<links, isUp, held, done, asked>>
  BY DEF DisconnectionComplete
<1>2. TypeOK /\ host \in [Host -> HostSet] /\ host[h] \in HostSet /\ \A x \in Host : asked[x] \in Nat
  BY TypeFacts DEF Inv, TypeOK
<1>3. ~isUp /\ \A x \in Host : /\ held[x] = <<>> /\ done[x] = 0
                               /\ x \in events \/ (host[x].conn = 0 /\ host[x].chan = <<>>)
  BY <1>1 DEF Inv, Linked
<1>4. <<>> \in Chans /\ DOMAIN <<>> = {}
  <2>1. <<>> \in [{} -> ChannelSet] /\ {} \in SUBSET Cid
    OBVIOUS
  <2> QED BY <2>1 DEF Chans
<1> DEFINE s == host[h]
           t == ChannelsLost(s)
<1>5. t \in HostSet /\ t.conn = 0 /\ t.chan = <<>> /\ t.served = {} /\ t.opens = s.opens
  <2>1. s \in HostSet
    BY <1>2
  <2> HIDE DEF s
  <2>2. t \in HostSet
    BY <1>4, <2>1, HostChanges DEF ChannelsLost
  <2> QED BY <2>1, <2>2 DEF ChannelsLost, HostSet
<1> HIDE DEF t
<1>6. host' \in [Host -> HostSet] /\ host'[h] = t /\ \A x \in Host : x # h => host'[x] = host[x]
  BY <1>1, <1>2, <1>5 DEF t
<1>7. TypeOK'
  BY <1>1, <1>2, <1>6 DEF TypeOK
<1>8. ProfilesInformed'
  BY <1>5, <1>6 DEF Inv, ProfilesInformed
<1>9. Linked'
  BY <1>1, <1>3, <1>5, <1>6 DEF Linked
<1>10. Counted(Channels, held, host, asked)'
  <2>1. \A x \in Host : DOMAIN host'[x].chan \subseteq DOMAIN host[x].chan /\ host'[x].opens = host[x].opens
    BY <1>4, <1>5, <1>6
  <2>2. Counted(ChanOf(host), held, host, asked)
    BY ChannelsAfter DEF Inv
  <2>3. Counted(ChanOf(host'), held, host', asked)
    BY <1>2, <1>6, <2>1, <2>2, CountedLess
  <2> QED BY <1>1, <2>3, ChannelsAfter
<1> QED BY <1>7, <1>8, <1>9, <1>10 DEF Inv

\* A packet is delivered.
LEMMA DeliverInv ==
  ASSUME Inv, NEW h \in Host, Deliver(h)
  PROVE  Inv'
<1>1. isUp /\ UNCHANGED <<links, isUp, events, asked>> /\ done' = [done EXCEPT ![h] = @ + 1]
  BY DEF Deliver
<1>2. done' \in [Host -> Nat]
  BY <1>1 DEF Inv, TypeOK
<1> QED BY <1>1, <1>2, DeliverSteps, SteppedUp

\* The controller says that it sent packets.
LEMMA CompletedPacketsInv ==
  ASSUME Inv, NEW h \in Host, CompletedPackets(h)
  PROVE  Inv'
<1> DEFINE n == IF host[h].inFlight > done[h] THEN host[h].inFlight - done[h] ELSE 0
           s == [host[h] EXCEPT !.inFlight = n]
           r == [s |-> s, out |-> <<>>]
<1>1. /\ done[h] > 0 /\ host' = [host EXCEPT ![h] = Handled(h, r).s]
      /\ held' = [held EXCEPT ![h] = @ \o Handled(h, r).out]
      /\ done' = [done EXCEPT ![h] = 0] /\ UNCHANGED <<links, isUp, events, asked>>
  BY DEF CompletedPackets
<1>2. TypeOK /\ host[h] \in HostSet /\ done[h] \in Nat /\ done \in [Host -> Nat]
  BY TypeFacts DEF Inv, TypeOK
<1>3. n \in Nat
  <2>1. host[h].inFlight \in Nat
    BY <1>2, HostFields
  <2> QED BY <1>2, <2>1
<1>4. Alike(h, s)
  <2> HIDE DEF n
  <2>1. s \in HostSet
    BY <1>2, <1>3, HostChanges
  <2> QED BY <1>2, <2>1 DEF Alike, HostSet
<1>5. done' \in [Host -> Nat] /\ isUp
  BY <1>1, <1>2 DEF Inv, Linked
<1> HIDE DEF s
<1> QED BY <1>1, <1>4, <1>5, Polled

\* A host polls.
LEMMA TickInv ==
  ASSUME Inv, NEW h \in Host, Tick(h)
  PROVE  Inv'
<1> DEFINE s == host[h]
           r == [s |-> s, out |-> <<>>]
<1>1. /\ host' = [host EXCEPT ![h] = Handled(h, r).s]
      /\ held' = [held EXCEPT ![h] = @ \o Handled(h, r).out]
      /\ UNCHANGED <<links, isUp, done, events, asked>>
  BY DEF Tick
<1>2. s \in HostSet /\ done' \in [Host -> Nat]
  BY <1>1, TypeFacts DEF Inv, TypeOK
<1>3. Alike(h, s)
  BY <1>2 DEF Alike
<1> HIDE DEF s
<1> QED BY <1>1, <1>2, <1>3, Polled

\* A profile asks for a channel.
LEMMA AskChannelInv ==
  ASSUME Inv, NEW h \in Host, NEW psm \in Psms, AskChannel(h, psm)
  PROVE  Inv'
<1> DEFINE s == host[h]
           w == Append(s.opens, psm)
           t == [s EXCEPT !.opens = w]
           g == Peer(h)
<1>1. /\ asked[h] < MaxAsks /\ asked' = [asked EXCEPT ![h] = @ + 1]
      /\ host' = [host EXCEPT ![h] = t] /\ UNCHANGED <<links, isUp, held, done, events>>
  BY DEF AskChannel
<1>2. /\ TypeOK /\ host \in [Host -> HostSet] /\ s \in HostSet /\ asked \in [Host -> 0 .. MaxAsks]
      /\ \A x \in Host : asked[x] \in Nat
  BY TypeFacts DEF Inv, TypeOK
<1>3. s.opens \in Seq(Psms)
  BY <1>2, HostFields
<1>4. w \in Seq(Psms) /\ Len(w) = Len(s.opens) + 1 /\ Len(s.opens) \in Nat
  <2> DEFINE o == s.opens
  <2>1. o \in Seq(Psms)
    BY <1>3
  <2> HIDE DEF o
  <2>2. Append(o, psm) \in Seq(Psms) /\ Len(Append(o, psm)) = Len(o) + 1 /\ Len(o) \in Nat
    BY <2>1
  <2> QED BY <2>2 DEF o
<1> HIDE DEF w
<1>5. t \in HostSet
  BY <1>2, <1>4, HostChanges
<1>6. t.conn = s.conn /\ t.chan = s.chan /\ t.served = s.served /\ t.opens = w
  BY <1>2 DEF HostSet
<1> HIDE DEF t
<1>7. /\ host' \in [Host -> HostSet] /\ host'[h] = t
      /\ \A x \in Host : x # h => host'[x] = host[x]
      /\ \A x \in Host : host'[x].conn = host[x].conn /\ host'[x].chan = host[x].chan /\ host'[x].served = host[x].served
  BY <1>1, <1>2, <1>5, <1>6
<1>8. Channels' = Channels
  BY <1>7 DEF Channels
<1>9. TypeOK'
  <2>1. MaxAsks \in Nat
    BY HostAssumption
  <2> QED BY <1>1, <1>2, <1>7, <2>1 DEF TypeOK
<1>10. ProfilesInformed'
  BY <1>7 DEF Inv, ProfilesInformed, OpenCids
<1>11. Linked'
  BY <1>1, <1>7, <1>8 DEF Inv, Linked
<1>12. Counted(Channels, held, host, asked)'
  <2>1. g \in Host /\ g # h /\ Peer(g) = h /\ \A x \in Host : x = h \/ x = g
    BY HostFacts
  <2> DEFINE k == Len(host[g].opens)
  <2>2. k \in Nat
    BY <1>2, <2>1, ChanOfType
  <2>3. /\ Opens(host', h) = Len(w) + k /\ Opens(host', g) = k + Len(w)
        /\ Opens(host, h) = Len(s.opens) + k /\ Opens(host, g) = k + Len(s.opens)
    BY <1>6, <1>7, <2>1 DEF Opens
  <2>4. asked'[h] = asked[h] + 1 /\ asked'[g] = asked[g]
    BY <1>1, <1>2, <2>1
  <2>5. \A x \in Host : /\ Load(Channels, held, x) + Opens(host, x) <= asked[x] + asked[Peer(x)]
                        /\ Load(Channels, held, x) \in Nat
    BY <1>2, TypeFacts, LoadType DEF Inv, Counted
  <2> HIDE DEF k
  <2> DEFINE o == Len(s.opens)
             l == Load(Channels, held, h)
             m == Load(Channels, held, g)
  <2>6. Len(w) = o + 1 /\ o \in Nat /\ l \in Nat /\ m \in Nat
    BY <1>4, <2>1, <2>5
  <2>7. l + Opens(host, h) <= asked[h] + asked[g] /\ m + Opens(host, g) <= asked[g] + asked[h]
    BY <2>1, <2>5
  <2>8. Opens(host, h) = o + k /\ Opens(host, g) = k + o
    BY <2>3
  <2> HIDE DEF o, l, m
  <2>9. l + Opens(host', h) <= asked'[h] + asked'[g] /\ m + Opens(host', g) <= asked'[g] + asked'[h]
    BY <1>2, <2>1, <2>2, <2>3, <2>4, <2>6, <2>7, <2>8
  <2>10. \A x \in Host : Load(Channels', held', x) + Opens(host', x) <= asked'[x] + asked'[Peer(x)]
    BY <1>1, <1>8, <2>1, <2>9 DEF l, m
  <2> QED BY <2>10 DEF Counted
<1> QED BY <1>9, <1>10, <1>11, <1>12 DEF Inv

\* A profile writes an SDU.
LEMMA WriteSduInv ==
  ASSUME Inv, NEW h \in Host, NEW psm \in Psms, WriteSdu(h, psm)
  PROVE  Inv'
<1> DEFINE s == host[h]
           w == Append(s.wants, psm)
           t == [s EXCEPT !.wants = w]
<1>1. host' = [host EXCEPT ![h] = t] /\ UNCHANGED <<links, isUp, held, done, events, asked>>
  BY DEF WriteSdu
<1>2. /\ TypeOK /\ host \in [Host -> HostSet] /\ s \in HostSet /\ \A x \in Host : asked[x] \in Nat
  BY TypeFacts DEF Inv, TypeOK
<1>3. w \in Seq(Psms)
  <2> DEFINE o == s.wants
  <2>1. o \in Seq(Psms)
    BY <1>2, HostFields
  <2> HIDE DEF o
  <2>2. Append(o, psm) \in Seq(Psms)
    BY <2>1
  <2> QED BY <2>2 DEF o
<1> HIDE DEF w
<1>4. t \in HostSet
  BY <1>2, <1>3, HostChanges
<1>5. t.conn = s.conn /\ t.chan = s.chan /\ t.served = s.served /\ t.opens = s.opens
  BY <1>2 DEF HostSet
<1> HIDE DEF t
<1>6. /\ host' \in [Host -> HostSet]
      /\ \A x \in Host : /\ host'[x].conn = host[x].conn /\ host'[x].chan = host[x].chan
                         /\ host'[x].served = host[x].served /\ host'[x].opens = host[x].opens
  BY <1>1, <1>2, <1>4, <1>5
<1>7. Channels' = Channels
  BY <1>6 DEF Channels
<1>8. TypeOK'
  BY <1>1, <1>2, <1>6 DEF TypeOK
<1>9. ProfilesInformed'
  BY <1>6 DEF Inv, ProfilesInformed, OpenCids
<1>10. Linked'
  BY <1>1, <1>6, <1>7 DEF Inv, Linked
<1>11. Counted(Channels, held, host, asked)'
  <2>1. Counted(ChanOf(host), held, host, asked)
    BY ChannelsAfter DEF Inv
  <2>2. Counted(ChanOf(host'), held, host', asked)
    BY <1>2, <1>6, <2>1, CountedLess
  <2> QED BY <1>1, <2>2, ChannelsAfter
<1> QED BY <1>8, <1>9, <1>10, <1>11 DEF Inv

\* Every step keeps the invariant, when no host closes a channel.
LEMMA NextInv ==
  ASSUME ~Closes
  PROVE  Inv /\ [Next]_vars => Inv'
<1> SUFFICES ASSUME Inv, [Next]_vars PROVE Inv'
  OBVIOUS
<1>1. CASE UNCHANGED vars
  <2>1. UNCHANGED <<host, links, isUp, held, done, events, asked>>
    BY <1>1 DEF vars
  <2> QED BY <2>1 DEF Inv, TypeOK, ProfilesInformed, Linked, Channels
<1>2. CASE ConnectionComplete
  BY <1>2, ConnectionCompleteInv
<1>3. CASE LinkLost
  BY <1>3, LinkLostInv
<1>4. ASSUME NEW h \in Host, DisconnectionComplete(h) \/ Deliver(h) \/ CompletedPackets(h) \/ Tick(h)
      PROVE  Inv'
  BY <1>4, DisconnectionCompleteInv, DeliverInv, CompletedPacketsInv, TickInv
<1>5. ASSUME NEW h \in Host, NEW psm \in Psms, AskChannel(h, psm) \/ WriteSdu(h, psm) PROVE Inv'
  BY <1>5, AskChannelInv, WriteSduInv
<1>6. ASSUME NEW h \in Host, NEW cid \in Cid, PeerCloses(h, cid) PROVE Inv'
  BY <1>6 DEF PeerCloses
<1> QED BY <1>1, <1>2, <1>3, <1>4, <1>5, <1>6 DEF Next

\* Once nothing is on its way the handshake has paired the channels.
LEMMA InvPaired ==
  ASSUME Roomy
  PROVE  Inv => ChannelsPaired
<1> SUFFICES ASSUME Inv, Quiet, NEW h \in Host, NEW c \in DOMAIN host[h].chan
             PROVE  LET mine == host[h].chan[c]
                        theirs == host[Peer(h)].chan[mine.peer]
                    IN /\ mine.peer \in DOMAIN host[Peer(h)].chan
                       /\ theirs.peer = c /\ theirs.psm = mine.psm /\ theirs.state = mine.state
                       /\ mine.state = "Open"
  BY Zenon DEF ChannelsPaired
<1> DEFINE ch == Channels
           g == Peer(h)
           d == ch[h][c].peer
<1>1. g \in Host /\ Peer(g) = h
  BY HostFacts
<1>2. /\ Handshake(ch, held) /\ \A x \in Host : held[x] = <<>>
  BY DEF Quiet, Inv, Linked
<1>3. \A x \in Host : ch[x] = host[x].chan
  BY DEF Channels
<1>4. \A x \in Host : \A i : /\ \A e, m : ~Req(held, x, i, e, m)
                             /\ \A e, b : ~Rsp(held, x, i, e, b)
                             /\ \A e : ~Cfg(held, x, i, e) /\ ~Ack(held, x, i, e)
  <2>1. DOMAIN <<>> = {}
    OBVIOUS
  <2>2. \A x \in Host : DOMAIN held[x] = {}
    BY <1>2, <2>1
  <2> QED BY <2>2 DEF Req, Rsp, Cfg, Ack
<1> HIDE DEF ch
<1>5. \A x \in Host : \A e \in DOMAIN ch[x] : ~Waits(ch, x, e)
  BY <1>1, <1>2, <1>4, HostFacts DEF Handshake, WaitsAnswered, Awaiting
<1>6. \A x \in Host : \A e \in DOMAIN ch[x] :
        /\ Joined(ch, x, e, ch[x][e].peer) /\ ch[Peer(x)][ch[x][e].peer].peer = e
        /\ ch[x][e].state = "Open"
  <2> SUFFICES ASSUME NEW x \in Host, NEW e \in DOMAIN ch[x]
               PROVE  /\ Joined(ch, x, e, ch[x][e].peer) /\ ch[Peer(x)][ch[x][e].peer].peer = e
                      /\ ch[x][e].state = "Open"
    OBVIOUS
  <2>1. Back(ch, held, x, e) /\ Half(ch, held, x, e)
    BY <1>2, <1>5 DEF Handshake, JoinedBack, HalvesDone
  <2>2. Joined(ch, x, e, ch[x][e].peer) /\ ch[Peer(x)][ch[x][e].peer].peer = e
    BY <1>4, <2>1 DEF Back
  <2>3. ~Waits(ch, Peer(x), ch[x][e].peer) /\ Peer(x) \in Host
    BY <1>5, <2>2, HostFacts DEF Joined
  <2>4. ch[x][e].state = "Open"
    BY <1>4, <2>1, <2>3 DEF Half
  <2> QED BY <2>2, <2>4
<1>7. c \in DOMAIN ch[h]
  BY <1>3
<1>8. /\ d \in DOMAIN ch[g] /\ ch[h][c].psm = ch[g][d].psm /\ ch[g][d].peer = c
      /\ ch[h][c].state = "Open" /\ ch[g][d].state = "Open"
  BY <1>1, <1>6, <1>7 DEF Joined
<1> QED BY <1>1, <1>3, <1>8

\* ProfilesInformed: as long as no host closes a channel by itself, a profile has only channels
\* that are open, however packets, losses of the link and polls interleave.
THEOREM InformedTheorem ==
  ASSUME ~Closes
  PROVE  Spec => []ProfilesInformed
<1>1. Inv => ProfilesInformed
  BY DEF Inv
<1> QED BY <1>1, InitInv, NextInv, PTL DEF Spec

\* ChannelsPaired: with as many identifiers as the hosts can ask for, when nothing is on its way
\* the channels of the hosts are pairs, open at both ends.
THEOREM PairedTheorem ==
  ASSUME ~Closes, Roomy
  PROVE  Spec => []ChannelsPaired
<1> QED BY InvPaired, InitInv, NextInv, PTL DEF Spec
================================================================================
