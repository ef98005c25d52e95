------------------------------ MODULE LeLinkProofs ------------------------------
(***************************************************************************)
(* Proofs about LeLink for any number of controllers, any bounds on        *)
(* handles, streams and queued Actions, and any set of keys, preferences   *)
(* and commands.                                                           *)
(*                                                                         *)
(* That two ends agree about a link rests on whom a handle belongs to: it  *)
(* is given out once, to one pair of controllers, and a third one never    *)
(* holds it.  That a stream is the same at both ends rests on what is      *)
(* still in the queue: a stream known at one end only has its CIS Request  *)
(* under way, and no acceptance overtakes it.                              *)
(***************************************************************************)
EXTENDS LeLink

ConnType ==
  [peer : Dev \cup {None}, interval : Interval, tx : Phy, rx : Phy,
   encrypted : BOOLEAN, ltk : Keys \cup {None}]

StreamType == [cis : CisHandles, acl : Handle, established : BOOLEAN]

\* A deferred Action: what each command leaves in the queue.
Action ==
  [op : {"update"}, from : Dev, handle : Handle, arg : Interval]
    \cup [op : {"phy"}, from : Dev, handle : Handle,
          arg : [tx : Phy, rx : Phy, asked : PhyPrefs]]
    \cup [op : {"encrypt"}, from : Dev, handle : Handle, arg : Keys]
    \cup [op : {"ltkReply"}, from : Dev, handle : Handle, arg : Keys \cup {None}]
    \cup [op : {"cisRequest"}, from : Dev, handle : Handle, arg : CisHandles]
    \cup [op : {"cisAccept"}, from : Dev, handle : {0}, arg : CisHandles]
    \cup [op : {"acl"}, from : Dev, handle : Nat, arg : Handle]
    \cup [op : {"disconnect"}, from : Dev, handle : Handle, arg : {None}]

TypeOK ==
  /\ phase \in {"drain", "connect", "route"}
  /\ turn \in Dev
  /\ actions \in Seq(Action)
  /\ nextHandle \in Nat \ {0}
  /\ advertising \in [Dev -> BOOLEAN]
  /\ pending \in [Dev -> Dev \cup {None}]
  /\ conn \in [Dev -> [Handle -> ConnType]]
  /\ cis \in [Dev -> Seq(StreamType)]
  /\ createDue \in [Dev -> BOOLEAN]
  /\ encryptDue \in [Dev -> [Handle -> Int]]
  /\ ltkAsked \in [Dev -> SUBSET Handle]
  /\ cisAsked \in [Dev -> SUBSET CisHandles]
  /\ stray \in BOOLEAN

\* Nobody connects to himself, and what is not held is blank.
Peers ==
  /\ \A i \in Dev : pending[i] # i
  /\ \A i \in Dev, h \in Handle : conn[i][h].peer # i
  /\ \A i \in Dev, h \in Handle : conn[i][h].peer = None => conn[i][h] = NoConn

\* A handle the medium has not given out is held by nobody.
HandlesFresh ==
  \A i \in Dev, h \in Handle : h >= nextHandle => conn[i][h].peer = None

\* Two controllers that hold a handle are each other's peers: there is no third.
OnePair ==
  \A i, j \in Dev, h \in Handle :
    i # j /\ Holds(i, h) /\ Holds(j, h) => conn[i][h].peer = j

Inv == TypeOK /\ Peers /\ HandlesFresh /\ OnePair /\ LinksAgree

\* While nobody is Reset, a link is held at both ends or at neither.
HeldByBoth ==
  \A i \in Dev, h \in Handle : Holds(i, h) => Holds(conn[i][h].peer, h)

\* A stream handle names one stream at a controller, and streams of the same handle
\* at two controllers ride the same link.
OneStream ==
  /\ \A i \in Dev : \A k, m \in DOMAIN cis[i] : cis[i][k].cis = cis[i][m].cis => k = m
  /\ \A i, j \in Dev : \A k \in DOMAIN cis[i], m \in DOMAIN cis[j] :
       cis[i][k].cis = cis[j][m].cis => cis[i][k].acl = cis[j][m].acl

Request(n) == actions[n].op = "cisRequest"
Accept(n) == actions[n].op = "cisAccept"

\* A CIS Request in the queue: its stream is known at its sender alone, on its link;
\* where the sender lost the stream, a Disconnect routed before took the link too.
RequestsFirst ==
  \A n \in DOMAIN actions : Request(n) =>
    LET i == actions[n].from
        c == actions[n].arg
    IN  /\ \A j \in Dev : Known(j, c) => j = i
        /\ \A k \in DOMAIN cis[i] : cis[i][k].cis = c => cis[i][k].acl = actions[n].handle
        /\ Known(i, c) \/ (phase = "route" /\ ~Holds(i, actions[n].handle))

\* No two of them are for the same stream.
RequestsApart ==
  \A n, m \in DOMAIN actions :
    Request(n) /\ Request(m) /\ actions[n].arg = actions[m].arg => n = m

\* An acceptance is of a stream its sender knows, until the Actions are routed, and
\* is behind the sender's own request for it.
AcceptsBehind ==
  \A n \in DOMAIN actions : Accept(n) =>
    /\ phase # "route" => Known(actions[n].from, actions[n].arg)
    /\ \A m \in DOMAIN actions :
         Request(m) /\ actions[m].from = actions[n].from /\ actions[m].arg = actions[n].arg
           => m < n

\* The controller a stream comes from or goes to.
OtherEnd(i, k) == conn[i][cis[i][k].acl].peer

\* A stream is known at the link's other end, or its request is still to be routed.
KnownOrAsked ==
  \A i \in Dev : \A k \in DOMAIN cis[i] :
    \/ Known(OtherEnd(i, k), cis[i][k].cis)
    \/ \E n \in DOMAIN actions :
         Request(n) /\ actions[n].from = i /\ actions[n].arg = cis[i][k].cis

\* An established stream is the same at the other end.
Mirrored ==
  \A i \in Dev : \A k \in DOMAIN cis[i] :
    cis[i][k].established => \E m \in DOMAIN cis[OtherEnd(i, k)] : cis[OtherEnd(i, k)][m] = cis[i][k]

RideInv == Inv /\ HeldByBoth /\ CisRidesAcl

StreamInv ==
  /\ RideInv
  /\ OneStream
  /\ RequestsFirst
  /\ RequestsApart
  /\ AcceptsBehind
  /\ KnownOrAsked
  /\ Mirrored

links == <<conn, nextHandle, pending>>

\* A step that leaves everyone's peers alone.
PeersKept == \A i \in Dev, h \in Handle : conn'[i][h].peer = conn[i][h].peer
--------------------------------------------------------------------------------
(***************************************************************************)
(* Types.                                                                  *)
(***************************************************************************)

LEMMA NoneApart == None \notin Dev /\ \A i \in Dev : i \in Nat
BY DEF None, Dev

LEMMA DeferType ==
  ASSUME TypeOK, NEW i \in Dev, NEW op, NEW handle, NEW arg, Defer(i, op, handle, arg),
         [op |-> op, from |-> i, handle |-> handle, arg |-> arg] \in Action
  PROVE  actions' \in Seq(Action)
<1> DEFINE a == [op |-> op, from |-> i, handle |-> handle, arg |-> arg]
<1>1. actions' = Append(actions, a) /\ actions \in Seq(Action) /\ a \in Action
  BY DEF Defer, TypeOK
<1> HIDE DEF a
<1> QED BY <1>1

\* What is at the head of the queue is an Action of the kind it says.
LEMMA NowType ==
  ASSUME TypeOK, NEW op, Now(op)
  PROVE  /\ actions' \in Seq(Action)
         /\ From \in Dev
         /\ op \in {"update", "phy", "encrypt", "ltkReply", "cisRequest", "disconnect"}
              => On \in Handle
         /\ op = "update" => Arg \in Interval
         /\ op = "phy" => Arg \in [tx : Phy, rx : Phy, asked : PhyPrefs]
         /\ op = "encrypt" => Arg \in Keys
         /\ op = "ltkReply" => Arg \in Keys \cup {None}
         /\ op \in {"cisRequest", "cisAccept"} => Arg \in CisHandles
<1>1. actions \in Seq(Action) /\ actions # <<>> /\ Head(actions).op = op
  BY DEF TypeOK, Now
<1>2. Head(actions) \in Action /\ Tail(actions) \in Seq(Action)
  BY <1>1
<1>3. actions' = Tail(actions)
  BY DEF Now
<1> QED BY <1>1, <1>2, <1>3 DEF Action, From, On, Arg

LEMMA NoConnType == NoConn \in ConnType
BY DEF NoConn, ConnType, Interval, Phy

LEMMA TypeInit == Init => TypeOK
<1> SUFFICES ASSUME Init
             PROVE  TypeOK
  OBVIOUS
<1>1. turn \in Dev /\ nextHandle \in Nat \ {0}
  BY SizeAssumption DEF Init, Dev
<1>2. conn \in [Dev -> [Handle -> ConnType]]
  BY NoConnType DEF Init
<1>3. cis \in [Dev -> Seq(StreamType)] /\ actions \in Seq(Action)
  BY DEF Init
<1>4. encryptDue \in [Dev -> [Handle -> Int]]
  BY DEF Init
<1> QED BY <1>1, <1>2, <1>3, <1>4 DEF Init, TypeOK

LEMMA TypeDeferred ==
  ASSUME TypeOK, NEW i \in Dev, NEW h \in Handle,
         \/ \E interval \in Interval : LeConnectionUpdate(i, h, interval)
         \/ \E p \in PhyPrefs : LeSetPhy(i, h, p[1], p[2])
         \/ \E key \in Keys : LeEnableEncryption(i, h, key)
         \/ \E key \in Keys \cup {None} : LeLtkReply(i, h, key)
         \/ \E c \in CisHandles : LeCreateCis(i, h, c)
         \/ SendAcl(i, h)
         \/ Disconnect(i, h)
  PROVE  TypeOK'
<1>1. CASE \E interval \in Interval : LeConnectionUpdate(i, h, interval)
  <2> PICK interval \in Interval : LeConnectionUpdate(i, h, interval)
    BY <1>1
  <2>1. [op |-> "update", from |-> i, handle |-> h, arg |-> interval] \in Action
    BY DEF Action
  <2>2. actions' \in Seq(Action)
    BY <2>1, DeferType DEF LeConnectionUpdate
  <2> QED BY <2>2 DEF TypeOK, LeConnectionUpdate, Defer
<1>2. CASE \E p \in PhyPrefs : LeSetPhy(i, h, p[1], p[2])
  <2> PICK p \in PhyPrefs : LeSetPhy(i, h, p[1], p[2])
    BY <1>2
  <2> DEFINE phys == [tx |-> IF p[1] = "any" THEN conn[i][h].tx ELSE p[1],
                      rx |-> IF p[2] = "any" THEN conn[i][h].rx ELSE p[2],
                      asked |-> <<p[1], p[2]>>]
  <2>1. p \in (Phy \cup {"any"}) \X (Phy \cup {"any"})
    BY PhyAssumption
  <2>2. conn[i][h].tx \in Phy /\ conn[i][h].rx \in Phy
    BY DEF TypeOK, ConnType
  <2>3. phys \in [tx : Phy, rx : Phy, asked : PhyPrefs]
    <3>1. <<p[1], p[2]>> = p /\ p[1] \in Phy \cup {"any"} /\ p[2] \in Phy \cup {"any"}
      BY <2>1
    <3> QED BY <2>2, <3>1
  <2>4. Defer(i, "phy", h, phys) /\ UNCHANGED <<cis, encryptDue, ltkAsked, cisAsked>>
    BY DEF LeSetPhy
  <2> HIDE DEF phys
  <2>5. [op |-> "phy", from |-> i, handle |-> h, arg |-> phys] \in Action
    BY <2>3 DEF Action
  <2>6. actions' \in Seq(Action)
    BY <2>4, <2>5, DeferType
  <2> QED BY <2>4, <2>6 DEF TypeOK, Defer
<1>3. CASE \E key \in Keys : LeEnableEncryption(i, h, key)
  <2> PICK key \in Keys : LeEnableEncryption(i, h, key)
    BY <1>3
  <2>1. [op |-> "encrypt", from |-> i, handle |-> h, arg |-> key] \in Action
    BY DEF Action
  <2>2. actions' \in Seq(Action)
    BY <2>1, DeferType DEF LeEnableEncryption
  <2>3. encryptDue' \in [Dev -> [Handle -> Int]]
    BY DEF TypeOK, LeEnableEncryption
  <2> QED BY <2>2, <2>3 DEF TypeOK, LeEnableEncryption, Defer
<1>4. CASE \E key \in Keys \cup {None} : LeLtkReply(i, h, key)
  <2> PICK key \in Keys \cup {None} : LeLtkReply(i, h, key)
    BY <1>4
  <2>1. [op |-> "ltkReply", from |-> i, handle |-> h, arg |-> key] \in Action
    BY DEF Action
  <2>2. actions' \in Seq(Action)
    BY <2>1, DeferType DEF LeLtkReply
  <2> QED BY <2>2 DEF TypeOK, LeLtkReply, Defer
<1>5. CASE \E c \in CisHandles : LeCreateCis(i, h, c)
  <2> PICK c \in CisHandles : LeCreateCis(i, h, c)
    BY <1>5
  <2>1. [op |-> "cisRequest", from |-> i, handle |-> h, arg |-> c] \in Action
    BY DEF Action
  <2>2. actions' \in Seq(Action)
    BY <2>1, DeferType DEF LeCreateCis
  <2>3. cis' \in [Dev -> Seq(StreamType)]
    <3>1. Stream(c, h) \in StreamType
      BY DEF Stream, StreamType
    <3>2. cis' = [cis EXCEPT ![i] = Append(cis[i], Stream(c, h))]
      BY DEF LeCreateCis
    <3>3. Append(cis[i], Stream(c, h)) \in Seq(StreamType)
      BY <3>1 DEF TypeOK
    <3> QED BY <3>2, <3>3 DEF TypeOK
  <2> QED BY <2>2, <2>3 DEF TypeOK, LeCreateCis, Defer
<1>6. CASE SendAcl(i, h)
  <2>1. AclHandle(h) \in Nat
    BY MaskAssumption DEF AclHandle, Handle
  <2>2. [op |-> "acl", from |-> i, handle |-> AclHandle(h), arg |-> h] \in Action
    BY <2>1 DEF Action
  <2>3. actions' \in Seq(Action)
    BY <1>6, <2>2, DeferType DEF SendAcl
  <2> QED BY <1>6, <2>3 DEF TypeOK, SendAcl, Defer
<1>7. CASE Disconnect(i, h)
  <2>1. [op |-> "disconnect", from |-> i, handle |-> h, arg |-> None] \in Action
    BY DEF Action
  <2>2. actions' \in Seq(Action)
    BY <1>7, <2>1, DeferType DEF Disconnect
  <2> QED BY <1>7, <2>2 DEF TypeOK, Disconnect, Defer
<1> QED BY <1>1, <1>2, <1>3, <1>4, <1>5, <1>6, <1>7

LEMMA TypeCommand == TypeOK /\ HostCommand => TypeOK'
<1> SUFFICES ASSUME TypeOK, NEW i \in Dev,
               \/ LeSetAdvEnable(i)
               \/ \E target \in Dev : LeCreateConnection(i, target)
               \/ LeCreateConnectionCancel(i)
               \/ \E h \in Handle :
                    \/ \E interval \in Interval : LeConnectionUpdate(i, h, interval)
                    \/ \E p \in PhyPrefs : LeSetPhy(i, h, p[1], p[2])
                    \/ \E key \in Keys : LeEnableEncryption(i, h, key)
                    \/ \E key \in Keys \cup {None} : LeLtkReply(i, h, key)
                    \/ \E c \in CisHandles : LeCreateCis(i, h, c)
                    \/ SendAcl(i, h)
                    \/ Disconnect(i, h)
               \/ \E c \in CisHandles : LeAcceptCisRequest(i, c)
               \/ Reset(i)
             PROVE  TypeOK'
  BY DEF HostCommand
<1>1. CASE LeSetAdvEnable(i)
  BY <1>1 DEF TypeOK, LeSetAdvEnable, hosts
<1>2. CASE \E target \in Dev : LeCreateConnection(i, target)
  BY <1>2 DEF TypeOK, LeCreateConnection
<1>3. CASE LeCreateConnectionCancel(i)
  BY <1>3 DEF TypeOK, LeCreateConnectionCancel, hosts
<1>4. CASE \E c \in CisHandles : LeAcceptCisRequest(i, c)
  <2> PICK c \in CisHandles : LeAcceptCisRequest(i, c)
    BY <1>4
  <2>1. [op |-> "cisAccept", from |-> i, handle |-> 0, arg |-> c] \in Action
    BY DEF Action
  <2>2. actions' \in Seq(Action)
    BY <2>1, DeferType DEF LeAcceptCisRequest
  <2> QED BY <2>2 DEF TypeOK, LeAcceptCisRequest, Defer
<1>5. CASE Reset(i)
  <2>1. [h \in Handle |-> NoConn] \in [Handle -> ConnType]
    BY NoConnType
  <2>2. conn' \in [Dev -> [Handle -> ConnType]]
    BY <1>5, <2>1 DEF TypeOK, Reset
  <2>3. cis' \in [Dev -> Seq(StreamType)]
    BY <1>5 DEF TypeOK, Reset
  <2>4. encryptDue' \in [Dev -> [Handle -> Int]]
    BY <1>5 DEF TypeOK, Reset
  <2> QED BY <1>5, <2>2, <2>3, <2>4 DEF TypeOK, Reset
<1> QED BY <1>1, <1>2, <1>3, <1>4, <1>5, TypeDeferred

\* The other end of a link, as its Action finds it.
LEMMA PeerType ==
  ASSUME TypeOK, NEW i \in Dev, NEW h
  PROVE  PeerOf(i, h) \in Dev \cup {None}
BY DEF TypeOK, ConnType, PeerOf

\* The streams a Disconnect leaves: those of other links, all of them.
LEMMA StreamsLeftAre ==
  ASSUME TypeOK, NEW i \in Dev, NEW h
  PROVE  /\ StreamsLeft(i, h) \in Seq(StreamType)
         /\ \A k \in DOMAIN StreamsLeft(i, h) :
              \E m \in DOMAIN cis[i] : cis[i][m].acl # h /\ StreamsLeft(i, h)[k] = cis[i][m]
         /\ \A m \in DOMAIN cis[i] :
              cis[i][m].acl # h =>
                \E k \in DOMAIN StreamsLeft(i, h) : StreamsLeft(i, h)[k] = cis[i][m]
         /\ \A k, m \in DOMAIN StreamsLeft(i, h) : k # m =>
              \E a, b \in DOMAIN cis[i] :
                a # b /\ StreamsLeft(i, h)[k] = cis[i][a] /\ StreamsLeft(i, h)[m] = cis[i][b]
<1> DEFINE s == cis[i]
           I == {k \in DOMAIN cis[i] : cis[i][k].acl # h}
<1>1. s \in Seq(StreamType) /\ I \in SUBSET DOMAIN s
  BY DEF TypeOK
<1>2. StreamsLeft(i, h) = At(s, I)
  BY DEF StreamsLeft
<1>3. \A k : k \in I <=> k \in DOMAIN s /\ s[k].acl # h
  OBVIOUS
<1> HIDE DEF s, I
<1>4. /\ At(s, I) \in Seq(StreamType)
      /\ \A k \in DOMAIN At(s, I) : Place(I, k) \in I /\ At(s, I)[k] = s[Place(I, k)]
      /\ \A m \in I : Rank(I, m) \in DOMAIN At(s, I) /\ At(s, I)[Rank(I, m)] = s[m]
      /\ \A k, m \in DOMAIN At(s, I) : k < m => Place(I, k) < Place(I, m)
  BY <1>1, AtPlaces
<1>5. ASSUME NEW k \in DOMAIN At(s, I), NEW m \in DOMAIN At(s, I), k # m
      PROVE  \E a, b \in DOMAIN s : a # b /\ At(s, I)[k] = s[a] /\ At(s, I)[m] = s[b]
  <2>1. k \in Nat /\ m \in Nat
    BY <1>4
  <2>2. DOMAIN s \subseteq Nat
    BY <1>1
  <2>3. Place(I, k) \in Nat /\ Place(I, m) \in Nat
    BY <1>1, <1>4, <2>2, Zenon
  <2>4. Place(I, k) # Place(I, m)
    BY <1>4, <1>5, <2>1, <2>3
  <2> QED BY <1>1, <1>4, <2>4
<1>6. /\ \A k \in DOMAIN At(s, I) :
           \E m \in DOMAIN s : s[m].acl # h /\ At(s, I)[k] = s[m]
      /\ \A m \in DOMAIN s :
           s[m].acl # h => \E k \in DOMAIN At(s, I) : At(s, I)[k] = s[m]
  BY <1>3, <1>4
<1>7. s = cis[i]
  BY DEF s
<1> QED BY <1>2, <1>4, <1>5, <1>6, <1>7

\* The stream found by its handle.
LEMMA FirstIs ==
  ASSUME TypeOK, NEW i \in Dev, NEW c, Known(i, c)
  PROVE  First(i, c) \in DOMAIN cis[i] /\ cis[i][First(i, c)].cis = c
<1> DEFINE K == {k \in DOMAIN cis[i] : cis[i][k].cis = c}
<1>1. cis[i] \in Seq(StreamType)
  BY DEF TypeOK
<1>2. K # {} /\ K \subseteq Nat
  BY <1>1 DEF Known
<1>3. \E k \in K : \A m \in K : k <= m
  BY <1>2, LeastNatural
<1>4. \E k \in DOMAIN cis[i] :
        cis[i][k].cis = c /\ \A m \in DOMAIN cis[i] : cis[i][m].cis = c => k <= m
  BY <1>3
<1> QED BY <1>4 DEF First

\* What an LTK reply does when the central's key waits for it.
AnsweredConn(i, h) ==
  IF h # On THEN conn[i][h]
  ELSE [conn[i][h] EXCEPT
          !.ltk = IF i = PeerOf(From, On) THEN None ELSE @,
          !.encrypted = @ \/ (/\ i \in {From, PeerOf(From, On)}
                              /\ conn[PeerOf(From, On)][On].ltk = Arg)]

Answered ==
  /\ PeerOf(From, On) \in Dev
  /\ conn[PeerOf(From, On)][On].ltk # None
  /\ encryptDue' = [encryptDue EXCEPT ![PeerOf(From, On)][On] = @ - 1]
  /\ conn' = [i \in Dev |-> [h \in Handle |-> AnsweredConn(i, h)]]

LEMMA LtkReplyEffect ==
  ASSUME TypeOK, RouteLeLtkReply
  PROVE  UNCHANGED <<conn, encryptDue>> \/ Answered
<1> DEFINE central == PeerOf(From, On)
           held == IF central = None THEN None ELSE conn[central][On].ltk
           encrypted == IF KeyMatches(held, Arg) THEN EncryptedEnds(central) ELSE {}
<1>1. From \in Dev /\ On \in Handle
  BY NowType DEF RouteLeLtkReply
<1>2. central \in Dev \cup {None}
  BY <1>1, PeerType
<1>3. CASE held = None
  BY <1>3 DEF RouteLeLtkReply
<1>4. CASE held # None
  <2>1. /\ encryptDue' = [encryptDue EXCEPT ![central][On] = @ - 1]
        /\ conn' = [i \in Dev |->
             [conn[i] EXCEPT ![On].ltk = IF i = central THEN None ELSE @,
                             ![On].encrypted = @ \/ i \in encrypted]]
    BY <1>4 DEF RouteLeLtkReply
  <2>2. central \in Dev /\ held = conn[central][On].ltk
    BY <1>2, <1>4
  <2>3. \A i : i \in encrypted <=> i \in {From, central} /\ conn[central][On].ltk = Arg
    BY <2>2 DEF KeyMatches, EncryptedEnds
  <2>4. ASSUME NEW i \in Dev, NEW h \in Handle
        PROVE  conn'[i][h] = AnsweredConn(i, h)
    <3>1. conn[i] \in [Handle -> ConnType]
      BY DEF TypeOK
    <3> HIDE DEF encrypted, central, held
    <3>2. conn'[i] = [conn[i] EXCEPT ![On].ltk = IF i = central THEN None ELSE @,
                                     ![On].encrypted = @ \/ i \in encrypted]
      BY <2>1
    <3>3. CASE h # On
      BY <3>1, <3>2, <3>3 DEF AnsweredConn
    <3>4. CASE h = On
      <4>1. conn'[i][h] = [conn[i][h] EXCEPT !.ltk = IF i = central THEN None ELSE @,
                                             !.encrypted = @ \/ i \in encrypted]
        BY <3>1, <3>2, <3>4 DEF ConnType
      <4> QED BY <2>3, <3>4, <4>1 DEF AnsweredConn, central
    <3> QED BY <3>3, <3>4
  <2>5. ASSUME NEW i \in Dev
        PROVE  conn'[i] = [h \in Handle |-> AnsweredConn(i, h)]
    <3> HIDE DEF encrypted, central, held
    <3>1. conn'[i] = [conn[i] EXCEPT ![On] = conn'[i][On]] /\ DOMAIN conn[i] = Handle
      BY <2>1 DEF TypeOK
    <3> QED BY <2>4, <3>1
  <2>6. conn' = [i \in Dev |-> [h \in Handle |-> AnsweredConn(i, h)]]
    <3> HIDE DEF encrypted, central, held
    <3>1. conn' = [i \in Dev |-> conn'[i]]
      BY <2>1
    <3> QED BY <2>5, <3>1
  <2>7. encryptDue' = [encryptDue EXCEPT ![central][On] = @ - 1]
    BY <2>1
  <2>8. conn[central][On].ltk # None
    BY <1>4, <2>2
  <2> HIDE DEF encrypted, held
  <2> QED BY <2>2, <2>6, <2>7, <2>8 DEF Answered
<1> QED BY <1>3, <1>4

LEMMA TypeTick == TypeOK /\ Tick => TypeOK'
<1> SUFFICES ASSUME TypeOK, Tick
             PROVE  TypeOK'
  OBVIOUS
<1>1. CASE DrainDone
  BY <1>1, SizeAssumption DEF TypeOK, DrainDone, hosts, Dev
<1>2. CASE TickPendingConnect
  <2>1. turn' \in Dev /\ phase' \in {"drain", "connect", "route"}
    BY <1>2, SizeAssumption DEF TypeOK, TickPendingConnect, Dev
  <2>2. CASE Connectable(turn)
    <3> DEFINE j == pending[turn]
    <3>1. turn \in Dev /\ j \in Dev /\ nextHandle \in Handle
      BY <2>2, SizeAssumption DEF TypeOK, Connectable, Handle
    <3>2. Establish(turn, j)
      BY <1>2, <2>2 DEF TickPendingConnect
    <3> HIDE DEF j
    <3>3. \A p \in Dev : [NoConn EXCEPT !.peer = p] \in ConnType
      BY DEF NoConn, ConnType, Interval, Phy
    <3>4. conn' \in [Dev -> [Handle -> ConnType]]
      BY <3>1, <3>2, <3>3 DEF Establish, TypeOK
    <3>5. nextHandle' \in Nat \ {0}
      BY <3>2 DEF Establish, TypeOK
    <3>6. /\ advertising' \in [Dev -> BOOLEAN]
          /\ pending' \in [Dev -> Dev \cup {None}]
          /\ createDue' \in [Dev -> BOOLEAN]
      BY <3>2 DEF Establish, TypeOK
    <3> QED BY <1>2, <2>1, <3>4, <3>5, <3>6 DEF TypeOK, TickPendingConnect
  <2>3. CASE ~Connectable(turn)
    BY <1>2, <2>1, <2>3 DEF TypeOK, TickPendingConnect
  <2> QED BY <2>2, <2>3
<1>3. CASE RouteConnectionUpdate
  <2>1. actions' \in Seq(Action) /\ On \in Handle /\ Arg \in Interval
    BY <1>3, NowType DEF RouteConnectionUpdate
  <2>2. conn' \in [Dev -> [Handle -> ConnType]]
    <3>1. \A r \in ConnType : [r EXCEPT !.interval = Arg] \in ConnType
      BY <2>1 DEF ConnType
    <3>2. \A i \in Dev : [conn[i] EXCEPT ![On].interval = Arg] \in [Handle -> ConnType]
      BY <2>1, <3>1 DEF TypeOK
    <3> QED BY <1>3, <3>2 DEF TypeOK, RouteConnectionUpdate
  <2> QED BY <1>3, <2>1, <2>2 DEF TypeOK, RouteConnectionUpdate, Now
<1>4. CASE RoutePhyUpdate
  <2>1. actions' \in Seq(Action) /\ On \in Handle
    BY <1>4, NowType DEF RoutePhyUpdate
  <2>2. \A i \in Dev : Swapped(i, Arg).tx \in Phy /\ Swapped(i, Arg).rx \in Phy
    <3>1. Arg \in [tx : Phy, rx : Phy, asked : PhyPrefs]
      BY <1>4, NowType DEF RoutePhyUpdate
    <3> QED BY <3>1 DEF Swapped
  <2>3. conn' \in [Dev -> [Handle -> ConnType]]
    <3>1. \A r \in ConnType, tx, rx \in Phy : [r EXCEPT !.tx = tx, !.rx = rx] \in ConnType
      BY DEF ConnType
    <3>2. \A i \in Dev, tx, rx \in Phy :
            [conn[i] EXCEPT ![On].tx = tx, ![On].rx = rx] \in [Handle -> ConnType]
      <4> SUFFICES ASSUME NEW i \in Dev, NEW tx \in Phy, NEW rx \in Phy
                   PROVE  [conn[i] EXCEPT ![On].tx = tx, ![On].rx = rx] \in [Handle -> ConnType]
        OBVIOUS
      <4>1. conn[i] \in [Handle -> ConnType] /\ conn[i][On] \in ConnType
        BY <2>1 DEF TypeOK
      <4>2. [conn[i] EXCEPT ![On].tx = tx, ![On].rx = rx]
              = [conn[i] EXCEPT ![On] = [conn[i][On] EXCEPT !.tx = tx, !.rx = rx]]
        BY <2>1, <4>1
      <4> QED BY <2>1, <3>1, <4>1, <4>2
    <3> QED BY <1>4, <2>2, <3>2 DEF TypeOK, RoutePhyUpdate
  <2> QED BY <1>4, <2>1, <2>3 DEF TypeOK, RoutePhyUpdate, Now
<1>5. CASE RouteLeEnableEncryption
  <2> DEFINE peer == PeerOf(From, On)
  <2>1. actions' \in Seq(Action) /\ From \in Dev /\ On \in Handle /\ Arg \in Keys
    BY <1>5, NowType DEF RouteLeEnableEncryption
  <2>2. peer \in Dev \cup {None}
    BY <2>1, PeerType
  <2>3. conn' \in [Dev -> [Handle -> ConnType]]
    <3>1. \A r \in ConnType : [r EXCEPT !.ltk = Arg] \in ConnType
      BY <2>1 DEF ConnType
    <3>2. [conn EXCEPT ![From][On].ltk = Arg] \in [Dev -> [Handle -> ConnType]]
      BY <2>1, <3>1 DEF TypeOK
    <3> QED BY <1>5, <3>2 DEF TypeOK, RouteLeEnableEncryption
  <2>4. ltkAsked' \in [Dev -> SUBSET Handle]
    <3>1. peer # None => ltkAsked' = [ltkAsked EXCEPT ![peer] = @ \cup {On}]
      BY <1>5 DEF RouteLeEnableEncryption
    <3>2. peer = None => ltkAsked' = ltkAsked
      BY <1>5 DEF RouteLeEnableEncryption
    <3> HIDE DEF peer
    <3>3. CASE peer = None
      BY <3>2, <3>3 DEF TypeOK
    <3>4. CASE peer \in Dev
      <4>1. peer # None
        BY <3>4, NoneApart
      <4>2. ltkAsked[peer] \cup {On} \in SUBSET Handle
        BY <2>1, <3>4 DEF TypeOK
      <4>3. ltkAsked' = [ltkAsked EXCEPT ![peer] = ltkAsked[peer] \cup {On}]
        BY <3>1, <4>1
      <4> QED BY <3>4, <4>2, <4>3 DEF TypeOK
    <3> QED BY <2>2, <3>3, <3>4
  <2> QED BY <1>5, <2>1, <2>3, <2>4 DEF TypeOK, RouteLeEnableEncryption, Now
<1>6. CASE RouteLeLtkReply
  <2>1. actions' \in Seq(Action) /\ From \in Dev /\ On \in Handle
    BY <1>6, NowType DEF RouteLeLtkReply
  <2>2. CASE UNCHANGED <<conn, encryptDue>>
    BY <1>6, <2>1, <2>2 DEF TypeOK, RouteLeLtkReply, Now
  <2>3. CASE Answered
    <3>1. conn' \in [Dev -> [Handle -> ConnType]]
      <4>1. ASSUME NEW i \in Dev, NEW h \in Handle
            PROVE  conn'[i][h] \in ConnType
        <5>1. conn[i][h] \in ConnType /\ conn'[i][h] = AnsweredConn(i, h)
          BY <2>3 DEF Answered, TypeOK
        <5> QED BY <5>1 DEF AnsweredConn, ConnType
      <4>2. conn' = [i \in Dev |-> [h \in Handle |-> AnsweredConn(i, h)]]
        BY <2>3 DEF Answered
      <4> QED BY <4>1, <4>2
    <3>2. encryptDue' \in [Dev -> [Handle -> Int]]
      <4> DEFINE p == PeerOf(From, On)
      <4>1. p \in Dev /\ encryptDue' = [encryptDue EXCEPT ![p][On] = @ - 1]
        BY <2>3 DEF Answered
      <4> HIDE DEF p
      <4> QED BY <2>1, <4>1 DEF TypeOK
    <3> QED BY <1>6, <2>1, <3>1, <3>2 DEF TypeOK, RouteLeLtkReply, Now
  <2> QED BY <1>6, <2>2, <2>3, LtkReplyEffect
<1>7. CASE RouteCisRequest
  <2> DEFINE peer == PeerOf(From, On)
  <2>1. actions' \in Seq(Action) /\ From \in Dev /\ On \in Handle /\ Arg \in CisHandles
    BY <1>7, NowType DEF RouteCisRequest
  <2>2. peer \in Dev \cup {None}
    BY <2>1, PeerType
  <2>3. Stream(Arg, On) \in StreamType
    BY <2>1 DEF Stream, StreamType
  <2>4. cis' \in [Dev -> Seq(StreamType)] /\ cisAsked' \in [Dev -> SUBSET CisHandles]
    <3>1. CASE peer = None
      BY <1>7, <3>1 DEF TypeOK, RouteCisRequest
    <3>2. CASE peer # None
      <4>1. /\ cis' = [cis EXCEPT ![peer] = Append(cis[peer], Stream(Arg, On))]
            /\ cisAsked' = [cisAsked EXCEPT ![peer] = @ \cup {Arg}]
            /\ peer \in Dev
        BY <1>7, <2>2, <3>2 DEF RouteCisRequest
      <4> HIDE DEF peer
      <4>2. Append(cis[peer], Stream(Arg, On)) \in Seq(StreamType)
        BY <2>3, <4>1 DEF TypeOK
      <4> QED BY <2>1, <4>1, <4>2 DEF TypeOK
    <3> QED BY <3>1, <3>2
  <2> QED BY <1>7, <2>1, <2>4 DEF TypeOK, RouteCisRequest, Now
<1>8. CASE RouteCisAccept
  <2>1. actions' \in Seq(Action) /\ From \in Dev
    BY <1>8, NowType DEF RouteCisAccept
  <2>2. ASSUME NEW i \in Dev, Known(i, Arg)
        PROVE  [cis[i] EXCEPT ![First(i, Arg)].established = TRUE] \in Seq(StreamType)
    <3> DEFINE f == First(i, Arg)
               e == [cis[i][f] EXCEPT !.established = TRUE]
    <3>1. f \in DOMAIN cis[i] /\ cis[i] \in Seq(StreamType)
      BY <2>2, FirstIs DEF TypeOK
    <3> HIDE DEF f
    <3>2. e \in StreamType
      <4>1. cis[i][f] \in StreamType
        BY <3>1
      <4> QED BY <4>1 DEF StreamType
    <3>3. [cis[i] EXCEPT ![f] = e] \in Seq(StreamType)
      <4> HIDE DEF e
      <4> QED BY <3>1, <3>2, ExceptSeq
    <3>4. [cis[i] EXCEPT ![f].established = TRUE] = [cis[i] EXCEPT ![f] = e]
      OBVIOUS
    <3> QED BY <3>3, <3>4 DEF f
  <2>3. cis' \in [Dev -> Seq(StreamType)]
    BY <1>8, <2>2 DEF TypeOK, RouteCisAccept
  <2> QED BY <1>8, <2>1, <2>3 DEF TypeOK, RouteCisAccept, Now
<1>9. CASE RouteAcl
  <2>1. actions' \in Seq(Action)
    BY <1>9, NowType DEF RouteAcl
  <2> QED BY <1>9, <2>1 DEF TypeOK, RouteAcl, Now
<1>10. CASE RouteDisconnect
  <2> DEFINE ends == {From, PeerOf(From, On)}
  <2>1. actions' \in Seq(Action) /\ On \in Handle
    BY <1>10, NowType DEF RouteDisconnect
  <2>2. CASE None \notin ends
    <3>1. conn' \in [Dev -> [Handle -> ConnType]]
      BY <1>10, <2>1, <2>2, NoConnType DEF TypeOK, RouteDisconnect
    <3>2. cis' \in [Dev -> Seq(StreamType)]
      <4>1. \A i \in Dev : StreamsLeft(i, On) \in Seq(StreamType)
        BY StreamsLeftAre
      <4> QED BY <1>10, <2>2, <4>1 DEF TypeOK, RouteDisconnect
    <3>3. ltkAsked' \in [Dev -> SUBSET Handle]
      <4>1. \A i \in Dev : ltkAsked[i] \in SUBSET Handle /\ ltkAsked[i] \ {On} \in SUBSET Handle
        BY DEF TypeOK
      <4>2. ltkAsked' = [i \in Dev |-> IF i \in ends THEN ltkAsked[i] \ {On} ELSE ltkAsked[i]]
        BY <1>10, <2>2 DEF RouteDisconnect
      <4> HIDE DEF ends
      <4> QED BY <4>1, <4>2
    <3>4. encryptDue' \in [Dev -> [Handle -> Int]]
      BY <1>10, <2>1, <2>2 DEF TypeOK, RouteDisconnect
    <3> QED BY <1>10, <2>1, <3>1, <3>2, <3>3, <3>4 DEF TypeOK, RouteDisconnect, Now
  <2>3. CASE None \in ends
    BY <1>10, <2>1, <2>3 DEF TypeOK, RouteDisconnect, Now
  <2> QED BY <2>2, <2>3
<1>11. CASE RouteDone
  BY <1>11 DEF TypeOK, RouteDone, hosts
<1> QED BY <1>1, <1>2, <1>3, <1>4, <1>5, <1>6, <1>7, <1>8, <1>9, <1>10, <1>11 DEF Tick

\* The LE controller's state keeps its types: no queued Action names a controller or
\* a handle that cannot exist, and every lookup by handle finds what it looks for.
THEOREM TypeCorrect == Spec => []TypeOK
<1>1. TypeOK /\ [Next]_vars => TypeOK'
  <2>1. TypeOK /\ UNCHANGED vars => TypeOK'
    BY DEF TypeOK, vars, hosts
  <2> QED BY <2>1, TypeCommand, TypeTick DEF Next
<1> QED BY <1>1, TypeInit, PTL DEF Spec

--------------------------------------------------------------------------------
(***************************************************************************)
(* Links.                                                                  *)
(***************************************************************************)

\* Steps that leave everyone's peers alone.
LEMMA SamePeers ==
  ASSUME Inv, UNCHANGED <<nextHandle, pending>>,
         \A i \in Dev, h \in Handle : conn'[i][h].peer = conn[i][h].peer,
         \A i \in Dev, h \in Handle : conn[i][h].peer = None => conn'[i][h] = conn[i][h]
  PROVE  Peers' /\ HandlesFresh' /\ OnePair'
<1>1. Peers'
  BY DEF Inv, Peers
<1>2. HandlesFresh'
  BY DEF Inv, HandlesFresh
<1>3. OnePair'
  BY DEF Inv, OnePair, Holds
<1> QED BY <1>1, <1>2, <1>3

LEMMA InvUnchanged == Inv /\ TypeOK' /\ UNCHANGED links => Inv'
BY DEF Inv, links, Peers, HandlesFresh, OnePair, LinksAgree, Holds

\* The two ends of a link, where both hold it.
LEMMA Ends ==
  ASSUME Inv, NEW i \in Dev, NEW h \in Handle, conn[i][h].peer # None,
         Holds(conn[i][h].peer, h)
  PROVE  /\ conn[i][h].peer \in Dev
         /\ conn[i][h].peer # i
         /\ conn[conn[i][h].peer][h].peer = i
<1>1. conn[i][h].peer \in Dev
  BY DEF Inv, TypeOK, ConnType
<1> QED BY <1>1 DEF Inv, Peers, LinksAgree

\* Reset blanks one controller; the others keep what they had.
LEMMA ResetInv ==
  ASSUME Inv, TypeOK', NEW i \in Dev, Reset(i)
  PROVE  Inv'
<1>1. \A j \in Dev, h \in Handle : conn'[j][h] = IF j = i THEN NoConn ELSE conn[j][h]
  BY DEF Inv, TypeOK, Reset
<1>2. nextHandle' = nextHandle /\ \A j \in Dev : pending'[j] = IF j = i THEN None ELSE pending[j]
  BY DEF Inv, TypeOK, Reset
<1>3. NoConn.peer = None
  BY DEF NoConn
<1>4. Peers'
  BY <1>1, <1>2, <1>3, NoneApart DEF Inv, Peers
<1>5. HandlesFresh'
  BY <1>1, <1>2, <1>3 DEF Inv, HandlesFresh
<1>6. OnePair'
  BY <1>1, <1>3 DEF Inv, OnePair, Holds
<1>7. LinksAgree'
  <2> SUFFICES ASSUME NEW j \in Dev, NEW h \in Handle,
                      conn'[j][h].peer # None, conn'[conn'[j][h].peer][h].peer # None
               PROVE  /\ conn'[conn'[j][h].peer][h].peer = j
                      /\ conn'[conn'[j][h].peer][h].interval = conn'[j][h].interval
                      /\ conn'[conn'[j][h].peer][h].tx = conn'[j][h].rx
                      /\ conn'[conn'[j][h].peer][h].encrypted = conn'[j][h].encrypted
    BY DEF LinksAgree, Holds
  <2>1. j # i /\ conn'[j][h] = conn[j][h]
    BY <1>1, <1>3
  <2>2. conn[j][h].peer \in Dev
    BY <2>1 DEF Inv, TypeOK, ConnType
  <2>3. conn'[conn[j][h].peer][h] = conn[conn[j][h].peer][h]
    BY <1>1, <1>3, <2>1, <2>2
  <2> QED BY <2>1, <2>2, <2>3 DEF Inv, LinksAgree, Holds
<1> QED BY <1>4, <1>5, <1>6, <1>7 DEF Inv

\* A new link: a handle nobody holds, at two controllers that point at each other.
LEMMA ConnectInv ==
  ASSUME Inv, TypeOK', TickPendingConnect
  PROVE  Inv'
<1>1. CASE ~Connectable(turn)
  BY <1>1, InvUnchanged DEF TickPendingConnect, links
<1>2. CASE Connectable(turn)
  <2> DEFINE i == turn
             j == pending[turn]
             n == nextHandle
             ci == [NoConn EXCEPT !.peer = j]
             cj == [NoConn EXCEPT !.peer = i]
  <2>1. i \in Dev /\ j \in Dev /\ n \in Handle /\ i # j /\ n \in Nat
    BY <1>2, SizeAssumption DEF Inv, TypeOK, Peers, Connectable, Handle
  <2>2. /\ conn' = [conn EXCEPT ![i][n] = ci, ![j][n] = cj]
        /\ nextHandle' = n + 1
        /\ pending' = [pending EXCEPT ![i] = None]
    BY <1>2 DEF TickPendingConnect, Establish
  <2>3. /\ ci.peer = j /\ cj.peer = i
        /\ ci.interval = cj.interval /\ ci.tx = cj.rx /\ cj.tx = ci.rx
        /\ ci.encrypted = cj.encrypted
    BY DEF NoConn
  <2> HIDE DEF i, j, n, ci, cj
  <2>4. \A k \in Dev, h \in Handle :
          conn'[k][h] = IF h = n /\ k = i THEN ci ELSE IF h = n /\ k = j THEN cj
                        ELSE conn[k][h]
    <3> SUFFICES ASSUME NEW k \in Dev, NEW h \in Handle
                 PROVE  conn'[k][h] = IF h = n /\ k = i THEN ci
                                      ELSE IF h = n /\ k = j THEN cj ELSE conn[k][h]
      OBVIOUS
    <3>1. conn \in [Dev -> [Handle -> ConnType]]
      BY DEF Inv, TypeOK
    <3>2. CASE k = i
      <4>1. conn'[i] = [conn[i] EXCEPT ![n] = ci]
        BY <2>1, <2>2, <3>1
      <4> QED BY <2>1, <3>1, <3>2, <4>1
    <3>3. CASE k = j
      <4>1. conn'[j] = [conn[j] EXCEPT ![n] = cj]
        BY <2>1, <2>2, <3>1
      <4> QED BY <2>1, <3>1, <3>3, <4>1
    <3>4. CASE k # i /\ k # j
      BY <2>1, <2>2, <3>1, <3>4
    <3> QED BY <3>2, <3>3, <3>4
  <2>5. \A k \in Dev : conn[k][n].peer = None
    BY <2>1 DEF Inv, HandlesFresh, n
  <2>6. None # i /\ None # j
    BY <2>1, NoneApart
  <2>7. Peers'
    <3>1. \A k \in Dev : pending'[k] # k
      BY <2>1, <2>2, NoneApart DEF Inv, TypeOK, Peers
    <3>2. \A k \in Dev, h \in Handle : conn'[k][h].peer # k
      BY <2>1, <2>3, <2>4 DEF Inv, Peers
    <3>3. \A k \in Dev, h \in Handle : conn'[k][h].peer = None => conn'[k][h] = NoConn
      BY <2>3, <2>4, <2>6 DEF Inv, Peers
    <3> QED BY <3>1, <3>2, <3>3 DEF Peers
  <2>8. HandlesFresh'
    <3>1. \A h \in Handle : h >= nextHandle' => h >= nextHandle /\ h # n
      BY <2>1, <2>2 DEF n, Handle
    <3> QED BY <2>4, <3>1 DEF Inv, HandlesFresh
  <2>9. OnePair'
    <3> SUFFICES ASSUME NEW a \in Dev, NEW b \in Dev, NEW h \in Handle, a # b,
                        conn'[a][h].peer # None, conn'[b][h].peer # None
                 PROVE  conn'[a][h].peer = b
      BY DEF OnePair, Holds
    <3>1. CASE h = n
      BY <2>1, <2>3, <2>4, <2>5, <3>1
    <3>2. CASE h # n
      BY <2>4, <3>2 DEF Inv, OnePair, Holds
    <3> QED BY <3>1, <3>2
  <2>10. LinksAgree'
    <3> SUFFICES ASSUME NEW a \in Dev, NEW h \in Handle, NEW b, b = conn'[a][h].peer,
                        b # None, conn'[b][h].peer # None
                 PROVE  /\ conn'[b][h].peer = a
                        /\ conn'[b][h].interval = conn'[a][h].interval
                        /\ conn'[b][h].tx = conn'[a][h].rx
                        /\ conn'[b][h].encrypted = conn'[a][h].encrypted
      BY DEF LinksAgree, Holds
    <3>1. CASE h = n
      BY <2>1, <2>3, <2>4, <2>5, <3>1
    <3>2. CASE h # n
      <4>1. conn'[a][h] = conn[a][h] /\ b \in Dev
        BY <2>4, <3>2 DEF Inv, TypeOK, ConnType
      <4>2. conn'[b][h] = conn[b][h]
        BY <2>4, <3>2, <4>1
      <4> QED BY <4>1, <4>2 DEF Inv, LinksAgree, Holds
    <3> QED BY <3>1, <3>2
  <2> QED BY <2>7, <2>8, <2>9, <2>10 DEF Inv
<1> QED BY <1>1, <1>2

\* An Action reaches both ends of a link or neither.
LEMMA BothOrNeither ==
  ASSUME Inv, From \in Dev, On \in Handle, NEW a \in Dev, NEW b \in Dev,
         conn[a][On].peer = b, conn[b][On].peer # None
  PROVE  a \in AtBothEnds(From, On) <=> b \in AtBothEnds(From, On)
<1>1. conn[b][On].peer = a /\ b # None /\ a # None
  BY NoneApart DEF Inv, LinksAgree, Holds
<1>2. conn[From][On].peer \in Dev \cup {None}
  BY DEF Inv, TypeOK, ConnType
<1>3. ASSUME NEW c \in Dev
      PROVE  c \in AtBothEnds(From, On) <=>
               /\ c = From \/ c = conn[From][On].peer
               /\ conn[From][On].peer # None
               /\ conn[c][On].peer # None
  BY DEF AtBothEnds, PeerOf, Holds
<1>4. ASSUME NEW c \in Dev, c # From, c = conn[From][On].peer, conn[c][On].peer # None
      PROVE  conn[c][On].peer = From
  BY <1>4, NoneApart DEF Inv, LinksAgree, Holds
<1> QED BY <1>1, <1>2, <1>3, <1>4

\* Both ends of a link take the new interval.
LEMMA UpdateInv ==
  ASSUME Inv, TypeOK', RouteConnectionUpdate
  PROVE  Inv' /\ PeersKept
<1> DEFINE both == AtBothEnds(From, On)
<1>1. From \in Dev /\ On \in Handle
  BY NowType DEF RouteConnectionUpdate, Inv
<1>2. \A i \in Dev, h \in Handle :
        conn'[i][h] = IF i \in both /\ h = On THEN [conn[i][h] EXCEPT !.interval = Arg]
                      ELSE conn[i][h]
  <2>1. conn' = [i \in Dev |-> IF i \in both THEN [conn[i] EXCEPT ![On].interval = Arg]
                               ELSE conn[i]]
    BY DEF RouteConnectionUpdate
  <2> HIDE DEF both
  <2> QED BY <1>1, <2>1 DEF Inv, TypeOK
<1>3. \A i \in Dev, h \in Handle :
        conn[i][h] \in ConnType /\ (i \in both => conn[i][On].peer # None)
  BY <1>1 DEF AtBothEnds, Holds, Inv, TypeOK
<1>4. \A i \in Dev, h \in Handle :
        /\ conn'[i][h].peer = conn[i][h].peer
        /\ conn'[i][h].tx = conn[i][h].tx /\ conn'[i][h].rx = conn[i][h].rx
        /\ conn'[i][h].encrypted = conn[i][h].encrypted
        /\ conn'[i][h].interval = IF i \in both /\ h = On THEN Arg ELSE conn[i][h].interval
        /\ conn[i][h].peer = None => conn'[i][h] = conn[i][h]
  <2> HIDE DEF both
  <2>1. ASSUME NEW r \in ConnType
        PROVE  /\ [r EXCEPT !.interval = Arg].peer = r.peer
               /\ [r EXCEPT !.interval = Arg].tx = r.tx
               /\ [r EXCEPT !.interval = Arg].rx = r.rx
               /\ [r EXCEPT !.interval = Arg].encrypted = r.encrypted
               /\ [r EXCEPT !.interval = Arg].interval = Arg
    BY DEF ConnType
  <2>2. ASSUME NEW i \in Dev, NEW h \in Handle, i \in both /\ h = On
        PROVE  conn'[i][h] = [conn[i][h] EXCEPT !.interval = Arg] /\ conn[i][h].peer # None
    BY <1>2, <1>3, <2>2
  <2>3. ASSUME NEW i \in Dev, NEW h \in Handle, ~(i \in both /\ h = On)
        PROVE  conn'[i][h] = conn[i][h]
    BY <1>2, <2>3
  <2> SUFFICES ASSUME NEW i \in Dev, NEW h \in Handle
               PROVE  /\ conn'[i][h].peer = conn[i][h].peer
                      /\ conn'[i][h].tx = conn[i][h].tx /\ conn'[i][h].rx = conn[i][h].rx
                      /\ conn'[i][h].encrypted = conn[i][h].encrypted
                      /\ conn'[i][h].interval = IF i \in both /\ h = On THEN Arg
                                                ELSE conn[i][h].interval
                      /\ conn[i][h].peer = None => conn'[i][h] = conn[i][h]
    OBVIOUS
  <2>4. CASE i \in both /\ h = On
    <3>1. conn[i][h] \in ConnType
      BY <1>3
    <3>2. conn'[i][h] = [conn[i][h] EXCEPT !.interval = Arg] /\ conn[i][h].peer # None
      BY <2>2, <2>4
    <3> QED BY <2>1, <2>4, <3>1, <3>2
  <2>5. CASE ~(i \in both /\ h = On)
    BY <2>3, <2>5
  <2> QED BY <2>4, <2>5
<1>5. Peers' /\ HandlesFresh' /\ OnePair'
  BY <1>4, SamePeers DEF RouteConnectionUpdate, Now
<1>6. ASSUME NEW a \in Dev, NEW b \in Dev, conn[a][On].peer = b, conn[b][On].peer # None
      PROVE  a \in both <=> b \in both
  BY <1>1, <1>6, BothOrNeither
<1>7. LinksAgree'
  <2> SUFFICES ASSUME NEW a \in Dev, NEW h \in Handle, NEW b, b = conn'[a][h].peer,
                      b # None, conn'[b][h].peer # None
               PROVE  /\ conn'[b][h].peer = a
                      /\ conn'[b][h].interval = conn'[a][h].interval
                      /\ conn'[b][h].tx = conn'[a][h].rx
                      /\ conn'[b][h].encrypted = conn'[a][h].encrypted
    BY DEF LinksAgree, Holds
  <2>1. b = conn[a][h].peer /\ b \in Dev
    BY <1>3, <1>4 DEF ConnType
  <2>2. /\ conn[b][h].peer = a
        /\ conn[b][h].interval = conn[a][h].interval
        /\ conn[b][h].tx = conn[a][h].rx
        /\ conn[b][h].encrypted = conn[a][h].encrypted
    BY <1>4, <2>1 DEF Inv, LinksAgree, Holds
  <2> HIDE DEF both
  <2>3. a \in both /\ h = On <=> b \in both /\ h = On
    BY <1>4, <1>6, <2>1
  <2> QED BY <1>4, <2>1, <2>2, <2>3
<1> QED BY <1>4, <1>5, <1>7 DEF Inv, PeersKept

\* Both ends take the new PHYs, each in its own direction.
LEMMA PhyInv ==
  ASSUME Inv, TypeOK', RoutePhyUpdate
  PROVE  Inv' /\ PeersKept
<1> DEFINE both == AtBothEnds(From, On)
           new(i) == Swapped(i, Arg)
<1>1. From \in Dev /\ On \in Handle /\ Arg \in [tx : Phy, rx : Phy, asked : PhyPrefs]
  BY NowType DEF RoutePhyUpdate, Inv
<1>2. \A i, j \in Dev : i # j /\ From \in {i, j} => new(j).tx = new(i).rx /\ new(j).rx = new(i).tx
  BY <1>1 DEF Swapped
<1> HIDE DEF both, new
<1>3. ASSUME NEW i \in Dev, NEW h \in Handle
      PROVE  conn'[i][h] = IF i \in both /\ h = On
                           THEN [conn[i][h] EXCEPT !.tx = new(i).tx, !.rx = new(i).rx]
                           ELSE conn[i][h]
  <2>1. conn'[i] = IF i \in both THEN [conn[i] EXCEPT ![On].tx = new(i).tx, ![On].rx = new(i).rx]
                   ELSE conn[i]
    BY DEF RoutePhyUpdate, both, new
  <2>2. conn[i] \in [Handle -> ConnType]
    BY DEF Inv, TypeOK
  <2>3. CASE i \in both
    <3>1. [conn[i] EXCEPT ![On].tx = new(i).tx, ![On].rx = new(i).rx]
            = [conn[i] EXCEPT ![On] = [conn[i][On] EXCEPT !.tx = new(i).tx, !.rx = new(i).rx]]
      BY <1>1, <2>2
    <3> QED BY <1>1, <2>1, <2>2, <2>3, <3>1
  <2> QED BY <2>1, <2>3
<1>4. \A i \in Dev, h \in Handle :
        conn[i][h] \in ConnType /\ (i \in both => conn[i][On].peer # None)
  BY <1>1 DEF AtBothEnds, Holds, Inv, TypeOK, both
<1>5. \A i \in Dev, h \in Handle :
        /\ conn'[i][h].peer = conn[i][h].peer
        /\ conn'[i][h].interval = conn[i][h].interval
        /\ conn'[i][h].encrypted = conn[i][h].encrypted
        /\ conn'[i][h].tx = IF i \in both /\ h = On THEN new(i).tx ELSE conn[i][h].tx
        /\ conn'[i][h].rx = IF i \in both /\ h = On THEN new(i).rx ELSE conn[i][h].rx
        /\ conn[i][h].peer = None => conn'[i][h] = conn[i][h]
  <2>1. ASSUME NEW r \in ConnType, NEW t, NEW u
        PROVE  /\ [r EXCEPT !.tx = t, !.rx = u].peer = r.peer
               /\ [r EXCEPT !.tx = t, !.rx = u].interval = r.interval
               /\ [r EXCEPT !.tx = t, !.rx = u].encrypted = r.encrypted
               /\ [r EXCEPT !.tx = t, !.rx = u].tx = t
               /\ [r EXCEPT !.tx = t, !.rx = u].rx = u
    BY DEF ConnType
  <2>2. ASSUME NEW i \in Dev, NEW h \in Handle, i \in both /\ h = On
        PROVE  /\ conn'[i][h] = [conn[i][h] EXCEPT !.tx = new(i).tx, !.rx = new(i).rx]
               /\ conn[i][h].peer # None
    BY <1>3, <1>4, <2>2
  <2>3. ASSUME NEW i \in Dev, NEW h \in Handle, ~(i \in both /\ h = On)
        PROVE  conn'[i][h] = conn[i][h]
    BY <1>3, <2>3
  <2> SUFFICES ASSUME NEW i \in Dev, NEW h \in Handle
               PROVE  /\ conn'[i][h].peer = conn[i][h].peer
                      /\ conn'[i][h].interval = conn[i][h].interval
                      /\ conn'[i][h].encrypted = conn[i][h].encrypted
                      /\ conn'[i][h].tx = IF i \in both /\ h = On THEN new(i).tx
                                          ELSE conn[i][h].tx
                      /\ conn'[i][h].rx = IF i \in both /\ h = On THEN new(i).rx
                                          ELSE conn[i][h].rx
                      /\ conn[i][h].peer = None => conn'[i][h] = conn[i][h]
    OBVIOUS
  <2>4. CASE i \in both /\ h = On
    <3>1. conn[i][h] \in ConnType
      BY <1>4
    <3>2. /\ conn'[i][h] = [conn[i][h] EXCEPT !.tx = new(i).tx, !.rx = new(i).rx]
          /\ conn[i][h].peer # None
      BY <2>2, <2>4
    <3> QED BY <2>1, <2>4, <3>1, <3>2
  <2>5. CASE ~(i \in both /\ h = On)
    BY <2>3, <2>5
  <2> QED BY <2>4, <2>5
<1>6. Peers' /\ HandlesFresh' /\ OnePair'
  BY <1>5, SamePeers DEF RoutePhyUpdate, Now
<1>7. ASSUME NEW a \in Dev, NEW b \in Dev, conn[a][On].peer = b, conn[b][On].peer # None
      PROVE  (a \in both <=> b \in both) /\ (a \in both => From \in {a, b})
  <2>1. conn[b][On].peer = a
    BY <1>1, <1>7, NoneApart DEF Inv, LinksAgree, Holds
  <2>2. a \in both => a = From \/ a = conn[From][On].peer
    BY <1>1 DEF both, AtBothEnds, PeerOf
  <2>3. a = conn[From][On].peer /\ conn[a][On].peer # None => conn[a][On].peer = From
    BY <1>1, NoneApart DEF Inv, LinksAgree, Holds
  <2>4. conn[a][On].peer # None
    BY <1>7, NoneApart
  <2> QED BY <1>1, <1>7, <2>2, <2>3, <2>4, BothOrNeither DEF both
<1>8. LinksAgree'
  <2> SUFFICES ASSUME NEW a \in Dev, NEW h \in Handle, NEW b, b = conn'[a][h].peer,
                      b # None, conn'[b][h].peer # None
               PROVE  /\ conn'[b][h].peer = a
                      /\ conn'[b][h].interval = conn'[a][h].interval
                      /\ conn'[b][h].tx = conn'[a][h].rx
                      /\ conn'[b][h].encrypted = conn'[a][h].encrypted
    BY DEF LinksAgree, Holds
  <2>1. b = conn[a][h].peer /\ b \in Dev /\ a # b
    BY <1>4, <1>5 DEF ConnType, Inv, Peers
  <2>2. /\ conn[b][h].peer = a
        /\ conn[b][h].interval = conn[a][h].interval
        /\ conn[b][h].tx = conn[a][h].rx
        /\ conn[b][h].encrypted = conn[a][h].encrypted
    BY <1>5, <2>1 DEF Inv, LinksAgree, Holds
  <2>3. CASE h = On /\ a \in both
    <3>1. b \in both /\ From \in {a, b}
      BY <1>5, <1>7, <2>1, <2>3
    <3> QED BY <1>2, <1>5, <2>1, <2>2, <2>3, <3>1
  <2>4. CASE ~(h = On /\ a \in both)
    <3>1. ~(h = On /\ b \in both)
      BY <1>5, <1>7, <2>1, <2>4
    <3> QED BY <1>5, <2>1, <2>2, <2>4, <3>1
  <2> QED BY <2>3, <2>4
<1> QED BY <1>5, <1>6, <1>8 DEF Inv, PeersKept

\* The key an LE Enable Encryption names waits at its own end.
LEMMA EncryptInv ==
  ASSUME Inv, TypeOK', RouteLeEnableEncryption
  PROVE  Inv' /\ PeersKept
<1>1. From \in Dev /\ On \in Handle
  BY NowType DEF RouteLeEnableEncryption, Inv
<1>2. CASE UNCHANGED conn
  BY <1>2, InvUnchanged DEF RouteLeEnableEncryption, Now, links, PeersKept
<1>3. CASE /\ PeerOf(From, On) # None
           /\ conn' = [conn EXCEPT ![From][On].ltk = Arg]
  <2>1. \A i \in Dev, h \in Handle : conn[i][h] \in ConnType
    BY DEF Inv, TypeOK
  <2>2. \A i \in Dev, h \in Handle :
          conn'[i][h] = IF i = From /\ h = On THEN [conn[i][h] EXCEPT !.ltk = Arg]
                        ELSE conn[i][h]
    BY <1>1, <1>3 DEF Inv, TypeOK
  <2>3. ASSUME NEW r \in ConnType
        PROVE  /\ [r EXCEPT !.ltk = Arg].peer = r.peer
               /\ [r EXCEPT !.ltk = Arg].interval = r.interval
               /\ [r EXCEPT !.ltk = Arg].tx = r.tx
               /\ [r EXCEPT !.ltk = Arg].rx = r.rx
               /\ [r EXCEPT !.ltk = Arg].encrypted = r.encrypted
    BY DEF ConnType
  <2>4. conn[From][On].peer # None
    BY <1>1, <1>3 DEF PeerOf
  <2>5. \A i \in Dev, h \in Handle :
          /\ conn'[i][h].peer = conn[i][h].peer
          /\ conn'[i][h].interval = conn[i][h].interval
          /\ conn'[i][h].tx = conn[i][h].tx
          /\ conn'[i][h].rx = conn[i][h].rx
          /\ conn'[i][h].encrypted = conn[i][h].encrypted
          /\ conn[i][h].peer = None => conn'[i][h] = conn[i][h]
    BY <2>1, <2>2, <2>3, <2>4
  <2>6. Peers' /\ HandlesFresh' /\ OnePair'
    BY <2>5, SamePeers DEF RouteLeEnableEncryption, Now
  <2>7. LinksAgree'
    <3>1. \A i \in Dev, h \in Handle : conn[i][h].peer \in Dev \cup {None}
      BY <2>1 DEF ConnType
    <3> QED BY <2>5, <3>1 DEF Inv, LinksAgree, Holds
  <2> QED BY <2>5, <2>6, <2>7 DEF Inv, PeersKept
<1> QED BY <1>2, <1>3 DEF RouteLeEnableEncryption

LEMMA ReplyFields ==
  ASSUME NEW r \in ConnType, NEW k, NEW e
  PROVE  /\ [r EXCEPT !.ltk = k, !.encrypted = e].peer = r.peer
         /\ [r EXCEPT !.ltk = k, !.encrypted = e].interval = r.interval
         /\ [r EXCEPT !.ltk = k, !.encrypted = e].tx = r.tx
         /\ [r EXCEPT !.ltk = k, !.encrypted = e].rx = r.rx
         /\ [r EXCEPT !.ltk = k, !.encrypted = e].encrypted = e
BY DEF ConnType

\* Equal keys encrypt the link at both ends.
LEMMA LtkReplyInv ==
  ASSUME Inv, TypeOK', RouteLeLtkReply
  PROVE  Inv' /\ PeersKept
<1>1. From \in Dev /\ On \in Handle /\ TypeOK
  BY NowType DEF RouteLeLtkReply, Inv
<1>2. CASE UNCHANGED <<conn, encryptDue>>
  BY <1>2, InvUnchanged DEF RouteLeLtkReply, Now, links, PeersKept
<1>3. CASE Answered
  <2> DEFINE central == PeerOf(From, On)
             equal == conn[central][On].ltk = Arg
             both == {From, central}
  <2>1. central \in Dev /\ central = conn[From][On].peer /\ conn[central][On].ltk # None
    BY <1>1, <1>3 DEF Answered, PeerOf
  <2>2. conn[central][On].peer # None
    BY <2>1, <1>1 DEF Inv, Peers, NoConn
  <2>3. conn[central][On].peer = From /\ conn[From][On].peer # None
    BY <1>1, <2>1, <2>2, NoneApart DEF Inv, LinksAgree, Holds
  <2>4. \A i \in Dev, h \in Handle : conn'[i][h] = AnsweredConn(i, h) /\ conn[i][h] \in ConnType
    BY <1>3 DEF Answered, Inv, TypeOK
  <2>5. ASSUME NEW i \in Dev, NEW h \in Handle
        PROVE  /\ conn'[i][h].peer = conn[i][h].peer
               /\ conn'[i][h].interval = conn[i][h].interval
               /\ conn'[i][h].tx = conn[i][h].tx
               /\ conn'[i][h].rx = conn[i][h].rx
               /\ h # On => conn'[i][h] = conn[i][h]
    <3>1. conn'[i][h] = AnsweredConn(i, h) /\ conn[i][h] \in ConnType
      BY <2>4
    <3>2. CASE h # On
      BY <3>1, <3>2 DEF AnsweredConn
    <3>3. CASE h = On
      BY <3>1, <3>3, ReplyFields DEF AnsweredConn
    <3> QED BY <3>2, <3>3
  <2>6. ASSUME NEW i \in Dev
        PROVE  conn'[i][On].encrypted = (conn[i][On].encrypted \/ (i \in both /\ equal))
    <3>1. conn'[i][On] = AnsweredConn(i, On) /\ conn[i][On] \in ConnType
      BY <1>1, <2>4
    <3> QED BY <3>1, ReplyFields DEF AnsweredConn
  <2>7. ASSUME NEW i \in Dev, i \notin both
        PROVE  conn'[i][On] = conn[i][On]
    <3>1. conn'[i][On] = [conn[i][On] EXCEPT !.ltk = conn[i][On].ltk,
                            !.encrypted = conn[i][On].encrypted \/ FALSE]
      BY <1>1, <2>4, <2>7 DEF AnsweredConn
    <3>2. conn[i][On] \in ConnType
      BY <1>1, <2>4
    <3> QED BY <3>1, <3>2 DEF ConnType
  <2> HIDE DEF equal, central
  <2>8. \A i \in Dev, h \in Handle : conn[i][h].peer = None => conn'[i][h] = conn[i][h]
    BY <2>2, <2>3, <2>5, <2>7
  <2>9. Peers' /\ HandlesFresh' /\ OnePair'
    BY <2>5, <2>8, SamePeers DEF RouteLeLtkReply, Now
  <2>10. LinksAgree'
    <3> SUFFICES ASSUME NEW a \in Dev, NEW h \in Handle, NEW b, b = conn'[a][h].peer,
                        b # None, conn'[b][h].peer # None
                 PROVE  /\ conn'[b][h].peer = a
                        /\ conn'[b][h].interval = conn'[a][h].interval
                        /\ conn'[b][h].tx = conn'[a][h].rx
                        /\ conn'[b][h].encrypted = conn'[a][h].encrypted
      BY DEF LinksAgree, Holds
    <3>1. b = conn[a][h].peer /\ b \in Dev
      BY <2>4, <2>5 DEF ConnType
    <3>2. /\ conn[b][h].peer = a
          /\ conn[b][h].interval = conn[a][h].interval
          /\ conn[b][h].tx = conn[a][h].rx
          /\ conn[b][h].encrypted = conn[a][h].encrypted
      BY <2>5, <3>1 DEF Inv, LinksAgree, Holds
    <3>3. conn'[b][h].encrypted = conn'[a][h].encrypted
      <4>1. CASE h # On
        BY <2>5, <3>1, <3>2, <4>1
      <4>2. CASE h = On
        <5>1. a \in both <=> b \in both
          BY <2>1, <2>3, <3>1, <3>2, <4>2
        <5>2. /\ conn'[a][On].encrypted = (conn[a][On].encrypted \/ (a \in both /\ equal))
              /\ conn'[b][On].encrypted = (conn[b][On].encrypted \/ (b \in both /\ equal))
          BY <2>6, <3>1
        <5> HIDE DEF both
        <5> QED BY <3>2, <4>2, <5>1, <5>2
      <4> QED BY <4>1, <4>2
    <3> QED BY <2>5, <3>1, <3>2, <3>3
  <2> QED BY <2>5, <2>9, <2>10 DEF Inv, PeersKept
<1> QED BY <1>1, <1>2, <1>3, LtkReplyEffect

\* A Disconnect takes the link at both ends, and nothing else.
LEMMA DisconnectInv ==
  ASSUME Inv, TypeOK', RouteDisconnect
  PROVE  Inv'
<1> DEFINE ends == {From, PeerOf(From, On)}
<1>1. From \in Dev /\ On \in Handle
  BY NowType DEF RouteDisconnect, Inv
<1>2. CASE None \in ends
  BY <1>2, InvUnchanged DEF RouteDisconnect, Now, links
<1>3. CASE None \notin ends
  <2>1. \A i \in Dev, h \in Handle :
          conn'[i][h] = IF i \in ends /\ h = On THEN NoConn ELSE conn[i][h]
    <3>1. conn' = [i \in Dev |-> IF i \in ends THEN [conn[i] EXCEPT ![On] = NoConn]
                                 ELSE conn[i]]
      BY <1>3 DEF RouteDisconnect
    <3> HIDE DEF ends
    <3> QED BY <1>1, <3>1 DEF Inv, TypeOK
  <2>2. NoConn.peer = None /\ UNCHANGED <<nextHandle, pending>>
    BY DEF NoConn, RouteDisconnect, Now
  <2>3. ASSUME NEW a \in Dev, NEW b \in Dev, conn[a][On].peer = b, conn[b][On].peer # None
        PROVE  a \in ends <=> b \in ends
    <3>1. conn[b][On].peer = a
      BY <1>1, <2>3, NoneApart DEF Inv, LinksAgree, Holds
    <3>2. PeerOf(From, On) = conn[From][On].peer /\ conn[From][On].peer # None
      BY <1>1, <1>3 DEF PeerOf
    <3>3. ASSUME NEW c \in Dev, c = conn[From][On].peer, conn[c][On].peer # None
          PROVE  conn[c][On].peer = From
      BY <1>1, <3>3, NoneApart DEF Inv, LinksAgree, Holds
    <3>4. conn[a][On].peer # None
      BY <2>3, NoneApart
    <3> QED BY <1>1, <2>3, <3>1, <3>2, <3>3, <3>4
  <2> HIDE DEF ends
  <2>4. Peers'
    BY <2>1, <2>2, NoneApart DEF Inv, Peers
  <2>5. HandlesFresh'
    BY <2>1, <2>2 DEF Inv, HandlesFresh
  <2>6. OnePair'
    BY <2>1, <2>2 DEF Inv, OnePair, Holds
  <2>7. LinksAgree'
    <3> SUFFICES ASSUME NEW a \in Dev, NEW h \in Handle, NEW b, b = conn'[a][h].peer,
                        b # None, conn'[b][h].peer # None
                 PROVE  /\ conn'[b][h].peer = a
                        /\ conn'[b][h].interval = conn'[a][h].interval
                        /\ conn'[b][h].tx = conn'[a][h].rx
                        /\ conn'[b][h].encrypted = conn'[a][h].encrypted
      BY DEF LinksAgree, Holds
    <3>1. ~(a \in ends /\ h = On) /\ conn'[a][h] = conn[a][h] /\ b = conn[a][h].peer
      BY <2>1, <2>2
    <3>2. b \in Dev
      BY <3>1 DEF Inv, TypeOK, ConnType
    <3>3. conn'[b][h] = conn[b][h]
      BY <2>1, <2>2, <3>2
    <3> QED BY <3>1, <3>2, <3>3 DEF Inv, LinksAgree, Holds
  <2> QED BY <2>4, <2>5, <2>6, <2>7 DEF Inv
<1> QED BY <1>2, <1>3

\* Asking to connect, and taking it back, leave links alone.
LEMMA PendingInv ==
  ASSUME Inv, TypeOK', NEW i \in Dev,
         \/ \E target \in Dev : LeCreateConnection(i, target)
         \/ LeCreateConnectionCancel(i)
  PROVE  Inv'
<1>1. UNCHANGED <<conn, nextHandle>>
  BY DEF LeCreateConnection, LeCreateConnectionCancel
<1>2. \A j \in Dev : pending'[j] # j
  BY NoneApart DEF Inv, TypeOK, Peers, LeCreateConnection, LeCreateConnectionCancel
<1> QED BY <1>1, <1>2 DEF Inv, Peers, HandlesFresh, OnePair, LinksAgree, Holds

LEMMA InvNext == Inv /\ [Next]_vars => Inv'
<1> SUFFICES ASSUME Inv, [Next]_vars
             PROVE  Inv'
  OBVIOUS
<1>1. TypeOK'
  <2>1. TypeOK /\ UNCHANGED vars => TypeOK'
    BY DEF TypeOK, vars, hosts
  <2> QED BY <2>1, TypeCommand, TypeTick DEF Next, Inv
<1>2. CASE HostCommand
  <2>1. \/ \E i \in Dev : \E target \in Dev : LeCreateConnection(i, target)
        \/ \E i \in Dev : LeCreateConnectionCancel(i)
        \/ \E i \in Dev : Reset(i)
        \/ UNCHANGED links
    <3> PICK i \in Dev :
          \/ LeSetAdvEnable(i)
          \/ \E target \in Dev : LeCreateConnection(i, target)
          \/ LeCreateConnectionCancel(i)
          \/ \E h \in Handle :
               \/ \E interval \in Interval : LeConnectionUpdate(i, h, interval)
               \/ \E p \in PhyPrefs : LeSetPhy(i, h, p[1], p[2])
               \/ \E key \in Keys : LeEnableEncryption(i, h, key)
               \/ \E key \in Keys \cup {None} : LeLtkReply(i, h, key)
               \/ \E c \in CisHandles : LeCreateCis(i, h, c)
               \/ SendAcl(i, h)
               \/ Disconnect(i, h)
          \/ \E c \in CisHandles : LeAcceptCisRequest(i, c)
          \/ Reset(i)
      BY <1>2 DEF HostCommand
    <3>1. \A op, handle, arg : Defer(i, op, handle, arg) => UNCHANGED links
      BY DEF Defer, links
    <3>2. LeSetAdvEnable(i) => UNCHANGED links
      BY DEF LeSetAdvEnable, links
    <3> QED BY <3>1, <3>2 DEF LeConnectionUpdate, LeSetPhy, LeEnableEncryption, LeLtkReply,
           LeCreateCis, SendAcl, Disconnect, LeAcceptCisRequest
  <2> QED BY <1>1, <2>1, PendingInv, ResetInv, InvUnchanged
<1>3. CASE Tick
  <2>1. DrainDone \/ RouteCisRequest \/ RouteCisAccept \/ RouteAcl \/ RouteDone => UNCHANGED links
    BY DEF DrainDone, RouteCisRequest, RouteCisAccept, RouteAcl, RouteDone, Now, links
  <2> QED BY <1>1, <1>3, <2>1, InvUnchanged, ConnectInv, UpdateInv, PhyInv, EncryptInv,
         LtkReplyInv, DisconnectInv DEF Tick
<1>4. CASE UNCHANGED vars
  BY <1>1, <1>4, InvUnchanged DEF vars, links
<1> QED BY <1>2, <1>3, <1>4 DEF Next

LEMMA InvInit == Init => Inv
<1> SUFFICES ASSUME Init
             PROVE  Inv
  OBVIOUS
<1>1. TypeOK
  BY TypeInit
<1>2. \A i \in Dev, h \in Handle : conn[i][h] = NoConn /\ conn[i][h].peer = None
  BY DEF Init, NoConn
<1>3. \A i \in Dev : pending[i] = None
  BY DEF Init
<1> QED BY <1>1, <1>2, <1>3, NoneApart DEF Inv, Peers, HandlesFresh, OnePair, LinksAgree, Holds

LEMMA InvCorrect == Spec => []Inv
BY InvInit, InvNext, PTL DEF Spec

\* Two controllers that hold a link agree on who its ends are, on its interval, its
\* PHYs and its encryption, for any number of controllers and in whatever order
\* updates, replies, Disconnects and Resets from both ends are routed.
THEOREM LinkTheorem == Spec => []LinksAgree
<1>1. Inv => LinksAgree
  BY DEF Inv
<1> QED BY <1>1, InvCorrect, PTL

--------------------------------------------------------------------------------
(***************************************************************************)
(* Streams ride links.  No controller is Reset in this part: a Reset end   *)
(* forgets a link that the other end keeps.                                *)
(***************************************************************************)

\* What deferring an Action does to the queue.
LEMMA Deferred ==
  ASSUME TypeOK, NEW i, NEW op, NEW handle, NEW arg, Defer(i, op, handle, arg)
  PROVE  /\ DOMAIN actions = 1 .. Len(actions) /\ Len(actions) \in Nat
         /\ DOMAIN actions' = 1 .. Len(actions) + 1
         /\ \A n \in 1 .. Len(actions) : actions'[n] = actions[n]
         /\ actions'[Len(actions) + 1] =
              [op |-> op, from |-> i, handle |-> handle, arg |-> arg]
<1> DEFINE a == [op |-> op, from |-> i, handle |-> handle, arg |-> arg]
<1>1. actions \in Seq(Action) /\ actions' = Append(actions, a)
  BY DEF TypeOK, Defer
<1> HIDE DEF a
<1>2. /\ DOMAIN actions = 1 .. Len(actions) /\ Len(actions) \in Nat
      /\ DOMAIN actions' = 1 .. Len(actions) + 1
      /\ \A n \in 1 .. Len(actions) : actions'[n] = actions[n]
      /\ actions'[Len(actions) + 1] = a
  BY <1>1
<1> QED BY <1>2 DEF a

\* What routing one does.
LEMMA Routed ==
  ASSUME TypeOK, NEW op, Now(op)
  PROVE  /\ 1 \in DOMAIN actions /\ actions[1].op = op
         /\ From = actions[1].from /\ On = actions[1].handle /\ Arg = actions[1].arg
         /\ DOMAIN actions = 1 .. Len(actions) /\ Len(actions) \in Nat
         /\ DOMAIN actions' = 1 .. Len(actions) - 1
         /\ \A n \in DOMAIN actions' : actions'[n] = actions[n + 1]
<1>1. actions \in Seq(Action) /\ actions # <<>> /\ actions' = Tail(actions) /\ Head(actions).op = op
  BY DEF TypeOK, Now
<1>2. Head(actions) = actions[1] /\ 1 \in DOMAIN actions
  BY <1>1
<1>3. /\ DOMAIN actions = 1 .. Len(actions) /\ Len(actions) \in Nat
      /\ DOMAIN actions' = 1 .. Len(actions) - 1
      /\ \A n \in DOMAIN actions' : actions'[n] = actions[n + 1]
  BY <1>1
<1> QED BY <1>1, <1>2, <1>3 DEF From, On, Arg

LEMMA StreamIs ==
  ASSUME NEW s \in Seq(StreamType), NEW k \in DOMAIN s
  PROVE  s[k] \in StreamType /\ s[k].acl \in Handle /\ s[k].cis \in CisHandles
<1>1. s[k] \in StreamType
  OBVIOUS
<1> QED BY <1>1 DEF StreamType

\* One more stream at one controller.
LEMMA StreamAdded ==
  ASSUME TypeOK, NEW i \in Dev, NEW x, cis' = [cis EXCEPT ![i] = Append(@, x)]
  PROVE  /\ \A j \in Dev : j # i => cis'[j] = cis[j]
         /\ DOMAIN cis[i] = 1 .. Len(cis[i]) /\ Len(cis[i]) \in Nat
         /\ DOMAIN cis'[i] = 1 .. Len(cis[i]) + 1
         /\ \A k \in 1 .. Len(cis[i]) : cis'[i][k] = cis[i][k]
         /\ cis'[i][Len(cis[i]) + 1] = x
<1>1. cis[i] \in Seq(StreamType) /\ cis'[i] = Append(cis[i], x)
  BY DEF TypeOK
<1>2. \A j \in Dev : j # i => cis'[j] = cis[j]
  BY DEF TypeOK
<1> QED BY <1>1, <1>2

\* What an acceptance does to the streams: it marks the first of its handle, where
\* it marks any.
LEMMA Accepted ==
  ASSUME TypeOK, RouteCisAccept, NEW i \in Dev
  PROVE  /\ DOMAIN cis'[i] = DOMAIN cis[i]
         /\ \A k \in DOMAIN cis[i] :
              /\ cis'[i][k].cis = cis[i][k].cis
              /\ cis'[i][k].acl = cis[i][k].acl
              /\ \/ cis'[i][k] = cis[i][k]
                 \/ /\ cis'[i][k] = [cis[i][k] EXCEPT !.established = TRUE]
                    /\ cis[i][k].cis = Arg
<1>1. CASE cis'[i] = cis[i]
  BY <1>1
<1>2. CASE cis'[i] # cis[i]
  <2> DEFINE f == First(i, Arg)
             e == [cis[i][f] EXCEPT !.established = TRUE]
  <2>1. Known(i, Arg) /\ cis'[i] = [cis[i] EXCEPT ![f].established = TRUE]
    BY <1>2 DEF RouteCisAccept
  <2>2. f \in DOMAIN cis[i] /\ cis[i][f].cis = Arg
    BY <2>1, FirstIs
  <2> HIDE DEF f
  <2>3. cis[i][f] \in StreamType
    BY <2>2 DEF TypeOK
  <2>4. e.cis = cis[i][f].cis /\ e.acl = cis[i][f].acl
    BY <2>3 DEF StreamType
  <2>5. cis'[i] = [cis[i] EXCEPT ![f] = e]
    BY <2>1
  <2>6. \A k \in DOMAIN cis[i] : cis'[i][k] = IF k = f THEN e ELSE cis[i][k]
    <3> HIDE DEF e
    <3> QED BY <2>2, <2>5
  <2> QED BY <2>2, <2>4, <2>5, <2>6
<1> QED BY <1>1, <1>2

\* Steps that keep the links that are held, at both ends, and the streams.
LEMMA RideKept ==
  ASSUME RideInv, Inv', PeersKept,
         \A i \in Dev : \A k \in DOMAIN cis'[i] :
           \/ \E m \in DOMAIN cis[i] : cis[i][m].acl = cis'[i][k].acl
           \/ cis'[i][k].acl \in Handle /\ Holds(i, cis'[i][k].acl)
  PROVE  RideInv'
<1>1. \A i \in Dev, h \in Handle : conn[i][h].peer \in Dev \cup {None}
  BY DEF RideInv, Inv, TypeOK, ConnType
<1>2. HeldByBoth'
  BY <1>1 DEF RideInv, HeldByBoth, Holds, PeersKept
<1>3. CisRidesAcl'
  <2> SUFFICES ASSUME NEW i \in Dev, NEW k \in DOMAIN cis'[i]
               PROVE  conn'[i][cis'[i][k].acl].peer # None
    BY DEF CisRidesAcl, Holds
  <2> DEFINE h == cis'[i][k].acl
  <2>1. h \in Handle
    <3>1. cis'[i] \in Seq(StreamType)
      BY DEF Inv, TypeOK
    <3> QED BY <3>1, StreamIs
  <2>2. conn[i][h].peer # None
    BY DEF RideInv, CisRidesAcl, Holds
  <2> QED BY <2>1, <2>2 DEF PeersKept
<1> QED BY <1>2, <1>3 DEF RideInv

LEMMA RideConnect ==
  ASSUME RideInv, Inv', TickPendingConnect
  PROVE  /\ RideInv'
         /\ \A i \in Dev, h \in Handle : Holds(i, h) => conn'[i][h].peer = conn[i][h].peer
<1>1. CASE ~Connectable(turn)
  <2>1. UNCHANGED <<conn, cis>>
    BY <1>1 DEF TickPendingConnect
  <2>2. PeersKept
    BY <2>1 DEF PeersKept
  <2> QED BY <2>1, <2>2, RideKept DEF PeersKept
<1>2. CASE Connectable(turn)
  <2> DEFINE i == turn
             j == pending[turn]
             n == nextHandle
             ci == [NoConn EXCEPT !.peer = j]
             cj == [NoConn EXCEPT !.peer = i]
  <2>1. i \in Dev /\ j \in Dev /\ n \in Handle /\ i # j /\ n \in Nat
    BY <1>2, SizeAssumption DEF RideInv, Inv, TypeOK, Peers, Connectable, Handle
  <2>2. conn' = [conn EXCEPT ![i][n] = ci, ![j][n] = cj] /\ UNCHANGED cis
    BY <1>2 DEF TickPendingConnect, Establish
  <2>3. ci.peer = j /\ cj.peer = i
    BY DEF NoConn
  <2>4. conn \in [Dev -> [Handle -> ConnType]]
    BY DEF RideInv, Inv, TypeOK
  <2>5. \A k \in Dev : conn[k][n].peer = None
    BY <2>1 DEF RideInv, Inv, HandlesFresh
  <2> HIDE DEF i, j, n, ci, cj
  <2>6. \A k \in Dev, h \in Handle :
          conn'[k][h] = IF h = n /\ k = i THEN ci ELSE IF h = n /\ k = j THEN cj
                        ELSE conn[k][h]
    BY <2>1, <2>2, <2>4
  <2>7. \A k \in Dev, h \in Handle : conn[k][h].peer # None => conn'[k][h].peer = conn[k][h].peer
    BY <2>5, <2>6
  <2>8. \A k \in Dev, h \in Handle : conn[k][h].peer \in Dev \cup {None}
    BY <2>4 DEF ConnType
  <2>9. HeldByBoth'
    <3> SUFFICES ASSUME NEW k \in Dev, NEW h \in Handle, conn'[k][h].peer # None
                 PROVE  conn'[conn'[k][h].peer][h].peer # None
      BY DEF HeldByBoth, Holds
    <3>1. CASE conn[k][h].peer # None
      <4>1. conn'[k][h].peer = conn[k][h].peer /\ conn[k][h].peer \in Dev
        BY <2>7, <2>8, <3>1
      <4>2. conn[conn[k][h].peer][h].peer # None
        BY <3>1 DEF RideInv, HeldByBoth, Holds
      <4> QED BY <2>7, <4>1, <4>2
    <3>2. CASE conn[k][h].peer = None
      <4>1. h = n /\ (k = i \/ k = j)
        BY <2>6, <3>2
      <4> QED BY <2>1, <2>3, <2>6, <4>1, NoneApart
    <3> QED BY <3>1, <3>2
  <2>10. CisRidesAcl'
    <3> SUFFICES ASSUME NEW k \in Dev, NEW m \in DOMAIN cis[k]
                 PROVE  conn'[k][cis[k][m].acl].peer # None
      BY <2>2 DEF CisRidesAcl, Holds
    <3>1. cis[k][m].acl \in Handle
      <4>1. cis[k] \in Seq(StreamType)
        BY DEF RideInv, Inv, TypeOK
      <4> QED BY <4>1, StreamIs
    <3> QED BY <2>7, <3>1 DEF RideInv, CisRidesAcl, Holds
  <2> QED BY <2>7, <2>9, <2>10 DEF RideInv, Holds
<1> QED BY <1>1, <1>2

\* A Disconnect takes the link from everyone, and every stream that rides it.
LEMMA Disconnected ==
  ASSUME RideInv, RouteDisconnect
  PROVE  \/ UNCHANGED <<conn, cis>>
         \/ /\ On \in Handle
            /\ \A i \in Dev, h \in Handle :
                 conn'[i][h].peer = IF h = On THEN None ELSE conn[i][h].peer
            /\ \A i \in Dev :
                 /\ \A k \in DOMAIN cis'[i] : \E m \in DOMAIN cis[i] :
                      cis[i][m].acl # On /\ cis'[i][k] = cis[i][m]
                 /\ \A m \in DOMAIN cis[i] :
                      cis[i][m].acl # On => \E k \in DOMAIN cis'[i] : cis'[i][k] = cis[i][m]
                 /\ \A k, m \in DOMAIN cis'[i] : k # m =>
                      \E a, b \in DOMAIN cis[i] :
                        a # b /\ cis'[i][k] = cis[i][a] /\ cis'[i][m] = cis[i][b]
<1> DEFINE ends == {From, PeerOf(From, On)}
<1>1. From \in Dev /\ On \in Handle /\ TypeOK
  BY NowType DEF RouteDisconnect, RideInv, Inv
<1>2. CASE None \in ends
  BY <1>2 DEF RouteDisconnect
<1>3. CASE None \notin ends
  <2>1. /\ conn' = [i \in Dev |-> IF i \in ends THEN [conn[i] EXCEPT ![On] = NoConn]
                                  ELSE conn[i]]
        /\ cis' = [i \in Dev |-> IF i \in ends THEN StreamsLeft(i, On) ELSE cis[i]]
    BY <1>3 DEF RouteDisconnect
  <2>2. \A i \in Dev : i \notin ends => conn[i][On].peer = None
    <3>1. PeerOf(From, On) = conn[From][On].peer /\ conn[From][On].peer # None
      BY <1>1, <1>3 DEF PeerOf
    <3> QED BY <1>1, <3>1 DEF RideInv, Inv, OnePair, Holds
  <2>3. NoConn.peer = None /\ conn \in [Dev -> [Handle -> ConnType]]
    BY DEF NoConn, RideInv, Inv, TypeOK
  <2> HIDE DEF ends
  <2>4. \A i \in Dev, h \in Handle :
          conn'[i][h].peer = IF h = On THEN None ELSE conn[i][h].peer
    BY <1>1, <2>1, <2>2, <2>3
  <2>5. ASSUME NEW i \in Dev, i \notin ends
        PROVE  cis'[i] = cis[i] /\ \A k \in DOMAIN cis[i] : cis[i][k].acl # On
    BY <2>1, <2>2, <2>5 DEF RideInv, CisRidesAcl, Holds
  <2>6. ASSUME NEW i \in Dev
        PROVE  /\ \A k \in DOMAIN cis'[i] : \E m \in DOMAIN cis[i] :
                    cis[i][m].acl # On /\ cis'[i][k] = cis[i][m]
               /\ \A m \in DOMAIN cis[i] :
                    cis[i][m].acl # On => \E k \in DOMAIN cis'[i] : cis'[i][k] = cis[i][m]
               /\ \A k, m \in DOMAIN cis'[i] : k # m =>
                    \E a, b \in DOMAIN cis[i] :
                      a # b /\ cis'[i][k] = cis[i][a] /\ cis'[i][m] = cis[i][b]
    <3>1. CASE i \in ends
      <4>1. cis'[i] = StreamsLeft(i, On)
        BY <2>1, <3>1
      <4> QED BY <1>1, <4>1, StreamsLeftAre
    <3>2. CASE i \notin ends
      BY <2>5, <3>2
    <3> QED BY <3>1, <3>2
  <2> QED BY <1>1, <2>4, <2>6
<1> QED BY <1>2, <1>3

LEMMA RideDisconnect ==
  ASSUME RideInv, Inv', RouteDisconnect
  PROVE  RideInv'
<1>1. CASE UNCHANGED <<conn, cis>>
  <2>1. PeersKept
    BY <1>1 DEF PeersKept
  <2> QED BY <1>1, <2>1, RideKept
<1>2. CASE /\ On \in Handle
           /\ \A i \in Dev, h \in Handle :
                conn'[i][h].peer = IF h = On THEN None ELSE conn[i][h].peer
           /\ \A i \in Dev : \A k \in DOMAIN cis'[i] : \E m \in DOMAIN cis[i] :
                cis[i][m].acl # On /\ cis'[i][k] = cis[i][m]
  <2>1. \A i \in Dev, h \in Handle : conn[i][h].peer \in Dev \cup {None}
    BY DEF RideInv, Inv, TypeOK, ConnType
  <2>2. HeldByBoth'
    BY <1>2, <2>1 DEF RideInv, HeldByBoth, Holds
  <2>3. CisRidesAcl'
    <3> SUFFICES ASSUME NEW i \in Dev, NEW k \in DOMAIN cis'[i]
                 PROVE  conn'[i][cis'[i][k].acl].peer # None
      BY DEF CisRidesAcl, Holds
    <3>1. PICK m \in DOMAIN cis[i] : cis[i][m].acl # On /\ cis'[i][k] = cis[i][m]
      BY <1>2
    <3>2. cis[i] \in Seq(StreamType)
      BY DEF RideInv, Inv, TypeOK
    <3>3. cis[i][m].acl \in Handle
      BY <3>2, StreamIs
    <3> QED BY <1>2, <3>1, <3>3 DEF RideInv, CisRidesAcl, Holds
  <2> QED BY <2>2, <2>3 DEF RideInv
<1> QED BY <1>1, <1>2, Disconnected

\* A CIS Request is routed along a link that is held at both ends: the new stream is
\* at the other one.
LEMMA RequestRouted ==
  ASSUME RideInv, RouteCisRequest
  PROVE  \/ /\ PeerOf(From, On) = None
            /\ ~Holds(From, On)
            /\ UNCHANGED cis
         \/ \E p \in Dev :
              /\ Holds(From, On) /\ Holds(p, On)
              /\ conn[From][On].peer = p /\ conn[p][On].peer = From /\ p # From
              /\ cis' = [cis EXCEPT ![p] = Append(@, Stream(Arg, On))]
<1> DEFINE p == PeerOf(From, On)
<1>1. From \in Dev /\ On \in Handle
  BY NowType DEF RouteCisRequest, RideInv, Inv
<1>2. p = conn[From][On].peer /\ p \in Dev \cup {None}
  BY <1>1, PeerType DEF RideInv, Inv, PeerOf
<1>3. CASE p = None
  BY <1>2, <1>3 DEF RouteCisRequest, Holds
<1>4. CASE p # None
  <2>1. p \in Dev /\ Holds(From, On) /\ Holds(p, On)
    BY <1>1, <1>2, <1>4 DEF RideInv, HeldByBoth, Holds
  <2>2. conn[p][On].peer = From /\ p # From
    BY <1>1, <1>2, <1>4, <2>1, Ends DEF RideInv
  <2>3. cis' = [cis EXCEPT ![p] = Append(@, Stream(Arg, On))]
    BY <1>4 DEF RouteCisRequest
  <2> HIDE DEF p
  <2> QED BY <1>2, <2>1, <2>2, <2>3
<1> QED BY <1>3, <1>4

\* The commands that leave everyone's peers alone and record no stream.
PlainCommand(i) ==
  \/ LeSetAdvEnable(i)
  \/ \E target \in Dev : LeCreateConnection(i, target)
  \/ LeCreateConnectionCancel(i)
  \/ \E h \in Handle :
       \/ \E interval \in Interval : LeConnectionUpdate(i, h, interval)
       \/ \E p \in PhyPrefs : LeSetPhy(i, h, p[1], p[2])
       \/ \E key \in Keys : LeEnableEncryption(i, h, key)
       \/ \E key \in Keys \cup {None} : LeLtkReply(i, h, key)
       \/ SendAcl(i, h)
       \/ Disconnect(i, h)
  \/ \E c \in CisHandles : LeAcceptCisRequest(i, c)

\* The steps that do.
RidesOn ==
  \/ \E i \in Dev : PlainCommand(i)
  \/ DrainDone \/ RouteDone \/ RouteAcl
  \/ RouteConnectionUpdate \/ RoutePhyUpdate \/ RouteLeEnableEncryption \/ RouteLeLtkReply
  \/ UNCHANGED vars

LEMMA RidesOnKeeps ==
  ASSUME Inv, TypeOK', RidesOn
  PROVE  PeersKept /\ UNCHANGED cis
<1>1. ASSUME UNCHANGED conn PROVE PeersKept
  BY <1>1 DEF PeersKept
<1>2. ASSUME NEW i \in Dev, PlainCommand(i)
      PROVE  UNCHANGED <<conn, cis>>
  <2>1. \A op, handle, arg : Defer(i, op, handle, arg) => UNCHANGED conn
    BY DEF Defer
  <2>2. LeSetAdvEnable(i) \/ LeCreateConnectionCancel(i) => UNCHANGED <<conn, cis>>
    BY DEF LeSetAdvEnable, LeCreateConnectionCancel
  <2>3. \A target \in Dev : LeCreateConnection(i, target) => UNCHANGED <<conn, cis>>
    BY DEF LeCreateConnection
  <2> QED BY <1>2, <2>1, <2>2, <2>3 DEF PlainCommand, LeConnectionUpdate, LeSetPhy,
         LeEnableEncryption, LeLtkReply, SendAcl, Disconnect, LeAcceptCisRequest
<1>3. CASE DrainDone \/ RouteDone \/ RouteAcl \/ UNCHANGED vars
  <2>1. UNCHANGED <<conn, cis>>
    BY <1>3 DEF DrainDone, RouteDone, RouteAcl, vars
  <2> QED BY <1>1, <2>1
<1>4. CASE RouteConnectionUpdate \/ RoutePhyUpdate \/ RouteLeEnableEncryption \/ RouteLeLtkReply
  <2>1. PeersKept
    BY <1>4, UpdateInv, PhyInv, EncryptInv, LtkReplyInv
  <2>2. UNCHANGED cis
    BY <1>4 DEF RouteConnectionUpdate, RoutePhyUpdate, RouteLeEnableEncryption, RouteLeLtkReply
  <2> QED BY <2>1, <2>2
<1> QED BY <1>1, <1>2, <1>3, <1>4 DEF RidesOn

\* What a step is, as far as streams are concerned.
LEMMA StreamSteps ==
  ASSUME "reset" \notin Ops, [Next]_vars
  PROVE  \/ RidesOn
         \/ \E i \in Dev, h \in Handle, c \in CisHandles : LeCreateCis(i, h, c)
         \/ TickPendingConnect
         \/ RouteCisRequest
         \/ RouteCisAccept
         \/ RouteDisconnect
<1>1. \A i \in Dev : ~Reset(i)
  BY DEF Reset, Draining
<1>2. CASE HostCommand
  <2> PICK i \in Dev :
        \/ LeSetAdvEnable(i)
        \/ \E target \in Dev : LeCreateConnection(i, target)
        \/ LeCreateConnectionCancel(i)
        \/ \E h \in Handle :
             \/ \E interval \in Interval : LeConnectionUpdate(i, h, interval)
             \/ \E p \in PhyPrefs : LeSetPhy(i, h, p[1], p[2])
             \/ \E key \in Keys : LeEnableEncryption(i, h, key)
             \/ \E key \in Keys \cup {None} : LeLtkReply(i, h, key)
             \/ \E c \in CisHandles : LeCreateCis(i, h, c)
             \/ SendAcl(i, h)
             \/ Disconnect(i, h)
        \/ \E c \in CisHandles : LeAcceptCisRequest(i, c)
        \/ Reset(i)
    BY <1>2 DEF HostCommand
  <2> QED BY <1>1 DEF RidesOn, PlainCommand
<1>3. CASE Tick
  BY <1>3 DEF Tick, RidesOn
<1>4. CASE UNCHANGED vars
  BY <1>4 DEF RidesOn
<1> QED BY <1>2, <1>3, <1>4 DEF Next

LEMMA RideNext ==
  ASSUME "reset" \notin Ops, RideInv, [Next]_vars
  PROVE  RideInv'
<1>1. Inv' /\ TypeOK'
  BY InvNext DEF RideInv, Inv
<1>2. CASE RidesOn
  <2>1. PeersKept /\ UNCHANGED cis
    BY <1>1, <1>2, RidesOnKeeps DEF RideInv
  <2> QED BY <1>1, <2>1, RideKept
<1>3. CASE \E i \in Dev, h \in Handle, c \in CisHandles : LeCreateCis(i, h, c)
  <2> PICK i \in Dev, h \in Handle, c \in CisHandles : LeCreateCis(i, h, c)
    BY <1>3
  <2>1. PeersKept
    BY DEF LeCreateCis, Defer, PeersKept
  <2>2. /\ \A j \in Dev : j # i => cis'[j] = cis[j]
        /\ DOMAIN cis[i] = 1 .. Len(cis[i]) /\ Len(cis[i]) \in Nat
        /\ DOMAIN cis'[i] = 1 .. Len(cis[i]) + 1
        /\ \A k \in 1 .. Len(cis[i]) : cis'[i][k] = cis[i][k]
        /\ cis'[i][Len(cis[i]) + 1] = Stream(c, h)
    BY StreamAdded DEF LeCreateCis, RideInv, Inv
  <2>3. Stream(c, h).acl = h /\ Holds(i, h)
    BY DEF Stream, LeCreateCis
  <2>4. \A j \in Dev : \A k \in DOMAIN cis'[j] :
          \/ \E m \in DOMAIN cis[j] : cis[j][m].acl = cis'[j][k].acl
          \/ cis'[j][k].acl \in Handle /\ Holds(j, cis'[j][k].acl)
    BY <2>2, <2>3
  <2> QED BY <1>1, <2>1, <2>4, RideKept
<1>4. CASE TickPendingConnect
  BY <1>1, <1>4, RideConnect
<1>5. CASE RouteCisRequest
  <2>1. PeersKept /\ On \in Handle
    BY <1>5, NowType DEF RouteCisRequest, PeersKept, RideInv, Inv
  <2>2. \A j \in Dev : \A k \in DOMAIN cis'[j] :
          \/ \E m \in DOMAIN cis[j] : cis[j][m].acl = cis'[j][k].acl
          \/ cis'[j][k].acl \in Handle /\ Holds(j, cis'[j][k].acl)
    <3>1. CASE UNCHANGED cis
      BY <3>1
    <3>2. CASE \E p \in Dev : /\ Holds(p, On)
                              /\ cis' = [cis EXCEPT ![p] = Append(@, Stream(Arg, On))]
      <4> PICK p \in Dev : /\ Holds(p, On)
                           /\ cis' = [cis EXCEPT ![p] = Append(@, Stream(Arg, On))]
        BY <3>2
      <4>1. /\ \A j \in Dev : j # p => cis'[j] = cis[j]
            /\ DOMAIN cis[p] = 1 .. Len(cis[p]) /\ Len(cis[p]) \in Nat
            /\ DOMAIN cis'[p] = 1 .. Len(cis[p]) + 1
            /\ \A k \in 1 .. Len(cis[p]) : cis'[p][k] = cis[p][k]
            /\ cis'[p][Len(cis[p]) + 1] = Stream(Arg, On)
        BY StreamAdded DEF RideInv, Inv
      <4>2. Stream(Arg, On).acl = On
        BY DEF Stream
      <4> QED BY <2>1, <4>1, <4>2
    <3> QED BY <1>5, <3>1, <3>2, RequestRouted
  <2> QED BY <1>1, <2>1, <2>2, RideKept
<1>6. CASE RouteCisAccept
  <2>1. PeersKept
    BY <1>6 DEF RouteCisAccept, PeersKept
  <2>2. \A i \in Dev : DOMAIN cis'[i] = DOMAIN cis[i]
                       /\ \A k \in DOMAIN cis[i] : cis'[i][k].acl = cis[i][k].acl
    BY <1>6, Accepted DEF RideInv, Inv
  <2> QED BY <1>1, <2>1, <2>2, RideKept
<1>7. CASE RouteDisconnect
  BY <1>1, <1>7, RideDisconnect
<1> QED BY <1>2, <1>3, <1>4, <1>5, <1>6, <1>7, StreamSteps

LEMMA RideInit == Init => RideInv
<1> SUFFICES ASSUME Init
             PROVE  RideInv
  OBVIOUS
<1>1. \A i \in Dev : cis[i] = <<>> /\ \A h \in Handle : conn[i][h].peer = None
  BY DEF Init, NoConn
<1> QED BY <1>1, InvInit DEF RideInv, HeldByBoth, CisRidesAcl, Holds

\* An isochronous stream never outlives its link: while no controller is Reset, every
\* stream a controller knows rides a link it holds, whatever CIS Requests, acceptances
\* and Disconnects are queued behind one another (route_cis_request, route_disconnect).
THEOREM RideTheorem == "reset" \notin Ops /\ Spec => []CisRidesAcl
<1> SUFFICES ASSUME "reset" \notin Ops
             PROVE  Spec => []CisRidesAcl
  OBVIOUS
<1>1. RideInv /\ [Next]_vars => RideInv'
  BY RideNext
<1>2. RideInv => CisRidesAcl
  BY DEF RideInv
<1> QED BY <1>1, <1>2, RideInit, PTL DEF Spec

--------------------------------------------------------------------------------
(***************************************************************************)
(* Streams are the same at both ends.  Hosts choose handles that are not   *)
(* in use: the code finds a stream by its handle alone.                    *)
(***************************************************************************)

\* Both ends of a stream's link hold it, and are each other's peers.
LEMMA StreamPeer ==
  ASSUME RideInv, NEW i \in Dev, NEW k \in DOMAIN cis[i]
  PROVE  /\ cis[i][k] \in StreamType
         /\ cis[i][k].acl \in Handle
         /\ Holds(i, cis[i][k].acl)
         /\ OtherEnd(i, k) \in Dev
         /\ OtherEnd(i, k) # i
         /\ Holds(OtherEnd(i, k), cis[i][k].acl)
         /\ conn[OtherEnd(i, k)][cis[i][k].acl].peer = i
<1> DEFINE h == cis[i][k].acl
           j == conn[i][h].peer
<1>1. cis[i] \in Seq(StreamType)
  BY DEF RideInv, Inv, TypeOK
<1>2. cis[i][k] \in StreamType /\ h \in Handle
  BY <1>1, StreamIs
<1>3. Holds(i, h) /\ j # None
  BY DEF RideInv, CisRidesAcl, Holds
<1>4. Holds(j, h)
  BY <1>2, <1>3 DEF RideInv, HeldByBoth
<1>5. j \in Dev /\ j # i /\ conn[j][h].peer = i
  BY <1>2, <1>3, <1>4, Ends DEF RideInv
<1> QED BY <1>2, <1>3, <1>4, <1>5 DEF OtherEnd

LEMMA MirroredImplies == RideInv /\ Mirrored => CisMirrored
<1> SUFFICES ASSUME RideInv, Mirrored, NEW i \in Dev, NEW k \in DOMAIN cis[i],
                    cis[i][k].established
             PROVE  LET j == PeerOf(i, cis[i][k].acl) IN
                    j # None /\ Holds(j, cis[i][k].acl) =>
                      \E m \in DOMAIN cis[j] : cis[j][m] = cis[i][k]
  BY DEF CisMirrored
<1>1. PeerOf(i, cis[i][k].acl) = OtherEnd(i, k)
  BY StreamPeer DEF PeerOf, OtherEnd
<1> QED BY <1>1 DEF Mirrored

\* The streams a controller knows after a step.
KnownNext(i, c) == \E k \in DOMAIN cis'[i] : cis'[i][k].cis = c

\* The queue moves up by d places: of some kinds of Action there is none that was not
\* there before, and no CIS Request is lost.
QueueKept(d, ops) ==
  /\ \A n \in DOMAIN actions' :
       actions'[n].op \in ops => n + d \in DOMAIN actions /\ actions'[n] = actions[n + d]
  /\ \A n \in DOMAIN actions :
       Request(n) => n - d \in DOMAIN actions' /\ actions'[n - d] = actions[n]

\* A step that changes no stream but to establish it, no link that is held, and while
\* Actions are routed none that is not.
StreamsStay ==
  /\ \A i \in Dev :
       /\ DOMAIN cis'[i] = DOMAIN cis[i]
       /\ \A k \in DOMAIN cis[i] :
            cis'[i][k].cis = cis[i][k].cis /\ cis'[i][k].acl = cis[i][k].acl
  /\ \A i \in Dev, h \in Handle :
       phase = "route" \/ Holds(i, h) => conn'[i][h].peer = conn[i][h].peer
  /\ phase = "route" => phase' = "route" \/ actions' = <<>>

LEMMA KnownOrAskedNext ==
  ASSUME \A j \in Dev : \A k \in DOMAIN cis'[j] :
           \/ KnownNext(conn'[j][cis'[j][k].acl].peer, cis'[j][k].cis)
           \/ \E n \in DOMAIN actions' :
                /\ actions'[n].op = "cisRequest"
                /\ actions'[n].from = j
                /\ actions'[n].arg = cis'[j][k].cis
  PROVE  KnownOrAsked'
BY DEF KnownOrAsked, Request, Known, KnownNext, OtherEnd

LEMMA RequestsStay ==
  ASSUME StreamInv, RideInv', NEW d \in {0, 1}, StreamsStay, QueueKept(d, {"cisRequest"})
  PROVE  OneStream' /\ RequestsFirst' /\ RequestsApart' /\ KnownOrAsked'
<1>1. \A i \in Dev : \A c : KnownNext(i, c) <=> Known(i, c)
  BY DEF StreamsStay, Known, KnownNext
<1>2. \A i \in Dev : \A k \in DOMAIN cis[i] : OtherEnd(i, k)' = OtherEnd(i, k)
  <2> SUFFICES ASSUME NEW i \in Dev, NEW k \in DOMAIN cis[i]
               PROVE  OtherEnd(i, k)' = OtherEnd(i, k)
    OBVIOUS
  <2>1. cis[i][k].acl \in Handle /\ Holds(i, cis[i][k].acl)
    BY StreamPeer DEF StreamInv
  <2> QED BY <2>1 DEF StreamsStay, OtherEnd
<1>3. OneStream'
  BY DEF StreamInv, OneStream, StreamsStay
<1>4. DOMAIN actions \subseteq Nat /\ DOMAIN actions' \subseteq Int /\ actions \in Seq(Action)
  BY DEF StreamInv, RideInv, Inv, TypeOK, QueueKept
<1>5. RequestsApart'
  <2> SUFFICES ASSUME NEW n \in DOMAIN actions', NEW m \in DOMAIN actions',
                      actions'[n].op = "cisRequest", actions'[m].op = "cisRequest",
                      actions'[n].arg = actions'[m].arg
               PROVE  n = m
    BY DEF RequestsApart, Request
  <2>1. /\ n + d \in DOMAIN actions /\ actions'[n] = actions[n + d]
        /\ m + d \in DOMAIN actions /\ actions'[m] = actions[m + d]
    BY DEF QueueKept
  <2>2. n + d = m + d
    BY <2>1 DEF StreamInv, RequestsApart, Request
  <2> QED BY <1>4, <2>2
<1>6. RequestsFirst'
  <2> SUFFICES ASSUME NEW n \in DOMAIN actions', actions'[n].op = "cisRequest"
               PROVE  LET i == actions'[n].from
                          c == actions'[n].arg
                      IN  /\ \A j \in Dev : KnownNext(j, c) => j = i
                          /\ \A k \in DOMAIN cis'[i] :
                               cis'[i][k].cis = c => cis'[i][k].acl = actions'[n].handle
                          /\ KnownNext(i, c) \/ (phase' = "route" /\ conn'[i][actions'[n].handle].peer = None)
    BY DEF RequestsFirst, Request, Known, KnownNext, Holds
  <2>1. n + d \in DOMAIN actions /\ actions'[n] = actions[n + d]
    BY DEF QueueKept
  <2> DEFINE i == actions'[n].from
             c == actions'[n].arg
             h == actions'[n].handle
  <2>2. i \in Dev /\ h \in Handle
    <3>1. actions[n + d] \in Action
      BY <1>4, <2>1
    <3> QED BY <2>1, <3>1 DEF Action
  <2>3. /\ \A j \in Dev : Known(j, c) => j = i
        /\ \A k \in DOMAIN cis[i] : cis[i][k].cis = c => cis[i][k].acl = h
        /\ Known(i, c) \/ (phase = "route" /\ ~Holds(i, h))
    BY <2>1 DEF StreamInv, RequestsFirst, Request
  <2>4. Known(i, c) \/ (phase' = "route" /\ conn'[i][h].peer = None)
    <3>1. CASE phase = "route" /\ ~Holds(i, h)
      <4>1. phase' = "route"
        BY <3>1 DEF StreamsStay
      <4>2. conn'[i][h].peer = conn[i][h].peer
        BY <2>2, <3>1 DEF StreamsStay
      <4> QED BY <3>1, <4>1, <4>2 DEF Holds
    <3> QED BY <2>3, <3>1
  <2> HIDE DEF i, c, h
  <2>5. /\ \A j \in Dev : KnownNext(j, c) => j = i
        /\ \A k \in DOMAIN cis'[i] : cis'[i][k].cis = c => cis'[i][k].acl = h
        /\ KnownNext(i, c) \/ (phase' = "route" /\ conn'[i][h].peer = None)
    BY <1>1, <2>2, <2>3, <2>4 DEF StreamsStay
  <2> QED BY <2>5 DEF i, c, h
<1>7. KnownOrAsked'
  <2> SUFFICES ASSUME NEW i \in Dev, NEW k \in DOMAIN cis'[i]
               PROVE  \/ KnownNext(conn'[i][cis'[i][k].acl].peer, cis'[i][k].cis)
                      \/ \E n \in DOMAIN actions' :
                           /\ actions'[n].op = "cisRequest"
                           /\ actions'[n].from = i
                           /\ actions'[n].arg = cis'[i][k].cis
    BY KnownOrAskedNext
  <2>1. k \in DOMAIN cis[i] /\ cis'[i][k].cis = cis[i][k].cis
    BY DEF StreamsStay
  <2>2. conn'[i][cis'[i][k].acl].peer = OtherEnd(i, k) /\ OtherEnd(i, k) \in Dev
    BY <1>2, <2>1, StreamPeer DEF OtherEnd, StreamInv
  <2>3. CASE Known(OtherEnd(i, k), cis[i][k].cis)
    BY <1>1, <2>1, <2>2, <2>3
  <2>4. CASE \E n \in DOMAIN actions :
               Request(n) /\ actions[n].from = i /\ actions[n].arg = cis[i][k].cis
    BY <2>1, <2>4 DEF QueueKept, Request
  <2> QED BY <2>1, <2>3, <2>4 DEF StreamInv, KnownOrAsked
<1> QED BY <1>3, <1>5, <1>6, <1>7

LEMMA MirroredStays ==
  ASSUME StreamInv, StreamsStay, UNCHANGED cis
  PROVE  Mirrored'
<1>1. \A i \in Dev : \A k \in DOMAIN cis[i] : OtherEnd(i, k)' = OtherEnd(i, k)
  <2> SUFFICES ASSUME NEW i \in Dev, NEW k \in DOMAIN cis[i]
               PROVE  OtherEnd(i, k)' = OtherEnd(i, k)
    OBVIOUS
  <2>1. cis[i][k].acl \in Handle /\ Holds(i, cis[i][k].acl)
    BY StreamPeer DEF StreamInv
  <2> QED BY <2>1 DEF StreamsStay, OtherEnd
<1> QED BY <1>1 DEF StreamInv, Mirrored

LEMMA QueueStays ==
  ASSUME StreamInv, RideInv', Mirrored', NEW d \in {0, 1}, StreamsStay,
         QueueKept(d, {"cisRequest", "cisAccept"})
  PROVE  StreamInv'
<1>1. QueueKept(d, {"cisRequest"})
  BY DEF QueueKept
<1>2. DOMAIN actions \subseteq Nat /\ DOMAIN actions' \subseteq Int
  BY DEF StreamInv, RideInv, Inv, TypeOK
<1>3. AcceptsBehind'
  <2> SUFFICES ASSUME NEW n \in DOMAIN actions', actions'[n].op = "cisAccept"
               PROVE  /\ phase' # "route" => KnownNext(actions'[n].from, actions'[n].arg)
                      /\ \A m \in DOMAIN actions' :
                           /\ actions'[m].op = "cisRequest"
                           /\ actions'[m].from = actions'[n].from
                           /\ actions'[m].arg = actions'[n].arg
                           => m < n
    BY DEF AcceptsBehind, Accept, Request, Known, KnownNext
  <2>1. n + d \in DOMAIN actions /\ actions'[n] = actions[n + d]
    BY DEF QueueKept
  <2>2. /\ phase # "route" => Known(actions'[n].from, actions'[n].arg)
        /\ \A m \in DOMAIN actions :
             /\ actions[m].op = "cisRequest"
             /\ actions[m].from = actions'[n].from
             /\ actions[m].arg = actions'[n].arg
             => m < n + d
    BY <2>1 DEF StreamInv, AcceptsBehind, Accept, Request
  <2>3. phase' # "route" => KnownNext(actions'[n].from, actions'[n].arg)
    <3>1. actions[n + d] \in Action
      BY <2>1 DEF StreamInv, RideInv, Inv, TypeOK
    <3>2. actions'[n].from \in Dev
      BY <2>1, <3>1 DEF Action
    <3> QED BY <2>2, <3>2 DEF StreamsStay, Known, KnownNext
  <2>4. ASSUME NEW m \in DOMAIN actions', actions'[m].op = "cisRequest",
               actions'[m].from = actions'[n].from, actions'[m].arg = actions'[n].arg
        PROVE  m < n
    <3>1. m + d \in DOMAIN actions /\ actions'[m] = actions[m + d]
      BY <2>4 DEF QueueKept
    <3>2. m + d < n + d
      BY <2>2, <2>4, <3>1
    <3> QED BY <1>2, <3>2
  <2> QED BY <2>3, <2>4
<1> QED BY <1>1, <1>3, RequestsStay DEF StreamInv

LEMMA SameQueue ==
  ASSUME TypeOK, NEW ops, UNCHANGED actions
  PROVE  QueueKept(0, ops)
BY DEF TypeOK, QueueKept

LEMMA DeferredQueue ==
  ASSUME TypeOK, NEW ops, NEW i, NEW op, NEW handle, NEW arg, Defer(i, op, handle, arg),
         op \notin ops
  PROVE  QueueKept(0, ops)
<1>1. /\ DOMAIN actions = 1 .. Len(actions) /\ Len(actions) \in Nat
      /\ DOMAIN actions' = 1 .. Len(actions) + 1
      /\ \A n \in 1 .. Len(actions) : actions'[n] = actions[n]
      /\ actions'[Len(actions) + 1] = [op |-> op, from |-> i, handle |-> handle, arg |-> arg]
  BY Deferred
<1>2. actions'[Len(actions) + 1].op = op
  BY <1>1
<1> QED BY <1>1, <1>2 DEF QueueKept, Request

LEMMA RoutedQueue ==
  ASSUME TypeOK, NEW ops, NEW op, Now(op), op # "cisRequest"
  PROVE  QueueKept(1, ops)
<1>1. /\ actions[1].op = op
      /\ DOMAIN actions = 1 .. Len(actions) /\ Len(actions) \in Nat
      /\ DOMAIN actions' = 1 .. Len(actions) - 1
      /\ \A n \in DOMAIN actions' : actions'[n] = actions[n + 1]
  BY Routed
<1> QED BY <1>1 DEF QueueKept, Request

\* Commands about anything but streams.
LEMMA CommandQueue ==
  ASSUME TypeOK, NEW i \in Dev, PlainCommand(i), \A c \in CisHandles : ~LeAcceptCisRequest(i, c)
  PROVE  UNCHANGED phase /\ QueueKept(0, {"cisRequest", "cisAccept"})
<1> DEFINE ops == {"cisRequest", "cisAccept"}
<1>1. \A op, handle, arg : Defer(i, op, handle, arg) => UNCHANGED phase
  BY DEF Defer
<1>2. \A op, handle, arg : Defer(i, op, handle, arg) /\ op \notin ops => QueueKept(0, ops)
  BY DeferredQueue
<1>3. CASE LeSetAdvEnable(i) \/ LeCreateConnectionCancel(i)
  BY <1>3, SameQueue DEF LeSetAdvEnable, LeCreateConnectionCancel
<1>4. CASE \E target \in Dev : LeCreateConnection(i, target)
  BY <1>4, SameQueue DEF LeCreateConnection
<1>5. ASSUME NEW h \in Handle,
             \/ \E interval \in Interval : LeConnectionUpdate(i, h, interval)
             \/ \E p \in PhyPrefs : LeSetPhy(i, h, p[1], p[2])
             \/ \E key \in Keys : LeEnableEncryption(i, h, key)
             \/ \E key \in Keys \cup {None} : LeLtkReply(i, h, key)
             \/ SendAcl(i, h)
             \/ Disconnect(i, h)
      PROVE  \E op \in {"update", "phy", "encrypt", "ltkReply", "acl", "disconnect"} :
               \E handle, arg : Defer(i, op, handle, arg)
  BY <1>5 DEF LeConnectionUpdate, LeSetPhy, LeEnableEncryption, LeLtkReply, SendAcl, Disconnect
<1>6. CASE \E op \in {"update", "phy", "encrypt", "ltkReply", "acl", "disconnect"} :
             \E handle, arg : Defer(i, op, handle, arg)
  <2> PICK op \in {"update", "phy", "encrypt", "ltkReply", "acl", "disconnect"} :
             \E handle, arg : Defer(i, op, handle, arg)
    BY <1>6
  <2>1. op \notin ops
    OBVIOUS
  <2> QED BY <1>1, <1>2, <2>1
<1> QED BY <1>3, <1>4, <1>5, <1>6 DEF PlainCommand

LEMMA QuietSteps ==
  ASSUME StreamInv, RideInv', RidesOn, \A i \in Dev, c \in CisHandles : ~LeAcceptCisRequest(i, c)
  PROVE  StreamInv'
<1> DEFINE ops == {"cisRequest", "cisAccept"}
<1>1. PeersKept /\ UNCHANGED cis /\ TypeOK
  BY RidesOnKeeps DEF StreamInv, RideInv, Inv
<1>2. ASSUME phase = "route" => phase' = "route" \/ actions' = <<>>
      PROVE  StreamsStay
  BY <1>1, <1>2 DEF StreamsStay, PeersKept
<1>3. ASSUME NEW i \in Dev, PlainCommand(i)
      PROVE  UNCHANGED phase /\ QueueKept(0, ops)
  BY <1>1, <1>3, CommandQueue
<1>4. CASE DrainDone \/ RouteDone \/ UNCHANGED vars
  <2>1. UNCHANGED actions /\ (phase = "route" => phase' = "route" \/ actions' = <<>>)
    BY <1>4 DEF DrainDone, RouteDone, vars
  <2>2. QueueKept(0, ops)
    BY <1>1, <2>1, SameQueue
  <2> QED BY <1>1, <1>2, <2>1, <2>2, QueueStays, MirroredStays
<1>5. CASE RouteAcl \/ RouteConnectionUpdate \/ RoutePhyUpdate \/ RouteLeEnableEncryption
             \/ RouteLeLtkReply
  <2>1. \E op \in {"acl", "update", "phy", "encrypt", "ltkReply"} : Now(op)
    BY <1>5 DEF RouteAcl, RouteConnectionUpdate, RoutePhyUpdate, RouteLeEnableEncryption,
         RouteLeLtkReply
  <2>2. UNCHANGED phase
    BY <2>1 DEF Now
  <2>3. QueueKept(1, ops)
    <3> PICK op \in {"acl", "update", "phy", "encrypt", "ltkReply"} : Now(op)
      BY <2>1
    <3> QED BY <1>1, RoutedQueue
  <2> QED BY <1>1, <1>2, <2>2, <2>3, QueueStays, MirroredStays
<1>6. CASE \E i \in Dev : PlainCommand(i)
  BY <1>1, <1>2, <1>3, <1>6, QueueStays, MirroredStays
<1> QED BY <1>4, <1>5, <1>6 DEF RidesOn

LEMMA ConnectStreams ==
  ASSUME StreamInv, RideInv', TickPendingConnect
  PROVE  StreamInv'
<1>1. Inv' /\ TypeOK /\ RideInv
  BY DEF StreamInv, RideInv, Inv
<1>2. /\ UNCHANGED <<actions, cis>> /\ phase # "route"
  BY DEF TickPendingConnect
<1>3. \A i \in Dev, h \in Handle : Holds(i, h) => conn'[i][h].peer = conn[i][h].peer
  BY <1>1, RideConnect
<1>4. StreamsStay
  BY <1>2, <1>3 DEF StreamsStay
<1>5. QueueKept(0, {"cisRequest", "cisAccept"})
  BY <1>1, <1>2, SameQueue
<1> QED BY <1>2, <1>4, <1>5, QueueStays, MirroredStays

\* A host accepts a stream it knows, after anything it has asked for itself.
LEMMA AcceptCommandStreams ==
  ASSUME StreamInv, RideInv', NEW i \in Dev, NEW c \in CisHandles, LeAcceptCisRequest(i, c)
  PROVE  StreamInv'
<1>1. TypeOK /\ Known(i, c) /\ UNCHANGED <<cis, conn, phase>> /\ Defer(i, "cisAccept", 0, c)
  BY DEF LeAcceptCisRequest, StreamInv, RideInv, Inv, Defer
<1>2. StreamsStay
  BY <1>1 DEF StreamsStay
<1>3. QueueKept(0, {"cisRequest"})
  BY <1>1, DeferredQueue
<1>4. /\ DOMAIN actions = 1 .. Len(actions) /\ Len(actions) \in Nat
      /\ DOMAIN actions' = 1 .. Len(actions) + 1
      /\ \A n \in 1 .. Len(actions) : actions'[n] = actions[n]
      /\ actions'[Len(actions) + 1] = [op |-> "cisAccept", from |-> i, handle |-> 0, arg |-> c]
  BY <1>1, Deferred
<1>5. AcceptsBehind'
  <2> SUFFICES ASSUME NEW n \in DOMAIN actions', actions'[n].op = "cisAccept"
               PROVE  /\ phase # "route" => Known(actions'[n].from, actions'[n].arg)
                      /\ \A m \in DOMAIN actions' :
                           /\ actions'[m].op = "cisRequest"
                           /\ actions'[m].from = actions'[n].from
                           /\ actions'[m].arg = actions'[n].arg
                           => m < n
    BY <1>1 DEF AcceptsBehind, Accept, Request, Known
  <2>1. CASE n = Len(actions) + 1
    <3>1. \A m \in DOMAIN actions' : m = n \/ m < n
      BY <1>4, <2>1
    <3> QED BY <1>1, <1>4, <2>1, <3>1
  <2>2. CASE n \in 1 .. Len(actions)
    <3>1. /\ phase # "route" => Known(actions[n].from, actions[n].arg)
          /\ \A m \in DOMAIN actions :
               /\ actions[m].op = "cisRequest"
               /\ actions[m].from = actions[n].from
               /\ actions[m].arg = actions[n].arg
               => m < n
      BY <1>4, <2>2 DEF StreamInv, AcceptsBehind, Accept, Request
    <3>2. \A m \in DOMAIN actions' : actions'[m].op = "cisRequest" => m \in DOMAIN actions
      BY <1>4
    <3> QED BY <1>4, <2>2, <3>1, <3>2
  <2> QED BY <1>4, <2>1, <2>2
<1> QED BY <1>1, <1>2, <1>3, <1>5, RequestsStay, MirroredStays DEF StreamInv

\* A stream more, at a controller that knew none of its handle.
Adds(p, c, h) ==
  /\ ~Known(p, c)
  /\ \A j \in Dev : \A m \in DOMAIN cis[j] : cis[j][m].cis = c => cis[j][m].acl = h
  /\ cis' = [cis EXCEPT ![p] = Append(@, Stream(c, h))]
  /\ UNCHANGED conn

LEMMA AddedStream ==
  ASSUME StreamInv, NEW p \in Dev, NEW c, NEW h, Adds(p, c, h)
  PROVE  /\ OneStream' /\ Mirrored'
         /\ \A j \in Dev : \A x : KnownNext(j, x) <=> Known(j, x) \/ (j = p /\ x = c)
         /\ \A j \in Dev : \A k \in DOMAIN cis[j] : k \in DOMAIN cis'[j] /\ cis'[j][k] = cis[j][k]
         /\ \A j \in Dev : \A k \in DOMAIN cis'[j] :
              \/ k \in DOMAIN cis[j] /\ cis'[j][k] = cis[j][k]
              \/ j = p /\ cis'[j][k] = [cis |-> c, acl |-> h, established |-> FALSE]
<1> DEFINE new == Len(cis[p]) + 1
<1>1. /\ \A j \in Dev : j # p => cis'[j] = cis[j]
      /\ DOMAIN cis[p] = 1 .. Len(cis[p]) /\ Len(cis[p]) \in Nat
      /\ DOMAIN cis'[p] = 1 .. new
      /\ \A k \in 1 .. Len(cis[p]) : cis'[p][k] = cis[p][k]
      /\ cis'[p][new] = Stream(c, h)
  BY StreamAdded DEF StreamInv, RideInv, Inv, Adds
<1>2. /\ \A j \in Dev : \A k \in DOMAIN cis[j] : k \in DOMAIN cis'[j] /\ cis'[j][k] = cis[j][k]
      /\ \A j \in Dev : \A k \in DOMAIN cis'[j] :
           (k \in DOMAIN cis[j] /\ cis'[j][k] = cis[j][k]) \/ (j = p /\ k = new)
      /\ new \in DOMAIN cis'[p] /\ new \notin DOMAIN cis[p]
  BY <1>1
<1>3. /\ cis'[p][new].cis = c /\ cis'[p][new].acl = h /\ ~cis'[p][new].established
      /\ cis'[p][new] = [cis |-> c, acl |-> h, established |-> FALSE]
  BY <1>1 DEF Stream
<1>4. /\ \A m \in DOMAIN cis[p] : cis[p][m].cis # c
      /\ \A j \in Dev : \A m \in DOMAIN cis[j] : cis[j][m].cis = c => cis[j][m].acl = h
      /\ conn' = conn
  BY DEF Known, Adds
<1> HIDE DEF new
<1>5. OneStream'
  <2>1. \A j \in Dev : \A k, m \in DOMAIN cis'[j] : cis'[j][k].cis = cis'[j][m].cis => k = m
    BY <1>2, <1>3, <1>4 DEF StreamInv, OneStream
  <2>2. \A i, j \in Dev : \A k \in DOMAIN cis'[i], m \in DOMAIN cis'[j] :
          cis'[i][k].cis = cis'[j][m].cis => cis'[i][k].acl = cis'[j][m].acl
    BY <1>2, <1>3, <1>4 DEF StreamInv, OneStream
  <2> QED BY <2>1, <2>2 DEF OneStream
<1>6. Mirrored'
  <2> SUFFICES ASSUME NEW j \in Dev, NEW k \in DOMAIN cis'[j], cis'[j][k].established
               PROVE  \E m \in DOMAIN cis'[conn'[j][cis'[j][k].acl].peer] :
                        cis'[conn'[j][cis'[j][k].acl].peer][m] = cis'[j][k]
    BY DEF Mirrored, OtherEnd
  <2>1. k \in DOMAIN cis[j] /\ cis'[j][k] = cis[j][k]
    BY <1>2, <1>3
  <2>2. OtherEnd(j, k) \in Dev
    BY <2>1, StreamPeer DEF StreamInv
  <2> DEFINE o == conn'[j][cis'[j][k].acl].peer
  <2>3. o = OtherEnd(j, k)
    BY <1>4, <2>1 DEF OtherEnd
  <2>4. PICK m \in DOMAIN cis[OtherEnd(j, k)] : cis[OtherEnd(j, k)][m] = cis[j][k]
    BY <2>1 DEF StreamInv, Mirrored
  <2> HIDE DEF o
  <2>5. m \in DOMAIN cis'[o] /\ cis'[o][m] = cis'[j][k]
    BY <1>2, <2>1, <2>2, <2>3, <2>4
  <2> QED BY <2>5 DEF o
<1>7. \A j \in Dev : \A x : KnownNext(j, x) <=> Known(j, x) \/ (j = p /\ x = c)
  BY <1>2, <1>3 DEF Known, KnownNext
<1> QED BY <1>2, <1>3, <1>5, <1>6, <1>7

\* The central's host chooses a handle nobody knows: no request for it can still be
\* in the queue, and no acceptance.
LEMMA CreateStreams ==
  ASSUME StreamInv, RideInv', "cisReuse" \notin Ops,
         NEW i \in Dev, NEW h \in Handle, NEW c \in CisHandles, LeCreateCis(i, h, c)
  PROVE  StreamInv'
<1>1. /\ phase = "drain" /\ UNCHANGED <<phase, conn>>
      /\ \A j \in Dev : ~Known(j, c)
      /\ Holds(i, h) /\ Defer(i, "cisRequest", h, c) /\ TypeOK
      /\ cis' = [cis EXCEPT ![i] = Append(@, Stream(c, h))]
  BY DEF LeCreateCis, Draining, Defer, StreamInv, RideInv, Inv
<1> DEFINE new == Len(actions) + 1
<1>2. /\ DOMAIN actions = 1 .. Len(actions) /\ Len(actions) \in Nat
      /\ DOMAIN actions' = 1 .. new
      /\ \A n \in 1 .. Len(actions) : actions'[n] = actions[n]
      /\ actions'[new] = [op |-> "cisRequest", from |-> i, handle |-> h, arg |-> c]
  BY <1>1, Deferred
<1>3. /\ OneStream' /\ Mirrored'
      /\ \A j \in Dev : \A x : KnownNext(j, x) <=> Known(j, x) \/ (j = i /\ x = c)
      /\ \A j \in Dev : \A k \in DOMAIN cis[j] : k \in DOMAIN cis'[j] /\ cis'[j][k] = cis[j][k]
      /\ \A j \in Dev : \A k \in DOMAIN cis'[j] :
           \/ k \in DOMAIN cis[j] /\ cis'[j][k] = cis[j][k]
           \/ j = i /\ cis'[j][k] = [cis |-> c, acl |-> h, established |-> FALSE]
  <2>1. \A j \in Dev : \A m \in DOMAIN cis[j] : cis[j][m].cis # c
    BY <1>1 DEF Known
  <2>2. Adds(i, c, h)
    BY <1>1, <2>1 DEF Adds
  <2> QED BY <2>2, AddedStream
<1>4. /\ new \in Nat /\ new \notin DOMAIN actions
      /\ \A n \in DOMAIN actions : n \in DOMAIN actions' /\ n \in Nat /\ n < new /\ actions'[n] = actions[n]
      /\ \A n \in DOMAIN actions' : n = new \/ n \in DOMAIN actions
      /\ new \in DOMAIN actions'
      /\ actions'[new].op = "cisRequest" /\ actions'[new].from = i
      /\ actions'[new].handle = h /\ actions'[new].arg = c
  BY <1>2
<1> HIDE DEF new
<1>5. ASSUME NEW n \in DOMAIN actions, actions[n].op \in {"cisRequest", "cisAccept"}
      PROVE  /\ actions[n].from \in Dev
             /\ Known(actions[n].from, actions[n].arg)
             /\ actions[n].arg # c
  <2>1. actions[n] \in Action
    BY <1>1 DEF TypeOK
  <2>2. actions[n].from \in Dev
    BY <2>1, <1>5 DEF Action
  <2>3. Known(actions[n].from, actions[n].arg)
    BY <1>1, <1>5 DEF StreamInv, RequestsFirst, AcceptsBehind, Request, Accept
  <2> QED BY <1>1, <2>2, <2>3
<1>6. RequestsApart'
  BY <1>4, <1>5 DEF RequestsApart, Request, StreamInv
<1>7. AcceptsBehind'
  <2> SUFFICES ASSUME NEW n \in DOMAIN actions', actions'[n].op = "cisAccept"
               PROVE  /\ phase' # "route" => KnownNext(actions'[n].from, actions'[n].arg)
                      /\ \A m \in DOMAIN actions' :
                           /\ actions'[m].op = "cisRequest"
                           /\ actions'[m].from = actions'[n].from
                           /\ actions'[m].arg = actions'[n].arg
                           => m < n
    BY DEF AcceptsBehind, Accept, Request, Known, KnownNext
  <2>1. n \in DOMAIN actions /\ actions'[n] = actions[n]
    BY <1>4
  <2>2. KnownNext(actions[n].from, actions[n].arg) /\ actions[n].arg # c
    BY <1>3, <1>5, <2>1
  <2>3. \A m \in DOMAIN actions :
          /\ actions[m].op = "cisRequest"
          /\ actions[m].from = actions[n].from
          /\ actions[m].arg = actions[n].arg
          => m < n
    BY <2>1 DEF StreamInv, AcceptsBehind, Accept, Request
  <2> QED BY <1>4, <2>1, <2>2, <2>3
<1>8. KnownOrAsked'
  <2> SUFFICES ASSUME NEW j \in Dev, NEW k \in DOMAIN cis'[j]
               PROVE  \/ KnownNext(conn'[j][cis'[j][k].acl].peer, cis'[j][k].cis)
                      \/ \E n \in DOMAIN actions' :
                           /\ actions'[n].op = "cisRequest"
                           /\ actions'[n].from = j
                           /\ actions'[n].arg = cis'[j][k].cis
    BY KnownOrAskedNext
  <2>1. CASE j = i /\ cis'[j][k] = [cis |-> c, acl |-> h, established |-> FALSE]
    BY <1>4, <2>1
  <2>2. CASE k \in DOMAIN cis[j] /\ cis'[j][k] = cis[j][k]
    <3>1. OtherEnd(j, k) \in Dev
      BY <2>2, StreamPeer DEF StreamInv
    <3>2. CASE Known(OtherEnd(j, k), cis[j][k].cis)
      <4>1. conn'[j][cis'[j][k].acl].peer = OtherEnd(j, k)
        BY <1>1, <2>2 DEF OtherEnd
      <4> QED BY <1>3, <2>2, <3>1, <3>2, <4>1
    <3>3. CASE \E n \in DOMAIN actions :
                 Request(n) /\ actions[n].from = j /\ actions[n].arg = cis[j][k].cis
      BY <1>4, <2>2, <3>3 DEF Request
    <3> QED BY <2>2, <3>2, <3>3 DEF StreamInv, KnownOrAsked
  <2> QED BY <1>3, <2>1, <2>2
<1>9. RequestsFirst'
  <2> SUFFICES ASSUME NEW n \in DOMAIN actions', actions'[n].op = "cisRequest"
               PROVE  /\ \A j \in Dev : KnownNext(j, actions'[n].arg) => j = actions'[n].from
                      /\ \A k \in DOMAIN cis'[actions'[n].from] :
                           cis'[actions'[n].from][k].cis = actions'[n].arg
                             => cis'[actions'[n].from][k].acl = actions'[n].handle
                      /\ KnownNext(actions'[n].from, actions'[n].arg)
    BY DEF RequestsFirst, Request, Known, KnownNext
  <2>1. CASE n = new
    <3>1. \A k \in DOMAIN cis'[i] : cis'[i][k].cis = c => cis'[i][k].acl = h
      BY <1>1, <1>3 DEF Known
    <3> QED BY <1>1, <1>3, <1>4, <2>1, <3>1
  <2>2. CASE n \in DOMAIN actions
    <3> DEFINE a == actions[n].from
               x == actions[n].arg
    <3>1. actions'[n] = actions[n]
      BY <1>4, <2>2
    <3>2. a \in Dev /\ Known(a, x) /\ x # c
      BY <1>5, <2>2, <3>1
    <3>3. /\ \A j \in Dev : Known(j, x) => j = a
          /\ \A k \in DOMAIN cis[a] : cis[a][k].cis = x => cis[a][k].acl = actions[n].handle
      BY <2>2, <3>1 DEF StreamInv, RequestsFirst, Request
    <3> HIDE DEF a, x
    <3>4. \A k \in DOMAIN cis'[a] : cis'[a][k].cis = x => cis'[a][k].acl = actions[n].handle
      BY <1>3, <3>2, <3>3
    <3>5. (\A j \in Dev : KnownNext(j, x) => j = a) /\ KnownNext(a, x)
      BY <1>3, <3>2, <3>3
    <3> QED BY <3>1, <3>4, <3>5 DEF a, x
  <2> QED BY <1>4, <2>1, <2>2
<1> QED BY <1>3, <1>6, <1>7, <1>8, <1>9 DEF StreamInv

\* Requests and acceptances keep their order when the head of the queue is routed.
LEMMA QueueMovesUp ==
  ASSUME StreamInv, NEW op, Now(op)
  PROVE  RequestsApart' /\ AcceptsBehind'
<1>1. phase' = "route" /\ TypeOK
  BY DEF Now, StreamInv, RideInv, Inv
<1>2. \A n \in DOMAIN actions' :
        n \in Nat /\ n + 1 \in DOMAIN actions /\ actions'[n] = actions[n + 1]
  BY <1>1, Routed
<1>3. RequestsApart'
  <2> SUFFICES ASSUME NEW n \in DOMAIN actions', NEW m \in DOMAIN actions',
                      actions'[n].op = "cisRequest", actions'[m].op = "cisRequest",
                      actions'[n].arg = actions'[m].arg
               PROVE  n = m
    BY DEF RequestsApart, Request
  <2>1. n + 1 = m + 1 /\ n \in Nat /\ m \in Nat
    BY <1>2 DEF StreamInv, RequestsApart, Request
  <2> QED BY <2>1
<1>4. AcceptsBehind'
  <2> SUFFICES ASSUME NEW n \in DOMAIN actions', actions'[n].op = "cisAccept",
                      NEW m \in DOMAIN actions', actions'[m].op = "cisRequest",
                      actions'[m].from = actions'[n].from, actions'[m].arg = actions'[n].arg
               PROVE  m < n
    BY <1>1 DEF AcceptsBehind, Accept, Request
  <2>1. m + 1 < n + 1 /\ n \in Nat /\ m \in Nat
    BY <1>2 DEF StreamInv, AcceptsBehind, Accept, Request
  <2> QED BY <2>1
<1> QED BY <1>3, <1>4

\* The request at the head of the queue goes and the rest moves up: no other is for its
\* stream, which its sender alone knows.
LEMMA RequestQueue ==
  ASSUME StreamInv, Now("cisRequest")
  PROVE  /\ \A n \in DOMAIN actions' : n \in Nat /\ n + 1 \in DOMAIN actions /\ actions'[n] = actions[n + 1]
         /\ \A n \in DOMAIN actions : n # 1 => n - 1 \in DOMAIN actions' /\ actions'[n - 1] = actions[n]
         /\ \A n \in DOMAIN actions' : actions'[n].op = "cisRequest" => actions'[n].arg # Arg
         /\ From \in Dev /\ On \in Handle
         /\ \A j \in Dev : Known(j, Arg) => j = From
         /\ \A k \in DOMAIN cis[From] : cis[From][k].cis = Arg => cis[From][k].acl = On
         /\ Holds(From, On) => Known(From, Arg)
<1>1. TypeOK
  BY DEF StreamInv, RideInv, Inv
<1>2. /\ 1 \in DOMAIN actions /\ actions[1].op = "cisRequest"
      /\ From = actions[1].from /\ On = actions[1].handle /\ Arg = actions[1].arg
      /\ DOMAIN actions = 1 .. Len(actions) /\ Len(actions) \in Nat
      /\ DOMAIN actions' = 1 .. Len(actions) - 1
      /\ \A n \in DOMAIN actions' : actions'[n] = actions[n + 1]
  BY <1>1, Routed
<1>3. /\ \A n \in DOMAIN actions' : n \in Nat /\ n + 1 \in DOMAIN actions /\ n + 1 # 1
      /\ \A n \in DOMAIN actions : n # 1 => n - 1 \in DOMAIN actions' /\ actions'[n - 1] = actions[n]
  BY <1>2
<1>4. \A n \in DOMAIN actions : n = 1 \/ actions[n].op # "cisRequest" \/ actions[n].arg # Arg
  BY <1>2 DEF StreamInv, RequestsApart, Request
<1>5. \A n \in DOMAIN actions' : actions'[n].op = "cisRequest" => actions'[n].arg # Arg
  BY <1>2, <1>3, <1>4
<1>6. /\ \A j \in Dev : Known(j, Arg) => j = From
      /\ \A k \in DOMAIN cis[From] : cis[From][k].cis = Arg => cis[From][k].acl = On
      /\ Holds(From, On) => Known(From, Arg)
  BY <1>2 DEF StreamInv, RequestsFirst, Request
<1>7. From \in Dev /\ On \in Handle
  BY <1>1, NowType
<1> QED BY <1>2, <1>3, <1>5, <1>6, <1>7

\* A routed CIS Request: the far end learns of the stream, or the link is gone and
\* with it the stream at the near end.
LEMMA RequestStreams ==
  ASSUME StreamInv, RideInv', RouteCisRequest
  PROVE  StreamInv'
<1>1. Now("cisRequest") /\ phase = "route" /\ UNCHANGED <<phase, conn>> /\ RideInv
  BY DEF RouteCisRequest, Now, StreamInv
<1>2. /\ \A n \in DOMAIN actions' : n \in Nat /\ n + 1 \in DOMAIN actions /\ actions'[n] = actions[n + 1]
      /\ \A n \in DOMAIN actions : n # 1 => n - 1 \in DOMAIN actions' /\ actions'[n - 1] = actions[n]
      /\ \A n \in DOMAIN actions' : actions'[n].op = "cisRequest" => actions'[n].arg # Arg
      /\ From \in Dev /\ On \in Handle
      /\ \A j \in Dev : Known(j, Arg) => j = From
      /\ \A k \in DOMAIN cis[From] : cis[From][k].cis = Arg => cis[From][k].acl = On
      /\ Holds(From, On) => Known(From, Arg)
  BY <1>1, RequestQueue
<1>3. RequestsApart' /\ AcceptsBehind'
  BY <1>1, QueueMovesUp
<1>4. ASSUME \A j \in Dev : \A x : x # Arg => (KnownNext(j, x) <=> Known(j, x)),
             \A j \in Dev : \A k \in DOMAIN cis'[j] :
               cis'[j][k].cis # Arg => k \in DOMAIN cis[j] /\ cis'[j][k] = cis[j][k]
      PROVE  RequestsFirst'
  <2> SUFFICES ASSUME NEW n \in DOMAIN actions', actions'[n].op = "cisRequest"
               PROVE  /\ \A j \in Dev : KnownNext(j, actions'[n].arg) => j = actions'[n].from
                      /\ \A k \in DOMAIN cis'[actions'[n].from] :
                           cis'[actions'[n].from][k].cis = actions'[n].arg
                             => cis'[actions'[n].from][k].acl = actions'[n].handle
                      /\ \/ KnownNext(actions'[n].from, actions'[n].arg)
                         \/ phase' = "route" /\ conn'[actions'[n].from][actions'[n].handle].peer = None
    BY DEF RequestsFirst, Request, Known, KnownNext, Holds
  <2> DEFINE a == actions'[n].from
             x == actions'[n].arg
             h == actions'[n].handle
  <2>1. n + 1 \in DOMAIN actions /\ actions'[n] = actions[n + 1] /\ x # Arg
    BY <1>2
  <2>2. a \in Dev
    <3>1. actions[n + 1] \in Action
      BY <2>1 DEF StreamInv, RideInv, Inv, TypeOK
    <3> QED BY <2>1, <3>1 DEF Action
  <2>3. /\ \A j \in Dev : Known(j, x) => j = a
        /\ \A k \in DOMAIN cis[a] : cis[a][k].cis = x => cis[a][k].acl = h
        /\ Known(a, x) \/ (phase = "route" /\ conn[a][h].peer = None)
    BY <2>1 DEF StreamInv, RequestsFirst, Request, Holds
  <2> HIDE DEF a, x, h
  <2>4. /\ \A j \in Dev : KnownNext(j, x) => j = a
        /\ \A k \in DOMAIN cis'[a] : cis'[a][k].cis = x => cis'[a][k].acl = h
        /\ KnownNext(a, x) \/ (phase' = "route" /\ conn'[a][h].peer = None)
    BY <1>1, <1>4, <2>1, <2>2, <2>3
  <2> QED BY <2>4 DEF a, x, h
<1>5. CASE ~Holds(From, On) /\ UNCHANGED cis
  <2>1. \A k \in DOMAIN cis[From] : cis[From][k].cis # Arg
    BY <1>2, <1>5 DEF StreamInv, RideInv, CisRidesAcl
  <2>2. RequestsFirst'
    BY <1>4, <1>5 DEF KnownNext, Known
  <2>3. OneStream' /\ Mirrored'
    BY <1>1, <1>5 DEF StreamInv, OneStream, Mirrored, OtherEnd
  <2>4. KnownOrAsked'
    <3> SUFFICES ASSUME NEW j \in Dev, NEW k \in DOMAIN cis[j]
                 PROVE  \/ Known(OtherEnd(j, k), cis[j][k].cis)
                        \/ \E n \in DOMAIN actions' :
                             /\ actions'[n].op = "cisRequest"
                             /\ actions'[n].from = j
                             /\ actions'[n].arg = cis[j][k].cis
      <4>1. cis' = cis /\ \A j, k : OtherEnd(j, k)' = OtherEnd(j, k)
        BY <1>1, <1>5 DEF OtherEnd
      <4> QED BY <1>5, <4>1 DEF KnownOrAsked, Request, Known
    <3>1. CASE Known(OtherEnd(j, k), cis[j][k].cis)
      BY <3>1
    <3>2. CASE \E n \in DOMAIN actions :
                 Request(n) /\ actions[n].from = j /\ actions[n].arg = cis[j][k].cis
      <4> PICK n \in DOMAIN actions :
                 Request(n) /\ actions[n].from = j /\ actions[n].arg = cis[j][k].cis
        BY <3>2
      <4>1. n # 1
        BY <1>1, <2>1, Routed DEF StreamInv, RideInv, Inv
      <4> QED BY <1>2, <4>1 DEF Request
    <3> QED BY <3>1, <3>2 DEF StreamInv, KnownOrAsked
  <2> QED BY <1>3, <2>2, <2>3, <2>4 DEF StreamInv
<1>6. CASE \E p \in Dev :
             /\ Holds(From, On) /\ Holds(p, On)
             /\ conn[From][On].peer = p /\ conn[p][On].peer = From /\ p # From
             /\ cis' = [cis EXCEPT ![p] = Append(@, Stream(Arg, On))]
  <2> PICK p \in Dev :
        /\ Holds(From, On) /\ Holds(p, On)
        /\ conn[From][On].peer = p /\ conn[p][On].peer = From /\ p # From
        /\ cis' = [cis EXCEPT ![p] = Append(@, Stream(Arg, On))]
    BY <1>6
  <2>1. Adds(p, Arg, On)
    <3>1. ~Known(p, Arg)
      BY <1>2
    <3>2. \A j \in Dev : \A m \in DOMAIN cis[j] : cis[j][m].cis = Arg => cis[j][m].acl = On
      BY <1>2 DEF Known
    <3> QED BY <1>1, <3>1, <3>2 DEF Adds
  <2>2. /\ OneStream' /\ Mirrored'
        /\ \A j \in Dev : \A x : KnownNext(j, x) <=> Known(j, x) \/ (j = p /\ x = Arg)
        /\ \A j \in Dev : \A k \in DOMAIN cis'[j] :
             \/ k \in DOMAIN cis[j] /\ cis'[j][k] = cis[j][k]
             \/ j = p /\ cis'[j][k] = [cis |-> Arg, acl |-> On, established |-> FALSE]
    BY <2>1, AddedStream
  <2>3. RequestsFirst'
    <3>1. \A j \in Dev : \A x : x # Arg => (KnownNext(j, x) <=> Known(j, x))
      BY <2>2
    <3>2. \A j \in Dev : \A k \in DOMAIN cis'[j] :
            cis'[j][k].cis # Arg => k \in DOMAIN cis[j] /\ cis'[j][k] = cis[j][k]
      BY <2>2
    <3> QED BY <1>4, <3>1, <3>2
  <2>4. KnownNext(From, Arg) /\ KnownNext(p, Arg)
    BY <1>2, <2>2
  <2>5. KnownOrAsked'
    <3> SUFFICES ASSUME NEW j \in Dev, NEW k \in DOMAIN cis'[j]
                 PROVE  \/ KnownNext(conn'[j][cis'[j][k].acl].peer, cis'[j][k].cis)
                        \/ \E n \in DOMAIN actions' :
                             /\ actions'[n].op = "cisRequest"
                             /\ actions'[n].from = j
                             /\ actions'[n].arg = cis'[j][k].cis
      BY KnownOrAskedNext
    <3>1. CASE cis'[j][k] = [cis |-> Arg, acl |-> On, established |-> FALSE] /\ j = p
      BY <1>1, <2>4, <3>1
    <3>2. CASE k \in DOMAIN cis[j] /\ cis'[j][k] = cis[j][k]
      <4>1. OtherEnd(j, k) \in Dev /\ conn'[j][cis'[j][k].acl].peer = OtherEnd(j, k)
        BY <1>1, <3>2, StreamPeer DEF OtherEnd
      <4>2. CASE Known(OtherEnd(j, k), cis[j][k].cis)
        BY <2>2, <3>2, <4>1, <4>2
      <4>3. CASE cis[j][k].cis = Arg
        <5>1. j = From /\ cis[j][k].acl = On
          BY <1>2, <3>2, <4>3 DEF Known
        <5>2. OtherEnd(j, k) = p
          BY <5>1 DEF OtherEnd
        <5> QED BY <2>4, <3>2, <4>1, <4>3, <5>2
      <4>4. CASE /\ cis[j][k].cis # Arg
                 /\ \E n \in DOMAIN actions :
                      Request(n) /\ actions[n].from = j /\ actions[n].arg = cis[j][k].cis
        <5> PICK n \in DOMAIN actions :
                 Request(n) /\ actions[n].from = j /\ actions[n].arg = cis[j][k].cis
          BY <4>4
        <5>1. n # 1
          BY <1>1, <4>4, Routed DEF StreamInv, RideInv, Inv
        <5> QED BY <1>2, <3>2, <5>1 DEF Request
      <4> QED BY <3>2, <4>2, <4>3, <4>4 DEF StreamInv, KnownOrAsked
    <3> QED BY <2>2, <3>1, <3>2
  <2> QED BY <1>3, <2>2, <2>3, <2>5 DEF StreamInv
<1> QED BY <1>1, <1>5, <1>6, RequestRouted

\* An acceptance establishes the stream at both ends: no request for it is left in
\* the queue, so the other end knows it.
LEMMA AcceptStreams ==
  ASSUME StreamInv, RideInv', RouteCisAccept
  PROVE  StreamInv'
<1>1. Now("cisAccept") /\ phase = "route" /\ UNCHANGED <<phase, conn>> /\ RideInv /\ TypeOK
  BY DEF RouteCisAccept, Now, StreamInv, RideInv, Inv
<1>2. /\ 1 \in DOMAIN actions /\ actions[1].op = "cisAccept"
      /\ From = actions[1].from /\ Arg = actions[1].arg
      /\ DOMAIN actions = 1 .. Len(actions) /\ Len(actions) \in Nat
  BY <1>1, Routed
<1>3. From \in Dev
  BY <1>1, NowType
<1>4. QueueKept(1, {"cisRequest", "cisAccept"})
  BY <1>1, RoutedQueue
<1>5. \A i \in Dev :
        /\ DOMAIN cis'[i] = DOMAIN cis[i]
        /\ \A k \in DOMAIN cis[i] :
             /\ cis'[i][k].cis = cis[i][k].cis
             /\ cis'[i][k].acl = cis[i][k].acl
             /\ cis[i][k].cis # Arg => cis'[i][k] = cis[i][k]
  BY <1>1, Accepted
<1>6. StreamsStay
  BY <1>1, <1>5 DEF StreamsStay
<1> DEFINE f == First(From, Arg)
           h == cis[From][f].acl
           p == OtherEnd(From, f)
<1>7. CASE UNCHANGED cis
  BY <1>4, <1>6, <1>7, MirroredStays, QueueStays
<1>8. CASE /\ Known(From, Arg) /\ PeerOf(From, h) # None
           /\ cis' = [i \in Dev |->
                        IF i \in CisEnds(From, h) /\ Known(i, Arg)
                        THEN [cis[i] EXCEPT ![First(i, Arg)].established = TRUE]
                        ELSE cis[i]]
  <2>1. f \in DOMAIN cis[From] /\ cis[From][f].cis = Arg
    BY <1>1, <1>3, <1>8, FirstIs
  <2>2. /\ h \in Handle /\ p \in Dev /\ p # From
        /\ Holds(From, h) /\ Holds(p, h) /\ conn[p][h].peer = From
    BY <1>1, <1>3, <2>1, StreamPeer
  <2>3. p = conn[From][h].peer /\ PeerOf(From, h) = p
    BY <2>2 DEF OtherEnd, PeerOf
  <2>4. Known(p, Arg)
    <3>1. ~\E n \in DOMAIN actions :
             Request(n) /\ actions[n].from = From /\ actions[n].arg = Arg
      <4> SUFFICES ASSUME NEW n \in DOMAIN actions, Request(n), actions[n].from = From,
                          actions[n].arg = Arg
                   PROVE  FALSE
        OBVIOUS
      <4>1. n < 1
        BY <1>2 DEF StreamInv, AcceptsBehind, Accept
      <4> QED BY <1>2, <4>1
    <3> QED BY <1>3, <2>1, <3>1 DEF StreamInv, KnownOrAsked
  <2> DEFINE g == First(p, Arg)
  <2>5. g \in DOMAIN cis[p] /\ cis[p][g].cis = Arg
    BY <1>1, <2>2, <2>4, FirstIs
  <2>6. cis[p][g].acl = h
    BY <1>3, <2>1, <2>2, <2>5 DEF StreamInv, OneStream
  <2>7. CisEnds(From, h) = {From, p}
    BY <2>3 DEF CisEnds
  <2>8. /\ cis'[From] = [cis[From] EXCEPT ![f].established = TRUE]
        /\ cis'[p] = [cis[p] EXCEPT ![g].established = TRUE]
        /\ \A i \in Dev : i # From /\ i # p => cis'[i] = cis[i]
    BY <1>3, <1>8, <2>2, <2>4, <2>7
  <2> HIDE DEF f, h, p, g
  <2>9. cis'[From][f] = [cis |-> Arg, acl |-> h, established |-> TRUE]
    <3>1. cis[From][f] \in StreamType
      BY <1>1, <1>3, <2>1, StreamPeer
    <3>2. cis[From][f].acl = h
      BY DEF h
    <3>3. cis'[From][f] = [cis[From][f] EXCEPT !.established = TRUE]
      BY <2>1, <2>8
    <3> QED BY <2>1, <3>1, <3>2, <3>3 DEF StreamType
  <2>10. cis'[p][g] = [cis |-> Arg, acl |-> h, established |-> TRUE]
    <3>1. cis[p][g] \in StreamType
      BY <1>1, <2>2, <2>5, StreamPeer
    <3>2. cis'[p][g] = [cis[p][g] EXCEPT !.established = TRUE]
      BY <2>5, <2>8
    <3> QED BY <2>5, <2>6, <3>1, <3>2 DEF StreamType
  <2>11. Mirrored'
    <3> SUFFICES ASSUME NEW i \in Dev, NEW k \in DOMAIN cis'[i], cis'[i][k].established
                 PROVE  \E m \in DOMAIN cis'[conn'[i][cis'[i][k].acl].peer] :
                          cis'[conn'[i][cis'[i][k].acl].peer][m] = cis'[i][k]
      BY DEF Mirrored, OtherEnd
    <3> DEFINE o == OtherEnd(i, k)
    <3>1. k \in DOMAIN cis[i] /\ conn'[i][cis'[i][k].acl].peer = o
      BY <1>1, <1>5 DEF OtherEnd
    <3>2. /\ o \in Dev /\ cis[i][k].acl \in Handle /\ Holds(i, cis[i][k].acl)
          /\ o = conn[i][cis[i][k].acl].peer
      BY <1>1, <3>1, StreamPeer DEF OtherEnd
    <3> HIDE DEF o
    <3>3. CASE cis[i][k].cis # Arg
      <4>1. cis'[i][k] = cis[i][k]
        BY <1>5, <3>1, <3>3
      <4>2. PICK m \in DOMAIN cis[o] : cis[o][m] = cis[i][k]
        BY <3>1, <4>1 DEF StreamInv, Mirrored, o
      <4>3. m \in DOMAIN cis'[o] /\ cis'[o][m] = cis'[i][k]
        BY <1>5, <3>2, <3>3, <4>1, <4>2
      <4> QED BY <3>1, <4>3
    <3>4. CASE cis[i][k].cis = Arg
      <4>1. cis[i][k].acl = h
        BY <1>3, <2>1, <3>1, <3>4 DEF StreamInv, OneStream, h
      <4>2. i = From \/ i = p
        BY <1>3, <2>2, <2>3, <3>2, <4>1 DEF StreamInv, RideInv, Inv, OnePair
      <4>3. CASE i = From
        <5>1. k = f
          BY <2>1, <3>1, <3>4, <4>3 DEF StreamInv, OneStream
        <5>2. o = p
          BY <2>3, <3>2, <4>1, <4>3
        <5>3. g \in DOMAIN cis'[p]
          BY <1>5, <2>2, <2>5
        <5> QED BY <2>9, <2>10, <3>1, <4>3, <5>1, <5>2, <5>3
      <4>4. CASE i = p
        <5>1. k = g
          BY <2>5, <3>1, <3>4, <4>4 DEF StreamInv, OneStream
        <5>2. o = From
          BY <2>2, <3>2, <4>1, <4>4
        <5>3. f \in DOMAIN cis'[From]
          BY <1>3, <1>5, <2>1
        <5> QED BY <2>9, <2>10, <3>1, <4>4, <5>1, <5>2, <5>3
      <4> QED BY <4>2, <4>3, <4>4
    <3> QED BY <3>3, <3>4
  <2> QED BY <1>4, <1>6, <2>11, QueueStays
<1> QED BY <1>7, <1>8 DEF RouteCisAccept

\* A Disconnect takes every stream of the link from both ends, and what is left of
\* the others is still the same at both.
LEMMA DisconnectStreams ==
  ASSUME StreamInv, RideInv', RouteDisconnect
  PROVE  StreamInv'
<1>1. Now("disconnect") /\ phase = "route" /\ UNCHANGED phase /\ RideInv /\ TypeOK
  BY DEF RouteDisconnect, Now, StreamInv, RideInv, Inv
<1>2. QueueKept(1, {"cisRequest", "cisAccept"})
  BY <1>1, RoutedQueue
<1>3. CASE UNCHANGED <<conn, cis>>
  <2>1. StreamsStay /\ UNCHANGED cis
    BY <1>1, <1>3 DEF StreamsStay
  <2> QED BY <1>2, <2>1, MirroredStays, QueueStays
<1>4. CASE /\ On \in Handle
           /\ \A i \in Dev, h \in Handle :
                conn'[i][h].peer = IF h = On THEN None ELSE conn[i][h].peer
           /\ \A i \in Dev :
                /\ \A k \in DOMAIN cis'[i] : \E m \in DOMAIN cis[i] :
                     cis[i][m].acl # On /\ cis'[i][k] = cis[i][m]
                /\ \A m \in DOMAIN cis[i] :
                     cis[i][m].acl # On => \E k \in DOMAIN cis'[i] : cis'[i][k] = cis[i][m]
                /\ \A k, m \in DOMAIN cis'[i] : k # m =>
                     \E a, b \in DOMAIN cis[i] :
                       a # b /\ cis'[i][k] = cis[i][a] /\ cis'[i][m] = cis[i][b]
  <2>1. OneStream'
    <3>1. ASSUME NEW i \in Dev, NEW k \in DOMAIN cis'[i], NEW m \in DOMAIN cis'[i],
                 cis'[i][k].cis = cis'[i][m].cis, k # m
          PROVE  FALSE
      <4>1. PICK a \in DOMAIN cis[i], b \in DOMAIN cis[i] :
              a # b /\ cis'[i][k] = cis[i][a] /\ cis'[i][m] = cis[i][b]
        BY <1>4, <3>1
      <4> QED BY <3>1, <4>1 DEF StreamInv, OneStream
    <3>2. ASSUME NEW i \in Dev, NEW j \in Dev, NEW k \in DOMAIN cis'[i], NEW m \in DOMAIN cis'[j],
                 cis'[i][k].cis = cis'[j][m].cis
          PROVE  cis'[i][k].acl = cis'[j][m].acl
      <4>1. PICK a \in DOMAIN cis[i] : cis'[i][k] = cis[i][a]
        BY <1>4
      <4>2. PICK b \in DOMAIN cis[j] : cis'[j][m] = cis[j][b]
        BY <1>4
      <4> QED BY <3>2, <4>1, <4>2 DEF StreamInv, OneStream
    <3> QED BY <3>1, <3>2 DEF OneStream
  <2>2. RequestsApart' /\ AcceptsBehind'
    BY <1>1, QueueMovesUp
  <2>3. \A j \in Dev : \A c : KnownNext(j, c) => Known(j, c)
    BY <1>4 DEF Known, KnownNext
  <2>4. RequestsFirst'
    <3> SUFFICES ASSUME NEW n \in DOMAIN actions', actions'[n].op = "cisRequest"
                 PROVE  /\ \A j \in Dev : KnownNext(j, actions'[n].arg) => j = actions'[n].from
                        /\ \A k \in DOMAIN cis'[actions'[n].from] :
                             cis'[actions'[n].from][k].cis = actions'[n].arg
                               => cis'[actions'[n].from][k].acl = actions'[n].handle
                        /\ \/ KnownNext(actions'[n].from, actions'[n].arg)
                           \/ phase' = "route" /\ conn'[actions'[n].from][actions'[n].handle].peer = None
      BY DEF RequestsFirst, Request, Known, KnownNext, Holds
    <3> DEFINE a == actions'[n].from
               x == actions'[n].arg
               h == actions'[n].handle
    <3>1. n + 1 \in DOMAIN actions /\ actions'[n] = actions[n + 1]
      BY <1>2 DEF QueueKept
    <3>2. a \in Dev /\ h \in Handle
      <4>1. actions[n + 1] \in Action
        BY <1>1, <3>1 DEF TypeOK
      <4> QED BY <3>1, <4>1 DEF Action
    <3>3. /\ \A j \in Dev : Known(j, x) => j = a
          /\ \A k \in DOMAIN cis[a] : cis[a][k].cis = x => cis[a][k].acl = h
          /\ Known(a, x) \/ (phase = "route" /\ conn[a][h].peer = None)
      BY <3>1 DEF StreamInv, RequestsFirst, Request, Holds
    <3> HIDE DEF a, x, h
    <3>4. \A j \in Dev : KnownNext(j, x) => j = a
      BY <2>3, <3>3
    <3>5. \A k \in DOMAIN cis'[a] : cis'[a][k].cis = x => cis'[a][k].acl = h
      BY <1>4, <3>2, <3>3
    <3>6. KnownNext(a, x) \/ (phase' = "route" /\ conn'[a][h].peer = None)
      <4>1. CASE phase = "route" /\ conn[a][h].peer = None
        BY <1>1, <1>4, <3>2, <4>1
      <4>2. CASE Known(a, x)
        <5>1. PICK m \in DOMAIN cis[a] : cis[a][m].cis = x
          BY <4>2 DEF Known
        <5>2. CASE cis[a][m].acl # On
          BY <1>4, <3>2, <5>1, <5>2 DEF KnownNext
        <5>3. CASE cis[a][m].acl = On
          BY <1>1, <1>4, <3>2, <3>3, <5>1, <5>3
        <5> QED BY <5>2, <5>3
      <4> QED BY <3>3, <4>1, <4>2
    <3> QED BY <3>4, <3>5, <3>6 DEF a, x, h
  <2>5. ASSUME NEW i \in Dev, NEW k \in DOMAIN cis'[i], NEW m \in DOMAIN cis[i],
               cis[i][m].acl # On, cis'[i][k] = cis[i][m]
        PROVE  /\ conn'[i][cis'[i][k].acl].peer = OtherEnd(i, m)
               /\ OtherEnd(i, m) \in Dev
    <3>1. cis[i][m].acl \in Handle /\ OtherEnd(i, m) \in Dev
      BY <1>1, StreamPeer
    <3> QED BY <1>4, <2>5, <3>1 DEF OtherEnd
  <2>6. ASSUME NEW i \in Dev, NEW m \in DOMAIN cis[i], cis[i][m].acl # On,
               NEW o \in Dev, Known(o, cis[i][m].cis)
        PROVE  KnownNext(o, cis[i][m].cis)
    <3>1. PICK b \in DOMAIN cis[o] : cis[o][b].cis = cis[i][m].cis
      BY <2>6 DEF Known
    <3>2. cis[o][b].acl = cis[i][m].acl
      BY <3>1 DEF StreamInv, OneStream
    <3> QED BY <1>4, <2>6, <3>1, <3>2 DEF KnownNext
  <2>7. KnownOrAsked'
    <3> SUFFICES ASSUME NEW i \in Dev, NEW k \in DOMAIN cis'[i]
                 PROVE  \/ KnownNext(conn'[i][cis'[i][k].acl].peer, cis'[i][k].cis)
                        \/ \E n \in DOMAIN actions' :
                             /\ actions'[n].op = "cisRequest"
                             /\ actions'[n].from = i
                             /\ actions'[n].arg = cis'[i][k].cis
      BY KnownOrAskedNext
    <3>1. PICK m \in DOMAIN cis[i] : cis[i][m].acl # On /\ cis'[i][k] = cis[i][m]
      BY <1>4
    <3>2. conn'[i][cis'[i][k].acl].peer = OtherEnd(i, m) /\ OtherEnd(i, m) \in Dev
      BY <2>5, <3>1
    <3>3. CASE Known(OtherEnd(i, m), cis[i][m].cis)
      <4>1. KnownNext(OtherEnd(i, m), cis[i][m].cis)
        BY <2>6, <3>1, <3>2, <3>3
      <4> QED BY <3>1, <3>2, <4>1
    <3>4. CASE \E n \in DOMAIN actions :
                 Request(n) /\ actions[n].from = i /\ actions[n].arg = cis[i][m].cis
      BY <1>2, <3>1, <3>4 DEF QueueKept, Request
    <3> QED BY <3>3, <3>4 DEF StreamInv, KnownOrAsked
  <2>8. Mirrored'
    <3> SUFFICES ASSUME NEW i \in Dev, NEW k \in DOMAIN cis'[i], cis'[i][k].established
                 PROVE  \E b \in DOMAIN cis'[conn'[i][cis'[i][k].acl].peer] :
                          cis'[conn'[i][cis'[i][k].acl].peer][b] = cis'[i][k]
      BY DEF Mirrored, OtherEnd
    <3>1. PICK m \in DOMAIN cis[i] : cis[i][m].acl # On /\ cis'[i][k] = cis[i][m]
      BY <1>4
    <3> DEFINE o == conn'[i][cis'[i][k].acl].peer
    <3>2. o = OtherEnd(i, m) /\ o \in Dev
      BY <2>5, <3>1
    <3> HIDE DEF o
    <3>3. PICK b \in DOMAIN cis[o] : cis[o][b] = cis[i][m]
      BY <3>1, <3>2 DEF StreamInv, Mirrored
    <3>4. \E b2 \in DOMAIN cis'[o] : cis'[o][b2] = cis'[i][k]
      BY <1>4, <3>1, <3>2, <3>3
    <3> QED BY <3>4 DEF o
  <2> QED BY <2>1, <2>2, <2>4, <2>7, <2>8 DEF StreamInv
<1> QED BY <1>1, <1>3, <1>4, Disconnected

LEMMA StreamNext ==
  ASSUME "reset" \notin Ops, "cisReuse" \notin Ops, StreamInv, [Next]_vars
  PROVE  StreamInv'
<1>1. RideInv'
  BY RideNext DEF StreamInv
<1>2. CASE RidesOn
  <2>1. CASE \E i \in Dev, c \in CisHandles : LeAcceptCisRequest(i, c)
    BY <1>1, <2>1, AcceptCommandStreams
  <2>2. CASE \A i \in Dev, c \in CisHandles : ~LeAcceptCisRequest(i, c)
    BY <1>1, <1>2, <2>2, QuietSteps
  <2> QED BY <2>1, <2>2
<1>3. CASE \E i \in Dev, h \in Handle, c \in CisHandles : LeCreateCis(i, h, c)
  BY <1>1, <1>3, CreateStreams
<1>4. CASE TickPendingConnect
  BY <1>1, <1>4, ConnectStreams
<1>5. CASE RouteCisRequest
  BY <1>1, <1>5, RequestStreams
<1>6. CASE RouteCisAccept
  BY <1>1, <1>6, AcceptStreams
<1>7. CASE RouteDisconnect
  BY <1>1, <1>7, DisconnectStreams
<1> QED BY <1>2, <1>3, <1>4, <1>5, <1>6, <1>7, StreamSteps

LEMMA StreamInit == Init => StreamInv
<1> SUFFICES ASSUME Init
             PROVE  StreamInv
  OBVIOUS
<1>1. (\A i \in Dev : cis[i] = <<>>) /\ actions = <<>>
  BY DEF Init
<1> QED BY <1>1, RideInit DEF StreamInv, OneStream, RequestsFirst, RequestsApart, AcceptsBehind,
       KnownOrAsked, Mirrored

\* An established stream is established, on the same link, at both ends: while no
\* controller is Reset and hosts choose stream handles that are not in use, an
\* acceptance is never routed before the far end was told of the stream, and a
\* Disconnect between the two takes it from both (route_cis_request, route_cis_accept,
\* route_disconnect).
THEOREM MirrorTheorem ==
  "reset" \notin Ops /\ "cisReuse" \notin Ops /\ Spec => []CisMirrored
<1> SUFFICES ASSUME "reset" \notin Ops, "cisReuse" \notin Ops
             PROVE  Spec => []CisMirrored
  OBVIOUS
<1>1. StreamInv /\ [Next]_vars => StreamInv'
  BY StreamNext
<1>2. StreamInv => CisMirrored
  BY MirroredImplies DEF StreamInv
<1> QED BY <1>1, <1>2, StreamInit, PTL DEF Spec

================================================================================
