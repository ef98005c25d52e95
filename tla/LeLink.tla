-------------------------------- MODULE LeLink --------------------------------
(***************************************************************************)
(* The LE half of the in-process controller (controller/sim.rs): legacy    *)
(* advertising and connecting, the link's parameters and PHYs, encryption  *)
(* start, isochronous streams (CIS), ACL data, Disconnect and Reset.       *)
(*                                                                         *)
(* As in ClassicLink, a host's command is checked when it is drained and   *)
(* its effect on the other end is an Action routed later in the tick; the  *)
(* connect phase, which joins a pending Create Connection to an advertiser *)
(* on air, runs between the two.  Commands refused with an error change    *)
(* nothing and are left out.                                               *)
(***************************************************************************)
EXTENDS Naturals, Sequences, Subsequences

CONSTANTS N,          \* controllers on the medium
          HandleMask, \* 2^12: what an ACL header's handle field can tell apart
          CisHandles, \* the handles hosts choose for isochronous streams
          Keys,       \* long term keys
          PhyPrefs,   \* the preferences hosts state in LE Set PHY, as <<tx, rx>>
          MaxHandle,  \* bound: links made in a behaviour
          MaxCis,     \* bound: streams recorded at a controller whose host creates one more
          MaxDue,     \* bound: LE Enable Encryptions unanswered on one link
          MaxActions, \* bound: Actions queued in one tick
          Ops         \* the commands the hosts of this instance send

ASSUME SizeAssumption == N \in Nat \ {0} /\ MaxHandle \in Nat \ {0}
ASSUME KeyAssumption == 0 \notin Keys
ASSUME MaskAssumption == HandleMask \in Nat \ {0}

Dev == 1..N

Handle == 1..MaxHandle

None == 0

Interval == {"default", "updated"}

Phy == {"1M", "2M"}

ASSUME PhyAssumption == PhyPrefs \subseteq (Phy \cup {"any"}) \X (Phy \cup {"any"})

\* A link as one controller holds it.  ltk is the key an LE Enable Encryption named,
\* held until the other host answers; None is a link not held, and no key.
NoConn == [peer |-> None, interval |-> "default", tx |-> "1M", rx |-> "1M",
           encrypted |-> FALSE, ltk |-> None]

VARIABLES
  phase,       \* "drain", "connect" or "route" of Link::tick
  turn,        \* the controller whose loop iteration it is
  actions,     \* deferred Actions, in order
  nextHandle,  \* the next handle the medium allocates
  advertising, \* advertising[i]
  pending,     \* pending[i]: whom i is trying to connect to
  conn,        \* conn[i][h]: link h as controller i holds it
  cis          \* cis[i]: the streams i knows, in the order they were recorded

VARIABLES
  createDue,   \* createDue[i]: host i is owed an LE Connection Complete
  encryptDue,  \* encryptDue[i][h]: Encryption Changes host i is owed for link h
  ltkAsked,    \* ltkAsked[i]: links whose LTK Request host i has not answered
  cisAsked,    \* cisAsked[i]: stream handles whose CIS Request host i has not answered
  stray        \* an ACL packet reached a controller that is not the link's other end

hosts == <<createDue, encryptDue, ltkAsked, cisAsked, stray>>

vars == <<phase, turn, actions, nextHandle, advertising, pending, conn, cis, hosts>>

Init ==
  /\ phase = "drain"
  /\ turn = 1
  /\ actions = <<>>
  /\ nextHandle = 1
  /\ advertising = [i \in Dev |-> FALSE]
  /\ pending = [i \in Dev |-> None]
  /\ conn = [i \in Dev |-> [h \in Handle |-> NoConn]]
  /\ cis = [i \in Dev |-> <<>>]
  /\ createDue = [i \in Dev |-> FALSE]
  /\ encryptDue = [i \in Dev |-> [h \in Handle |-> 0]]
  /\ ltkAsked = [i \in Dev |-> {}]
  /\ cisAsked = [i \in Dev |-> {}]
  /\ stray = FALSE

Holds(i, h) == conn[i][h].peer # None

--------------------------------------------------------------------------------
(***************************************************************************)
(* Drain: handle_command.                                                  *)
(***************************************************************************)

Draining(i, op) == phase = "drain" /\ turn = i /\ op \in Ops

Defer(i, op, handle, arg) ==
  /\ Len(actions) < MaxActions
  /\ actions' = Append(actions, [op |-> op, from |-> i, handle |-> handle, arg |-> arg])
  /\ UNCHANGED <<phase, turn, nextHandle, advertising, pending, conn, createDue, stray>>

LeSetAdvEnable(i) ==
  /\ Draining(i, "advertise")
  /\ advertising' = [advertising EXCEPT ![i] = ~@]
  /\ UNCHANGED <<phase, turn, actions, nextHandle, pending, conn, cis, hosts>>

\* A host does not connect to its own address.
LeCreateConnection(i, target) ==
  /\ Draining(i, "create")
  /\ target # i
  /\ pending' = [pending EXCEPT ![i] = target]
  /\ createDue' = [createDue EXCEPT ![i] = TRUE]
  /\ UNCHANGED <<phase, turn, actions, nextHandle, advertising, conn, cis,
                 encryptDue, ltkAsked, cisAsked, stray>>

LeCreateConnectionCancel(i) ==
  /\ Draining(i, "cancel")
  /\ pending' = [pending EXCEPT ![i] = None]
  /\ UNCHANGED <<phase, turn, actions, nextHandle, advertising, conn, cis, hosts>>

LeConnectionUpdate(i, h, interval) ==
  /\ Draining(i, "update")
  /\ Holds(i, h)
  /\ Defer(i, "update", h, interval)
  /\ UNCHANGED <<cis, encryptDue, ltkAsked, cisAsked>>

\* A direction without a preference keeps the PHY it has now: the value is read
\* here and travels with the Action.
LeSetPhy(i, h, tx, rx) ==
  /\ Draining(i, "phy")
  /\ Holds(i, h)
  /\ Defer(i, "phy", h, [tx |-> IF tx = "any" THEN conn[i][h].tx ELSE tx,
                         rx |-> IF rx = "any" THEN conn[i][h].rx ELSE rx,
                         asked |-> <<tx, rx>>])
  /\ UNCHANGED <<cis, encryptDue, ltkAsked, cisAsked>>

LeEnableEncryption(i, h, key) ==
  /\ Draining(i, "encrypt")
  /\ Holds(i, h)
  /\ encryptDue[i][h] < MaxDue
  /\ Defer(i, "encrypt", h, key)
  /\ encryptDue' = [encryptDue EXCEPT ![i][h] = @ + 1]
  /\ UNCHANGED <<cis, ltkAsked, cisAsked>>

\* A host answers an LE Long Term Key Request once, with a key or with none.
LeLtkReply(i, h, key) ==
  /\ Draining(i, "encrypt")
  /\ h \in ltkAsked[i]
  /\ Defer(i, "ltkReply", h, key)
  /\ ltkAsked' = [ltkAsked EXCEPT ![i] = @ \ {h}]
  /\ UNCHANGED <<cis, encryptDue, cisAsked>>

Stream(c, h) == [cis |-> c, acl |-> h, established |-> FALSE]

Known(i, c) == \E k \in DOMAIN cis[i] : cis[i][k].cis = c

\* The central's host chooses the stream's handle; one it has not used, unless the
\* instance lets it choose any.
LeCreateCis(i, h, c) ==
  /\ Draining(i, "cis")
  /\ Holds(i, h)
  /\ \/ "cisReuse" \in Ops
     \/ \A j \in Dev : ~Known(j, c)
  /\ Len(cis[i]) < MaxCis
  /\ Defer(i, "cisRequest", h, c)
  /\ cis' = [cis EXCEPT ![i] = Append(@, Stream(c, h))]
  /\ UNCHANGED <<encryptDue, ltkAsked, cisAsked>>

LeAcceptCisRequest(i, c) ==
  /\ Draining(i, "cis")
  /\ c \in cisAsked[i]
  /\ Known(i, c)
  /\ Defer(i, "cisAccept", 0, c)
  /\ cisAsked' = [cisAsked EXCEPT ![i] = @ \ {c}]
  /\ UNCHANGED <<cis, encryptDue, ltkAsked>>

\* An ACL packet.  Its header has room for the handle's low twelve bits.
AclHandle(h) == h % HandleMask

SendAcl(i, h) ==
  /\ Draining(i, "acl")
  /\ Holds(i, h)
  /\ Defer(i, "acl", AclHandle(h), h)
  /\ UNCHANGED <<cis, encryptDue, ltkAsked, cisAsked>>

Disconnect(i, h) ==
  /\ Draining(i, "disconnect")
  /\ Holds(i, h)
  /\ Defer(i, "disconnect", h, None)
  /\ UNCHANGED <<cis, encryptDue, ltkAsked, cisAsked>>

Reset(i) ==
  /\ Draining(i, "reset")
  /\ advertising' = [advertising EXCEPT ![i] = FALSE]
  /\ pending' = [pending EXCEPT ![i] = None]
  /\ conn' = [conn EXCEPT ![i] = [h \in Handle |-> NoConn]]
  /\ cis' = [cis EXCEPT ![i] = <<>>]
  /\ createDue' = [createDue EXCEPT ![i] = FALSE]
  /\ encryptDue' = [encryptDue EXCEPT ![i] = [h \in Handle |-> 0]]
  /\ ltkAsked' = [ltkAsked EXCEPT ![i] = {}]
  /\ cisAsked' = [cisAsked EXCEPT ![i] = {}]
  /\ UNCHANGED <<phase, turn, actions, nextHandle, stray>>

DrainDone ==
  /\ phase = "drain"
  /\ turn' = IF turn = N THEN 1 ELSE turn + 1
  /\ phase' = IF turn = N THEN "connect" ELSE "drain"
  /\ UNCHANGED <<actions, nextHandle, advertising, pending, conn, cis, hosts>>

HostCommand ==
  \E i \in Dev :
    \/ LeSetAdvEnable(i)
    \/ \E target \in Dev : LeCreateConnection(i, target)
    \/ LeCreateConnectionCancel(i)
    \/ \E h \in Handle :
         \/ \E interval \in Interval : LeConnectionUpdate(i, h, interval)
         \/ \E p \in PhyPrefs : LeSetPhy(i, h, p[1], p[2])
         \/ \E key \in Keys : LeEnableEncryption(i, h, key)
         \/ \E key \in Keys \cup {None} : LeLtkReply(i, h, key)
         \/ \E c \in CisHandles : LeCreateCis(i, h, c)
         \/ SendAcl(i, h)
         \/ Disconnect(i, h)
    \/ \E c \in CisHandles : LeAcceptCisRequest(i, c)
    \/ Reset(i)

--------------------------------------------------------------------------------
(***************************************************************************)
(* Connect: pending connections whose target is on air.                    *)
(***************************************************************************)

\* establish_connection: one handle, a link at both ends, the advertiser stops.
Establish(i, j) ==
  /\ nextHandle' = nextHandle + 1
  /\ conn' = [conn EXCEPT ![i][nextHandle] = [NoConn EXCEPT !.peer = j],
                          ![j][nextHandle] = [NoConn EXCEPT !.peer = i]]
  /\ advertising' = [advertising EXCEPT ![j] = FALSE]
  /\ pending' = [pending EXCEPT ![i] = None]
  /\ createDue' = [createDue EXCEPT ![i] = FALSE]

Connectable(i) ==
  pending[i] # None /\ advertising[pending[i]] /\ nextHandle <= MaxHandle

TickPendingConnect ==
  /\ phase = "connect"
  /\ turn' = IF turn = N THEN 1 ELSE turn + 1
  /\ phase' = IF turn = N THEN "route" ELSE "connect"
  /\ IF Connectable(turn)
     THEN Establish(turn, pending[turn])
     ELSE UNCHANGED <<nextHandle, conn, advertising, pending, createDue>>
  /\ UNCHANGED <<actions, cis, encryptDue, ltkAsked, cisAsked, stray>>

--------------------------------------------------------------------------------
(***************************************************************************)
(* Route: the deferred Actions, in order.  Each looks the other end up     *)
(* again with peer_of and does nothing when the link is gone.              *)
(***************************************************************************)

Now(op) ==
  /\ phase = "route"
  /\ actions # <<>>
  /\ Head(actions).op = op
  /\ actions' = Tail(actions)
  /\ UNCHANGED <<phase, turn, nextHandle, advertising, pending, createDue>>

From == Head(actions).from

On == Head(actions).handle

Arg == Head(actions).arg

PeerOf(i, h) == IF h \in Handle THEN conn[i][h].peer ELSE None

\* Both ends of From's link, as far as they hold it.
AtBothEnds(i, h) == {j \in {i, PeerOf(i, h)} : PeerOf(i, h) # None /\ Holds(j, h)}

RouteConnectionUpdate ==
  /\ Now("update")
  /\ conn' = [i \in Dev |-> IF i \in AtBothEnds(From, On)
                            THEN [conn[i] EXCEPT ![On].interval = Arg]
                            ELSE conn[i]]
  /\ UNCHANGED <<cis, encryptDue, ltkAsked, cisAsked, stray>>

\* Mutant of Swapped: the far end takes the near end's directions.
Unswapped(i, phys) == phys

\* One end's transmit direction is the other end's receive direction.
Swapped(i, phys) ==
  IF i = From THEN phys ELSE [phys EXCEPT !.tx = phys.rx, !.rx = phys.tx]

RoutePhyUpdate ==
  /\ Now("phy")
  /\ conn' = [i \in Dev |-> IF i \in AtBothEnds(From, On)
                            THEN [conn[i] EXCEPT ![On].tx = Swapped(i, Arg).tx,
                                                 ![On].rx = Swapped(i, Arg).rx]
                            ELSE conn[i]]
  /\ UNCHANGED <<cis, encryptDue, ltkAsked, cisAsked, stray>>

RouteLeEnableEncryption ==
  LET peer == PeerOf(From, On) IN
  /\ Now("encrypt")
  /\ IF peer # None
     THEN /\ conn' = [conn EXCEPT ![From][On].ltk = Arg]
          /\ ltkAsked' = [ltkAsked EXCEPT ![peer] = @ \cup {On}]
     ELSE UNCHANGED <<conn, ltkAsked>>
  /\ UNCHANGED <<cis, encryptDue, cisAsked, stray>>

KeyMatches(held, replied) == held = replied

EncryptedEnds(central) == {central, From}

\* The key the central named is taken whatever the answer; equal keys encrypt the
\* link, and without a key waiting the answer is to a question nobody put.
RouteLeLtkReply ==
  LET central == PeerOf(From, On)
      held == IF central = None THEN None ELSE conn[central][On].ltk
      encrypted == IF KeyMatches(held, Arg) THEN EncryptedEnds(central) ELSE {}
  IN
  /\ Now("ltkReply")
  /\ IF held = None
     THEN UNCHANGED <<conn, encryptDue>>
     ELSE /\ encryptDue' = [encryptDue EXCEPT ![central][On] = @ - 1]
          /\ conn' = [i \in Dev |->
               [conn[i] EXCEPT ![On].ltk = IF i = central THEN None ELSE @,
                               ![On].encrypted = @ \/ i \in encrypted]]
  /\ UNCHANGED <<cis, ltkAsked, cisAsked, stray>>

RouteCisRequest ==
  LET peer == PeerOf(From, On) IN
  /\ Now("cisRequest")
  /\ IF peer # None
     THEN /\ cis' = [cis EXCEPT ![peer] = Append(@, Stream(Arg, On))]
          /\ cisAsked' = [cisAsked EXCEPT ![peer] = @ \cup {Arg}]
     ELSE UNCHANGED <<cis, cisAsked>>
  /\ UNCHANGED <<conn, encryptDue, ltkAsked, stray>>

First(i, c) ==
  CHOOSE k \in DOMAIN cis[i] :
    cis[i][k].cis = c /\ \A m \in DOMAIN cis[i] : cis[i][m].cis = c => k <= m

\* Mutant of CisEnds: the accepting end alone.
CisNearEnd(i, h) == {i}

CisEnds(i, h) == {i, PeerOf(i, h)}

\* The accepted stream is found by its handle alone, at each end.
RouteCisAccept ==
  LET h == cis[From][First(From, Arg)].acl IN
  /\ Now("cisAccept")
  /\ cis' = IF Known(From, Arg) /\ PeerOf(From, h) # None
            THEN [i \in Dev |->
                    IF i \in CisEnds(From, h) /\ Known(i, Arg)
                    THEN [cis[i] EXCEPT ![First(i, Arg)].established = TRUE]
                    ELSE cis[i]]
            ELSE cis
  /\ UNCHANGED <<conn, encryptDue, ltkAsked, cisAsked, stray>>

\* route_acl: the packet goes to the peer of the link its header names.
RouteAcl ==
  /\ Now("acl")
  /\ stray' = (stray \/ (PeerOf(From, On) # None /\ PeerOf(From, On) # PeerOf(From, Arg)))
  /\ UNCHANGED <<conn, cis, encryptDue, ltkAsked, cisAsked>>

\* Mutant of StreamsLeft: streams outlive their link.
AllStreams(i, h) == cis[i]

StreamsLeft(i, h) == At(cis[i], {k \in DOMAIN cis[i] : cis[i][k].acl # h})

RouteDisconnect ==
  LET ends == {From, PeerOf(From, On)} IN
  /\ Now("disconnect")
  /\ IF None \notin ends
     THEN /\ conn' = [i \in Dev |-> IF i \in ends THEN [conn[i] EXCEPT ![On] = NoConn]
                                    ELSE conn[i]]
          /\ cis' = [i \in Dev |-> IF i \in ends THEN StreamsLeft(i, On) ELSE cis[i]]
          /\ ltkAsked' = [i \in Dev |-> IF i \in ends THEN ltkAsked[i] \ {On} ELSE ltkAsked[i]]
          /\ encryptDue' = [i \in Dev |-> IF i \in ends THEN [encryptDue[i] EXCEPT ![On] = 0]
                                          ELSE encryptDue[i]]
     ELSE UNCHANGED <<conn, cis, ltkAsked, encryptDue>>
  /\ UNCHANGED <<cisAsked, stray>>

RouteDone ==
  /\ phase = "route"
  /\ actions = <<>>
  /\ phase' = "drain"
  /\ UNCHANGED <<turn, actions, nextHandle, advertising, pending, conn, cis, hosts>>

Tick ==
  \/ DrainDone
  \/ TickPendingConnect
  \/ RouteConnectionUpdate
  \/ RoutePhyUpdate
  \/ RouteLeEnableEncryption
  \/ RouteLeLtkReply
  \/ RouteCisRequest
  \/ RouteCisAccept
  \/ RouteAcl
  \/ RouteDisconnect
  \/ RouteDone

Next == HostCommand \/ Tick

Spec == Init /\ [][Next]_vars

\* Link::tick is called in a loop; hosts owe it nothing.
FairSpec == Spec /\ WF_vars(Tick)

--------------------------------------------------------------------------------
(***************************************************************************)
(* Properties.                                                             *)
(***************************************************************************)

\* Two controllers that both hold a link agree on it: each is the other's peer, the
\* interval is the same, one's transmit PHY is the other's receive PHY, and both or
\* neither are encrypted, after any order of updates, replies, Disconnects and
\* Resets from both ends (route_connection_update, route_phy_update,
\* route_le_ltk_reply).
LinksAgree ==
  \A i \in Dev, h \in Handle :
    LET j == conn[i][h].peer IN
    j # None /\ Holds(j, h) =>
      /\ conn[j][h].peer = i
      /\ conn[j][h].interval = conn[i][h].interval
      /\ conn[j][h].tx = conn[i][h].rx
      /\ conn[j][h].encrypted = conn[i][h].encrypted

\* route_disconnect: "An isochronous stream is set up over an ACL link and cannot
\* outlive it".  Holds while no controller is Reset; a Reset end gets a stream
\* without a link, from a CIS Request routed along the link the other end kept.
CisRidesAcl ==
  \A i \in Dev : \A k \in DOMAIN cis[i] : Holds(i, cis[i][k].acl)

\* route_cis_accept: "establish the stream at both ends".  Holds while hosts choose
\* fresh stream handles; the stream is looked up by its handle alone, so two
\* centrals that chose the same one are mixed up.
CisMirrored ==
  \A i \in Dev : \A k \in DOMAIN cis[i] :
    cis[i][k].established =>
      LET j == PeerOf(i, cis[i][k].acl) IN
      j # None /\ Holds(j, cis[i][k].acl) =>
        \E m \in DOMAIN cis[j] : cis[j][m] = cis[i][k]

\* Violated.  A success Command Status "is a promise of an event to come": a host
\* that sent LE Create Connection has an attempt running.
CreatePromiseKept == \A i \in Dev : createDue[i] => pending[i] # None

\* Violated.  handle_security_command's table: LE Enable Encryption is answered
\* "Command Status, then LE Long Term Key Request at the peer, then Encryption
\* Change": at the end of a tick each one owed has a key waiting for its answer.
EncryptPromiseKept ==
  phase = "route" /\ actions = <<>> =>
    \A i \in Dev, h \in Handle :
      encryptDue[i][h] > 0 => encryptDue[i][h] = 1 /\ conn[i][h].ltk # None

\* Violated.  LE Set PHY's comment on a direction without preference, "in that case
\* the current PHY stays".
PhyKept ==
  [][ phase = "route" /\ actions # <<>> /\ Head(actions).op = "phy" =>
        /\ Arg.asked[1] = "any" => conn'[From][On].tx = conn[From][On].tx
        /\ Arg.asked[2] = "any" => conn'[From][On].rx = conn[From][On].rx ]_vars

\* Violated.  route_acl's comment, "Forward an ACL packet from `from` to the peer on
\* `handle`": no packet reaches anybody but the other end of its link.
AclReachesPeer == ~stray

================================================================================
