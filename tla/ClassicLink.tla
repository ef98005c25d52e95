------------------------------ MODULE ClassicLink ------------------------------
(***************************************************************************)
(* The BR/EDR half of the in-process controller (controller/sim.rs): page  *)
(* and answer, the ACL and SCO links that come of it, Disconnect and       *)
(* Reset.                                                                  *)
(*                                                                         *)
(* Link::tick is one thread that runs in phases, and the phases are what   *)
(* make the code hard: a host's command is checked in the drain phase      *)
(* against the state of that moment, its cross-controller effect is queued *)
(* as an Action and applied in the route phase, and the paging phase runs  *)
(* between the two.  One step here is one command, one controller's turn   *)
(* of tick_paging, or one Action.                                          *)
(*                                                                         *)
(* A refused command (an error Command Status) changes no state and is     *)
(* left out.  The LMP exchange behind an answer always converges           *)
(* (controller/lmp.rs), so an accepted page becomes a link.                *)
(***************************************************************************)
EXTENDS Naturals, Sequences

CONSTANTS N,                  \* number of controllers on the medium
          PageTimeoutTicks,   \* PAGE_TIMEOUT_TICKS
          MaxHandle,          \* bound: an answer may accept while handles up to this are left
          MaxActions,         \* bound: Actions queued in one tick
          Ops                 \* the commands the hosts of this instance send

ASSUME NAssumption == N \in Nat \ {0}
ASSUME TimeoutAssumption == PageTimeoutTicks \in Nat \ {0}
ASSUME HandleAssumption == MaxHandle \in 1..65534
ASSUME BoundAssumption == MaxActions \in Nat

Dev == 1..N

None == 0

Handle == Nat \ {0}

\* A page nobody is running, and a synchronous request nobody is deciding on.
NoPage == [target |-> None, ticks |-> 0, reached |-> None]

NoSco == [initiator |-> None, acl |-> 0]

Conn == [handle : Handle, peer : Dev]

ScoLink == [handle : Handle, acl : Handle, peer : Dev]

Page == [target : Dev, ticks : 1..PageTimeoutTicks, reached : Dev \cup {None}]

Action ==
  [op : {"answerPage", "answerSco"}, from : Dev, arg : Dev, reject : BOOLEAN]
    \cup [op : {"scoSetup", "disconnect"}, from : Dev, arg : Handle, reject : BOOLEAN]

VARIABLES
  phase,       \* "drain", "page" or "route": where Link::tick is
  turn,        \* the controller whose loop iteration it is
  actions,     \* the effects deferred to the route phase, in order
  scan,        \* scan[i]: page scan enabled (Write Scan Enable)
  page,        \* page[i]: the page i is running
  inbound,     \* inbound[i]: initiator of the page i's host is deciding on
  conns,       \* conns[i]: the ACL links as controller i holds them
  inboundSco,  \* inboundSco[i]: the synchronous request i's host is deciding on
  sco,         \* sco[i]: the SCO links as controller i holds them
  nextHandle   \* the allocator shared by all links

\* What the hosts have been told: history the code does not keep.
VARIABLES
  told,        \* told[i]: handles host i has had a Complete for and no Disconnection
  createDue,   \* hosts owed the Connection Complete of a Create Connection
  answerDue,   \* hosts owed the completion of an Accept or Reject of this tick
  setupDue,    \* hosts owed the Synchronous Connection Complete of a Setup
  orphaned     \* handles whose link one end forgot by Reset

hosts == <<told, createDue, answerDue, setupDue, orphaned>>

vars == <<phase, turn, actions, scan, page, inbound, conns, inboundSco, sco,
          nextHandle, hosts>>

HandlesOf(i) == {c.handle : c \in conns[i]} \cup {s.handle : s \in sco[i]}

TypeOK ==
  /\ phase \in {"drain", "page", "route"}
  /\ turn \in Dev
  /\ actions \in Seq(Action)
  /\ scan \in [Dev -> BOOLEAN]
  /\ page \in [Dev -> Page \cup {NoPage}]
  /\ inbound \in [Dev -> Dev \cup {None}]
  /\ conns \in [Dev -> SUBSET Conn]
  /\ inboundSco \in [Dev -> [initiator : Dev, acl : Handle] \cup {NoSco}]
  /\ sco \in [Dev -> SUBSET ScoLink]
  /\ nextHandle \in Handle
  /\ told \in [Dev -> SUBSET Handle]
  /\ createDue \in SUBSET Dev
  /\ answerDue \in SUBSET Dev
  /\ setupDue \in SUBSET Dev
  /\ orphaned \in SUBSET Handle

Init ==
  /\ phase = "drain"
  /\ turn = 1
  /\ actions = <<>>
  /\ scan = [i \in Dev |-> FALSE]
  /\ page = [i \in Dev |-> NoPage]
  /\ inbound = [i \in Dev |-> None]
  /\ conns = [i \in Dev |-> {}]
  /\ inboundSco = [i \in Dev |-> NoSco]
  /\ sco = [i \in Dev |-> {}]
  /\ nextHandle = 1
  /\ told = [i \in Dev |-> {}]
  /\ createDue = {}
  /\ answerDue = {}
  /\ setupDue = {}
  /\ orphaned = {}

--------------------------------------------------------------------------------
(***************************************************************************)
(* Phase A, drain: handle_command on controller i's queue.                 *)
(***************************************************************************)

Draining(i, op) == phase = "drain" /\ turn = i /\ op \in Ops

Defer(i, op, arg, reject) ==
  /\ Len(actions) < MaxActions
  /\ actions' = Append(actions, [op |-> op, from |-> i, arg |-> arg, reject |-> reject])

\* The bound on handles: every queued Action may still take one.
MayAccept == nextHandle + Len(actions) <= MaxHandle

WriteScanEnable(i, on) ==
  /\ Draining(i, "scan")
  /\ scan' = [scan EXCEPT ![i] = on]
  /\ UNCHANGED <<phase, turn, actions, page, inbound, conns, inboundSco, sco,
                 nextHandle, hosts>>

\* Refused when a link to the target is already held or a page is running.  The
\* target may be the host's own address: such a page finds nobody.
CreateConnection(i, target) ==
  /\ Draining(i, "create")
  /\ \A c \in conns[i] : c.peer # target
  /\ page[i] = NoPage
  /\ page' = [page EXCEPT ![i] = [target |-> target, ticks |-> PageTimeoutTicks,
                                  reached |-> None]]
  /\ createDue' = createDue \cup {i}
  /\ UNCHANGED <<phase, turn, actions, scan, inbound, conns, inboundSco, sco,
                 nextHandle, told, answerDue, setupDue, orphaned>>

\* Mutant of CreateConnectionCancel: the host is not paid its completion.
CancelUnpaid(i) ==
  /\ Draining(i, "cancel")
  /\ page[i] # NoPage
  /\ page' = [page EXCEPT ![i] = NoPage]
  /\ UNCHANGED <<phase, turn, actions, scan, inbound, conns, inboundSco, sco,
                 nextHandle, hosts>>

\* The page goes, with the Connection Complete its host is owed.  The target's
\* inbound page stays.
CreateConnectionCancel(i) ==
  /\ Draining(i, "cancel")
  /\ page[i] # NoPage
  /\ page' = [page EXCEPT ![i] = NoPage]
  /\ createDue' = createDue \ {i}
  /\ UNCHANGED <<phase, turn, actions, scan, inbound, conns, inboundSco, sco,
                 nextHandle, told, answerDue, setupDue, orphaned>>

\* Accept or Reject Connection Request: a success Command Status now, the effect
\* in the route phase.
AnswerConnectionRequest(i, reject) ==
  /\ Draining(i, "answer")
  /\ inbound[i] # None
  /\ reject \/ MayAccept
  /\ Defer(i, "answerPage", inbound[i], reject)
  /\ answerDue' = answerDue \cup {i}
  /\ UNCHANGED <<phase, turn, scan, page, inbound, conns, inboundSco, sco,
                 nextHandle, told, createDue, setupDue, orphaned>>

SetupSynchronousConnection(i, acl) ==
  /\ Draining(i, "sco")
  /\ \E c \in conns[i] : c.handle = acl
  /\ \A s \in sco[i] : s.acl # acl
  /\ Defer(i, "scoSetup", acl, FALSE)
  /\ setupDue' = setupDue \cup {i}
  /\ UNCHANGED <<phase, turn, scan, page, inbound, conns, inboundSco, sco,
                 nextHandle, told, createDue, answerDue, orphaned>>

AnswerSynchronousRequest(i, reject) ==
  /\ Draining(i, "answerSco")
  /\ inboundSco[i] # NoSco
  /\ reject \/ MayAccept
  /\ Defer(i, "answerSco", inboundSco[i].initiator, reject)
  /\ answerDue' = answerDue \cup {i}
  /\ UNCHANGED <<phase, turn, scan, page, inbound, conns, inboundSco, sco,
                 nextHandle, told, createDue, setupDue, orphaned>>

\* The command is answered before the handle is looked up; a handle that names
\* nothing is dropped in the route phase.
Disconnect(i, handle) ==
  /\ Draining(i, "disconnect")
  /\ Defer(i, "disconnect", handle, FALSE)
  /\ UNCHANGED <<phase, turn, scan, page, inbound, conns, inboundSco, sco,
                 nextHandle, hosts>>

\* SimController::reset forgets this end's links and requests.  No other
\* controller is told.
Reset(i) ==
  /\ Draining(i, "reset")
  /\ scan' = [scan EXCEPT ![i] = FALSE]
  /\ page' = [page EXCEPT ![i] = NoPage]
  /\ inbound' = [inbound EXCEPT ![i] = None]
  /\ conns' = [conns EXCEPT ![i] = {}]
  /\ inboundSco' = [inboundSco EXCEPT ![i] = NoSco]
  /\ sco' = [sco EXCEPT ![i] = {}]
  /\ told' = [told EXCEPT ![i] = {}]
  /\ createDue' = createDue \ {i}
  /\ answerDue' = answerDue \ {i}
  /\ setupDue' = setupDue \ {i}
  /\ orphaned' = orphaned \cup HandlesOf(i)
  /\ UNCHANGED <<phase, turn, actions, nextHandle>>

\* Queue i is empty: the next controller's, or the paging phase.
DrainDone ==
  /\ phase = "drain"
  /\ turn' = IF turn = N THEN 1 ELSE turn + 1
  /\ phase' = IF turn = N THEN "page" ELSE "drain"
  /\ UNCHANGED <<actions, scan, page, inbound, conns, inboundSco, sco, nextHandle,
                 hosts>>

HostCommand ==
  \E i \in Dev :
    \/ \E on \in BOOLEAN : WriteScanEnable(i, on)
    \/ \E target \in Dev : CreateConnection(i, target)
    \/ CreateConnectionCancel(i)
    \/ \E reject \in BOOLEAN : AnswerConnectionRequest(i, reject)
    \/ \E acl \in HandlesOf(i) : SetupSynchronousConnection(i, acl)
    \/ \E reject \in BOOLEAN : AnswerSynchronousRequest(i, reject)
    \/ \E handle \in HandlesOf(i) : Disconnect(i, handle)
    \/ Reset(i)

--------------------------------------------------------------------------------
(***************************************************************************)
(* Phase C3, tick_paging: one controller's page per step, in index order.  *)
(***************************************************************************)

\* The page finds a controller that scans and whose host is not already
\* deciding on one, and raises a Connection Request there (deliver_page).
Reaches(i) ==
  LET t == page[i].target IN
  /\ page[i].reached = None
  /\ t # i
  /\ scan[t]
  /\ inbound[t] = None

ReachedBy(i) == IF Reaches(i) THEN page[i].target ELSE page[i].reached

TicksLeft(i) == page[i].ticks - 1

\* Mutant of Expired: one tick late.
ExpiredLate(left) == left + 1 = 0

Expired(left) == left = 0

\* The page is on a clock whether or not it landed.  The last tick takes the
\* page and the Connection Request it raised, and pays the Connection Complete.
TickPaging ==
  LET i == turn
      reached == ReachedBy(i)
      expires == Expired(TicksLeft(i))
  IN
  /\ phase = "page"
  /\ IF page[i] = NoPage
     THEN UNCHANGED <<page, inbound, createDue>>
     ELSE /\ page' = [page EXCEPT ![i] =
                        IF expires THEN NoPage
                        ELSE [@ EXCEPT !.ticks = TicksLeft(i), !.reached = reached]]
          /\ inbound' = IF reached = None THEN inbound
                        ELSE [inbound EXCEPT ![reached] =
                                IF expires THEN None
                                ELSE IF Reaches(i) THEN i ELSE @]
          /\ createDue' = IF expires THEN createDue \ {i} ELSE createDue
  /\ turn' = IF i = N THEN 1 ELSE i + 1
  /\ phase' = IF i = N THEN "route" ELSE "page"
  /\ UNCHANGED <<actions, scan, conns, inboundSco, sco, nextHandle, told, answerDue,
                 setupDue, orphaned>>

--------------------------------------------------------------------------------
(***************************************************************************)
(* Phase D, route: the queued Actions, in the order they were queued.      *)
(***************************************************************************)

Routing(op) ==
  /\ phase = "route"
  /\ actions # <<>>
  /\ Head(actions).op = op
  /\ actions' = Tail(actions)
  /\ UNCHANGED <<phase, turn, scan>>

\* Mutant of AllocHandle: the same handle again.
AllocSame == UNCHANGED nextHandle

\* alloc_handle counts up in 16 bits; MayAccept keeps clear of the wrap.
AllocHandle == nextHandle' = nextHandle + 1

\* peer_of: the far end of controller i's ACL link `handle`.
PeerOf(i, handle) == {c.peer : c \in {d \in conns[i] : d.handle = handle}}

ScoPeerOf(i, handle) == {s.peer : s \in {t \in sco[i] : t.handle = handle}}

\* An answer that matches no inbound page, or whose initiator no longer runs a
\* page that reached this controller, ends without an event.
AnswerMatches(from, initiator) ==
  /\ inbound[from] = initiator
  /\ page[initiator].reached = from

RouteAnswerUnmatched ==
  LET from == Head(actions).from
      initiator == Head(actions).arg
  IN
  /\ Routing("answerPage")
  /\ ~AnswerMatches(from, initiator)
  /\ inbound' = IF inbound[from] = initiator THEN [inbound EXCEPT ![from] = None]
                ELSE inbound
  /\ UNCHANGED <<page, conns, inboundSco, sco, nextHandle, hosts>>

\* A matched answer takes the page at both ends and pays both hosts; an accepted
\* one records the link at both.
RouteAnswerPage ==
  LET from == Head(actions).from
      initiator == Head(actions).arg
      reject == Head(actions).reject
  IN
  /\ Routing("answerPage")
  /\ AnswerMatches(from, initiator)
  /\ inbound' = [inbound EXCEPT ![from] = None]
  /\ page' = [page EXCEPT ![initiator] = NoPage]
  /\ createDue' = createDue \ {initiator}
  /\ answerDue' = answerDue \ {from}
  /\ IF reject
     THEN UNCHANGED <<conns, told, nextHandle>>
     ELSE /\ AllocHandle
          /\ conns' = [conns EXCEPT
               ![initiator] = @ \cup {[handle |-> nextHandle, peer |-> from]},
               ![from] = @ \cup {[handle |-> nextHandle, peer |-> initiator]}]
          /\ told' = [told EXCEPT ![initiator] = @ \cup {nextHandle},
                                  ![from] = @ \cup {nextHandle}]
  /\ UNCHANGED <<inboundSco, sco, setupDue, orphaned>>

\* The ACL is gone, or the peer is busy with another synchronous request or has
\* a link with us up: refused at once.  Otherwise the peer's host is asked.
RouteScoSetup ==
  LET from == Head(actions).from
      acl == Head(actions).arg
      asked == {p \in PeerOf(from, acl) :
                  inboundSco[p] = NoSco /\ \A s \in sco[p] : s.peer # from}
  IN
  /\ Routing("scoSetup")
  /\ inboundSco' = [p \in Dev |-> IF p \in asked
                                  THEN [initiator |-> from, acl |-> acl]
                                  ELSE inboundSco[p]]
  /\ setupDue' = IF asked = {} THEN setupDue \ {from} ELSE setupDue
  /\ UNCHANGED <<page, inbound, conns, sco, nextHandle, told, createDue, answerDue,
                 orphaned>>

\* route_sco_answer: dropped when the request is gone or is another's; refused
\* when the host says so or the initiator's ACL has gone; else the link is up at
\* both ends on a handle of its own.
RouteScoAnswer ==
  LET from == Head(actions).from
      initiator == Head(actions).arg
      acl == inboundSco[from].acl
  IN
  /\ Routing("answerSco")
  /\ IF inboundSco[from].initiator # initiator
     THEN UNCHANGED <<inboundSco, sco, nextHandle, told, answerDue, setupDue>>
     ELSE /\ inboundSco' = [inboundSco EXCEPT ![from] = NoSco]
          /\ answerDue' = answerDue \ {from}
          /\ setupDue' = setupDue \ {initiator}
          /\ IF Head(actions).reject \/ from \notin PeerOf(initiator, acl)
             THEN UNCHANGED <<sco, nextHandle, told>>
             ELSE /\ AllocHandle
                  /\ sco' = [sco EXCEPT
                       ![initiator] = @ \cup {[handle |-> nextHandle, acl |-> acl,
                                               peer |-> from]},
                       ![from] = @ \cup {[handle |-> nextHandle, acl |-> acl,
                                          peer |-> initiator]}]
                  /\ told' = [told EXCEPT ![initiator] = @ \cup {nextHandle},
                                          ![from] = @ \cup {nextHandle}]
  /\ UNCHANGED <<page, inbound, conns, createDue, orphaned>>

\* Mutant of DropSco: only the host that asked is told.
DropScoHalfTold(ends, handles) ==
  /\ sco' = [i \in Dev |-> IF i \in ends
                           THEN {s \in sco[i] : s.handle \notin handles} ELSE sco[i]]
  /\ told' = [i \in Dev |-> IF i = Head(actions).from THEN told[i] \ handles
                            ELSE told[i]]

\* A Disconnection Complete for each of `handles` at each of `ends`, and the SCO
\* links among them gone there.
DropSco(ends, handles) ==
  /\ sco' = [i \in Dev |-> IF i \in ends
                           THEN {s \in sco[i] : s.handle \notin handles} ELSE sco[i]]
  /\ told' = [i \in Dev |-> IF i \in ends THEN told[i] \ handles ELSE told[i]]

\* Hanging up the audio leaves the ACL alone.
RouteScoDisconnect ==
  LET from == Head(actions).from
      handle == Head(actions).arg
  IN
  /\ Routing("disconnect")
  /\ ScoPeerOf(from, handle) # {}
  /\ DropSco({from} \cup ScoPeerOf(from, handle), {handle})
  /\ UNCHANGED <<page, inbound, conns, inboundSco, nextHandle, createDue, answerDue,
                 setupDue, orphaned>>

\* Mutant of EndsOf: the far end keeps its half of the link.
NearEnd(from, handle) == {from}

EndsOf(from, handle) == {from} \cup PeerOf(from, handle)

\* Mutant of RidingOn: the SCO links are left behind.
NothingRiding(from, handle) == {}

RidingOn(from, handle) == {s.handle : s \in {t \in sco[from] : t.acl = handle}}

\* Mutant of ClearRequests: the request outlives its ACL.
KeepRequests(ends, handle) == UNCHANGED inboundSco

ClearRequests(ends, handle) ==
  inboundSco' = [i \in Dev |-> IF i \in ends /\ inboundSco[i].acl = handle
                               THEN NoSco ELSE inboundSco[i]]

\* The ACL takes its SCO links with it, each with its own Disconnection Complete,
\* and the synchronous request not yet answered, without a completion.
RouteDisconnect ==
  LET from == Head(actions).from
      handle == Head(actions).arg
      ends == EndsOf(from, handle)
  IN
  /\ Routing("disconnect")
  /\ ScoPeerOf(from, handle) = {}
  /\ IF PeerOf(from, handle) = {}
     THEN UNCHANGED <<conns, sco, inboundSco, told>>
     ELSE /\ conns' = [i \in Dev |-> IF i \in ends
                                     THEN {c \in conns[i] : c.handle # handle}
                                     ELSE conns[i]]
          /\ DropSco(ends, RidingOn(from, handle) \cup {handle})
          /\ ClearRequests(ends, handle)
  /\ UNCHANGED <<page, inbound, nextHandle, createDue, answerDue, setupDue, orphaned>>

\* The queue is empty: outboxes are flushed and the next tick begins.
RouteDone ==
  /\ phase = "route"
  /\ actions = <<>>
  /\ phase' = "drain"
  /\ answerDue' = {}
  /\ UNCHANGED <<turn, actions, scan, page, inbound, conns, inboundSco, sco,
                 nextHandle, told, createDue, setupDue, orphaned>>

Tick ==
  \/ DrainDone
  \/ TickPaging
  \/ RouteAnswerUnmatched
  \/ RouteAnswerPage
  \/ RouteScoSetup
  \/ RouteScoAnswer
  \/ RouteScoDisconnect
  \/ RouteDisconnect
  \/ RouteDone

Next == HostCommand \/ Tick

Spec == Init /\ [][Next]_vars

\* Each tick drains a finite queue and then runs to its end.
FairSpec == Spec /\ WF_vars(Tick)

--------------------------------------------------------------------------------
(***************************************************************************)
(* Properties that hold.                                                   *)
(***************************************************************************)

\* A host is owed a Connection Complete for its Create Connection exactly while
\* its controller still runs the page that can produce it: no completion is
\* forgotten, and none is sent twice (Create Connection, Cancel, tick_paging and
\* route_classic_answer_page each pay it).
CreatePromiseKept == \A i \in Dev : i \in createDue <=> page[i] # NoPage

\* The links a host has been told of are the links its controller holds, ACL and
\* SCO alike: no link comes up or goes down without its event, whichever end and
\* whichever command caused it.
HostToldOfLinks == \A i \in Dev : told[i] = HandlesOf(i)

\* A link is held at both ends or at neither, unless one end was Reset: every
\* path that makes or breaks a link touches both controllers.
LinksMirrored ==
  /\ \A i \in Dev : \A c \in conns[i] :
       c.handle \in orphaned \/ [handle |-> c.handle, peer |-> i] \in conns[c.peer]
  /\ \A i \in Dev : \A s \in sco[i] :
       s.handle \in orphaned
         \/ [handle |-> s.handle, acl |-> s.acl, peer |-> i] \in sco[s.peer]

\* One handle names one link: the ACL and SCO links of a controller, which come
\* out of one allocator, are told apart by handle alone (peer_of, sco_peer_of).
HandlesUnique ==
  \A i \in Dev :
    /\ \A c, d \in conns[i] : c.handle = d.handle => c = d
    /\ \A s, t \in sco[i] : s.handle = t.handle => s = t
    /\ \A c \in conns[i], s \in sco[i] : c.handle # s.handle

\* A SCO link "cannot outlive its ACL": while a controller holds one it holds the
\* ACL below it, to the same peer, unless an end of that ACL was Reset.
ScoRidesAcl ==
  \A i \in Dev : \A s \in sco[i] :
    s.acl \in orphaned \/ [handle |-> s.acl, peer |-> s.peer] \in conns[i]

\* A synchronous request a host is deciding on is for an ACL its controller still
\* holds to the asking peer, unless that ACL lost an end to Reset: an Accept
\* cannot answer the last peer's request (route_disconnect clears it).
InboundScoLive ==
  \A i \in Dev : inboundSco[i] # NoSco =>
    \/ inboundSco[i].acl \in orphaned
    \/ [handle |-> inboundSco[i].acl, peer |-> inboundSco[i].initiator] \in conns[i]

\* Every Create Connection is answered in the end: a target that never scans, a
\* host that never answers, and a page to oneself all end in a completion.
PageTerminates == \A i \in Dev : (i \in createDue) ~> (i \notin createDue)

--------------------------------------------------------------------------------
(***************************************************************************)
(* What the comments of controller/sim.rs say, and the code does not keep. *)
(***************************************************************************)

\* "Take back the Connection Request we raised: its page is gone, so an Accept
\* arriving later must find nothing": a host is deciding only on a page that is
\* still running and that reached it.
InboundHasPage ==
  \A i \in Dev : inbound[i] # None => page[inbound[i]].reached = i

\* "BR/EDR allows exactly one ACL link between a pair of devices; a second Create
\* Connection is refused rather than silently making a parallel one."
OneAclPerPair == \A i \in Dev : \A c, d \in conns[i] : c.peer = d.peer => c = d

\* "A Command Status is a promise of an event to come": when the tick is over, no
\* host that answered a request in it is without its completion.
AnswerPromiseKept == phase = "route" /\ actions = <<>> => answerDue = {}

\* The same promise for Setup Synchronous Connection: a host still owed its
\* Synchronous Connection Complete at the end of a tick has a peer deciding.
SetupPromiseKept ==
  phase = "route" /\ actions = <<>> =>
    \A i \in setupDue : \E j \in Dev : inboundSco[j].initiator = i

\* "Take back the Connection Request we raised": a page that expires leaves the
\* Connection Requests of other initiators alone.
TakesBackItsOwn ==
  [][\A i, j \in Dev :
       phase = "page" /\ turn = i /\ inbound[j] \notin {None, i}
         => inbound'[j] = inbound[j]]_vars

\* "It cannot outlive its ACL", with no exception for Reset.
ScoAlwaysRidesAcl ==
  \A i \in Dev : \A s \in sco[i] : [handle |-> s.acl, peer |-> s.peer] \in conns[i]

================================================================================
