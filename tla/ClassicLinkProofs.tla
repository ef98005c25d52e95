--------------------------- MODULE ClassicLinkProofs ---------------------------
(***************************************************************************)
(* Proofs about ClassicLink for any number of controllers, any page        *)
(* timeout, any bound on handles and queued Actions and any set of         *)
(* commands.                                                               *)
(*                                                                         *)
(* The properties the runs check are not inductive one by one.  What they  *)
(* need is a discipline of handles across all controllers: a handle is     *)
(* given out once, to one kind of link, between one pair of controllers.   *)
(***************************************************************************)
EXTENDS ClassicLink, TLAPS

\* Every handle in use, or once in use, came out of the allocator.
HandlesAllocated ==
  /\ \A i \in Dev : \A c \in conns[i] : c.handle < nextHandle
  /\ \A i \in Dev : \A s \in sco[i] : s.handle < nextHandle /\ s.acl < nextHandle
  /\ \A h \in orphaned : h < nextHandle

\* No handle names an ACL link at one controller and a SCO link at another.
KindsApart ==
  \A i, j \in Dev : \A c \in conns[i], s \in sco[j] : c.handle # s.handle

\* An ACL handle belongs to one pair of controllers, and a SCO handle to one pair
\* on one ACL.
AclPair ==
  \A i, j \in Dev : \A c \in conns[i], d \in conns[j] :
    c.handle = d.handle => \/ i = j /\ c = d
                           \/ c.peer = j /\ d.peer = i

ScoPair ==
  \A i, j \in Dev : \A s \in sco[i], t \in sco[j] :
    s.handle = t.handle => /\ s.acl = t.acl
                           /\ \/ i = j /\ s = t
                              \/ s.peer = j /\ t.peer = i

\* A SCO link runs between the ends of its ACL.
ScoPeerIsAclPeer ==
  \A i \in Dev : \A s \in sco[i], c \in conns[i] : c.handle = s.acl => c.peer = s.peer

\* A SCO link loses an end to Reset only together with its ACL.
OrphanedTogether ==
  \A i \in Dev : \A s \in sco[i] : s.handle \in orphaned => s.acl \in orphaned

Discipline ==
  /\ HandlesAllocated
  /\ KindsApart
  /\ AclPair
  /\ ScoPair
  /\ ScoPeerIsAclPeer
  /\ OrphanedTogether

Inv == TypeOK /\ Discipline /\ LinksMirrored /\ ScoRidesAcl /\ InboundScoLive

links == <<conns, sco, orphaned, nextHandle, inboundSco>>
--------------------------------------------------------------------------------
(***************************************************************************)
(* Types.                                                                  *)
(***************************************************************************)

\* The handles a controller holds are handles.
LEMMA HandlesAreHandles ==
  ASSUME TypeOK, NEW i \in Dev
  PROVE  HandlesOf(i) \subseteq Handle
BY DEF TypeOK, HandlesOf, Conn, ScoLink

\* Queueing an Action keeps the queue a queue of Actions.
LEMMA DeferType ==
  ASSUME TypeOK, NEW i \in Dev, NEW op, NEW arg, NEW reject \in BOOLEAN,
         \/ op \in {"answerPage", "answerSco"} /\ arg \in Dev
         \/ op \in {"scoSetup", "disconnect"} /\ arg \in Handle,
         Defer(i, op, arg, reject)
  PROVE  actions' \in Seq(Action)
<1> DEFINE a == [op |-> op, from |-> i, arg |-> arg, reject |-> reject]
<1>1. a \in Action
  BY DEF Action
<1>2. actions' = Append(actions, a) /\ actions \in Seq(Action)
  BY DEF Defer, TypeOK
<1> HIDE DEF a
<1> QED BY <1>1, <1>2

\* What is at the head of the queue is an Action of the kind it says.
LEMMA RoutingType ==
  ASSUME TypeOK, NEW op, Routing(op)
  PROVE  /\ actions' \in Seq(Action)
         /\ Head(actions).from \in Dev
         /\ op \in {"answerPage", "answerSco"} => Head(actions).arg \in Dev
         /\ op \in {"scoSetup", "disconnect"} => Head(actions).arg \in Handle
<1>1. actions \in Seq(Action) /\ actions # <<>> /\ Head(actions).op = op
  BY DEF TypeOK, Routing
<1>2. Head(actions) \in Action /\ Tail(actions) \in Seq(Action)
  BY <1>1
<1>3. actions' = Tail(actions)
  BY DEF Routing
<1> QED BY <1>1, <1>2, <1>3 DEF Action

LEMMA TypeInit == Init => TypeOK
BY NAssumption DEF Init, TypeOK, Dev, Handle, NoPage, NoSco

LEMMA TypeCommand == TypeOK /\ HostCommand => TypeOK'
<1> SUFFICES ASSUME TypeOK, NEW i \in Dev,
               \/ \E on \in BOOLEAN : WriteScanEnable(i, on)
               \/ \E target \in Dev : CreateConnection(i, target)
               \/ CreateConnectionCancel(i)
               \/ \E reject \in BOOLEAN : AnswerConnectionRequest(i, reject)
               \/ \E acl \in HandlesOf(i) : SetupSynchronousConnection(i, acl)
               \/ \E reject \in BOOLEAN : AnswerSynchronousRequest(i, reject)
               \/ \E handle \in HandlesOf(i) : Disconnect(i, handle)
               \/ Reset(i)
             PROVE  TypeOK'
  BY DEF HostCommand
<1>1. CASE \E on \in BOOLEAN : WriteScanEnable(i, on)
  BY <1>1 DEF TypeOK, WriteScanEnable, hosts
<1>2. CASE \E target \in Dev : CreateConnection(i, target)
  <2> PICK target \in Dev : CreateConnection(i, target)
    BY <1>2
  <2>1. [target |-> target, ticks |-> PageTimeoutTicks, reached |-> None] \in Page
    BY TimeoutAssumption DEF Page
  <2> QED BY <2>1 DEF TypeOK, CreateConnection
<1>3. CASE CreateConnectionCancel(i)
  BY <1>3 DEF TypeOK, CreateConnectionCancel
<1>4. CASE \E reject \in BOOLEAN : AnswerConnectionRequest(i, reject)
  <2> PICK reject \in BOOLEAN : AnswerConnectionRequest(i, reject)
    BY <1>4
  <2>1. inbound[i] \in Dev /\ Defer(i, "answerPage", inbound[i], reject)
    BY DEF TypeOK, AnswerConnectionRequest
  <2>2. actions' \in Seq(Action)
    BY <2>1, DeferType
  <2> QED BY <2>2 DEF TypeOK, AnswerConnectionRequest
<1>5. CASE \E acl \in HandlesOf(i) : SetupSynchronousConnection(i, acl)
  <2> PICK acl \in HandlesOf(i) : SetupSynchronousConnection(i, acl)
    BY <1>5
  <2>1. acl \in Handle /\ Defer(i, "scoSetup", acl, FALSE)
    BY HandlesAreHandles DEF SetupSynchronousConnection
  <2>2. actions' \in Seq(Action)
    BY <2>1, DeferType
  <2> QED BY <2>2 DEF TypeOK, SetupSynchronousConnection
<1>6. CASE \E reject \in BOOLEAN : AnswerSynchronousRequest(i, reject)
  <2> PICK reject \in BOOLEAN : AnswerSynchronousRequest(i, reject)
    BY <1>6
  <2>1. /\ inboundSco[i].initiator \in Dev
        /\ Defer(i, "answerSco", inboundSco[i].initiator, reject)
    BY DEF TypeOK, AnswerSynchronousRequest
  <2>2. actions' \in Seq(Action)
    BY <2>1, DeferType
  <2> QED BY <2>2 DEF TypeOK, AnswerSynchronousRequest
<1>7. CASE \E handle \in HandlesOf(i) : Disconnect(i, handle)
  <2> PICK handle \in HandlesOf(i) : Disconnect(i, handle)
    BY <1>7
  <2>1. handle \in Handle /\ Defer(i, "disconnect", handle, FALSE)
    BY HandlesAreHandles DEF Disconnect
  <2>2. actions' \in Seq(Action)
    BY <2>1, DeferType
  <2> QED BY <2>2 DEF TypeOK, Disconnect, hosts
<1>8. CASE Reset(i)
  <2>1. HandlesOf(i) \subseteq Handle
    BY HandlesAreHandles
  <2> QED BY <1>8, <2>1 DEF TypeOK, Reset
<1> QED BY <1>1, <1>2, <1>3, <1>4, <1>5, <1>6, <1>7, <1>8

LEMMA TypeTick == TypeOK /\ Tick => TypeOK'
<1> SUFFICES ASSUME TypeOK, Tick
             PROVE  TypeOK'
  OBVIOUS
<1> DEFINE from == Head(actions).from
           arg == Head(actions).arg
<1>1. CASE DrainDone
  BY <1>1, NAssumption DEF TypeOK, DrainDone, hosts, Dev
<1>2. CASE TickPaging
  <2>1. turn' \in Dev /\ phase' \in {"drain", "page", "route"}
    BY <1>2, NAssumption DEF TypeOK, TickPaging, Dev
  <2>2. CASE page[turn] = NoPage
    BY <1>2, <2>1, <2>2 DEF TypeOK, TickPaging
  <2>3. CASE page[turn] # NoPage
    <3>1. page[turn] \in Page /\ turn \in Dev
      BY <2>3 DEF TypeOK
    <3>2. ReachedBy(turn) \in Dev \cup {None}
      BY <3>1 DEF ReachedBy, Page
    <3>3. ~Expired(TicksLeft(turn)) => TicksLeft(turn) \in 1..PageTimeoutTicks
      BY <3>1, TimeoutAssumption DEF Expired, TicksLeft, Page
    <3>4. page' \in [Dev -> Page \cup {NoPage}]
      <4>1. page' = [page EXCEPT ![turn] =
                       IF Expired(TicksLeft(turn)) THEN NoPage
                       ELSE [@ EXCEPT !.ticks = TicksLeft(turn),
                                      !.reached = ReachedBy(turn)]]
        BY <1>2, <2>3 DEF TickPaging
      <4>2. ~Expired(TicksLeft(turn)) =>
              [page[turn] EXCEPT !.ticks = TicksLeft(turn),
                                 !.reached = ReachedBy(turn)] \in Page
        BY <3>1, <3>2, <3>3 DEF Page
      <4> QED BY <4>1, <4>2, <3>1 DEF TypeOK
    <3>5. inbound' \in [Dev -> Dev \cup {None}]
      BY <1>2, <2>3, <3>1, <3>2 DEF TypeOK, TickPaging
    <3>6. createDue' \in SUBSET Dev
      BY <1>2, <2>3 DEF TypeOK, TickPaging
    <3> QED BY <1>2, <2>1, <3>4, <3>5, <3>6 DEF TypeOK, TickPaging
  <2> QED BY <2>2, <2>3
<1>3. CASE RouteAnswerUnmatched
  <2>1. actions' \in Seq(Action) /\ from \in Dev
    BY <1>3, RoutingType DEF RouteAnswerUnmatched
  <2> QED BY <1>3, <2>1 DEF TypeOK, RouteAnswerUnmatched, Routing, hosts
<1>4. CASE RouteAnswerPage
  <2>1. actions' \in Seq(Action) /\ from \in Dev /\ arg \in Dev
    BY <1>4, RoutingType DEF RouteAnswerPage
  <2>2. conns' \in [Dev -> SUBSET Conn] /\ told' \in [Dev -> SUBSET Handle]
    <3>1. /\ [handle |-> nextHandle, peer |-> from] \in Conn
          /\ [handle |-> nextHandle, peer |-> arg] \in Conn
          /\ nextHandle \in Handle
      BY <2>1 DEF TypeOK, Conn
    <3> QED BY <1>4, <2>1, <3>1 DEF TypeOK, RouteAnswerPage
  <2>3. nextHandle' \in Handle
    BY <1>4 DEF TypeOK, RouteAnswerPage, AllocHandle, Handle
  <2> QED BY <1>4, <2>1, <2>2, <2>3 DEF TypeOK, RouteAnswerPage, Routing
<1>5. CASE RouteScoSetup
  <2>1. actions' \in Seq(Action) /\ from \in Dev /\ arg \in Handle
    BY <1>5, RoutingType DEF RouteScoSetup
  <2>2. inboundSco' \in [Dev -> [initiator : Dev, acl : Handle] \cup {NoSco}]
    BY <1>5, <2>1 DEF TypeOK, RouteScoSetup
  <2> QED BY <1>5, <2>1, <2>2 DEF TypeOK, RouteScoSetup, Routing
<1>6. CASE RouteScoAnswer
  <2>1. actions' \in Seq(Action) /\ from \in Dev /\ arg \in Dev
    BY <1>6, RoutingType DEF RouteScoAnswer
  <2>2. inboundSco[from].initiator = arg => inboundSco[from].acl \in Handle
    BY <2>1, NAssumption DEF TypeOK, NoSco, None, Dev
  <2>3. sco' \in [Dev -> SUBSET ScoLink] /\ told' \in [Dev -> SUBSET Handle]
    <3> DEFINE new(p) == [handle |-> nextHandle, acl |-> inboundSco[from].acl,
                          peer |-> p]
    <3>1. CASE UNCHANGED <<sco, told>>
      BY <3>1 DEF TypeOK
    <3>2. CASE /\ inboundSco[from].initiator = arg
               /\ sco' = [sco EXCEPT ![arg] = @ \cup {new(from)},
                                     ![from] = @ \cup {new(arg)}]
               /\ told' = [told EXCEPT ![arg] = @ \cup {nextHandle},
                                       ![from] = @ \cup {nextHandle}]
      <4>1. new(from) \in ScoLink /\ new(arg) \in ScoLink /\ nextHandle \in Handle
        BY <2>1, <2>2, <3>2 DEF TypeOK, ScoLink
      <4> HIDE DEF new
      <4> QED BY <2>1, <3>2, <4>1 DEF TypeOK
    <3> QED BY <1>6, <3>1, <3>2 DEF RouteScoAnswer
  <2>4. nextHandle' \in Handle
    BY <1>6 DEF TypeOK, RouteScoAnswer, AllocHandle, Handle
  <2> QED BY <1>6, <2>1, <2>3, <2>4 DEF TypeOK, RouteScoAnswer, Routing
<1>7. CASE RouteScoDisconnect
  <2>1. actions' \in Seq(Action)
    BY <1>7, RoutingType DEF RouteScoDisconnect
  <2>2. sco' \in [Dev -> SUBSET ScoLink] /\ told' \in [Dev -> SUBSET Handle]
    BY <1>7 DEF TypeOK, RouteScoDisconnect, DropSco
  <2> QED BY <1>7, <2>1, <2>2 DEF TypeOK, RouteScoDisconnect, Routing
<1>8. CASE RouteDisconnect
  <2>1. actions' \in Seq(Action)
    BY <1>8, RoutingType DEF RouteDisconnect
  <2>2. conns' \in [Dev -> SUBSET Conn]
    BY <1>8 DEF TypeOK, RouteDisconnect
  <2>3. sco' \in [Dev -> SUBSET ScoLink] /\ told' \in [Dev -> SUBSET Handle]
    BY <1>8 DEF TypeOK, RouteDisconnect, DropSco
  <2>4. inboundSco' \in [Dev -> [initiator : Dev, acl : Handle] \cup {NoSco}]
    BY <1>8 DEF TypeOK, RouteDisconnect, ClearRequests
  <2> QED BY <1>8, <2>1, <2>2, <2>3, <2>4 DEF TypeOK, RouteDisconnect, Routing
<1>9. CASE RouteDone
  BY <1>9 DEF TypeOK, RouteDone
<1> QED BY <1>1, <1>2, <1>3, <1>4, <1>5, <1>6, <1>7, <1>8, <1>9 DEF Tick

\* The controller's state keeps its types: no queued Action names a controller
\* or a handle that cannot exist, and no page is left with its clock run out.
THEOREM TypeCorrect == Spec => []TypeOK
<1>1. Init => TypeOK
  BY TypeInit
<1>2. TypeOK /\ [Next]_vars => TypeOK'
  <2>1. TypeOK /\ UNCHANGED vars => TypeOK'
    BY DEF TypeOK, vars, hosts
  <2> QED BY <2>1, TypeCommand, TypeTick DEF Next
<1> QED BY <1>1, <1>2, PTL DEF Spec

--------------------------------------------------------------------------------
(***************************************************************************)
(* Links.  Only five steps touch them; the rest leave `links` alone.       *)
(***************************************************************************)

LEMMA InvUnchanged == Inv /\ TypeOK' /\ UNCHANGED links => Inv'
BY DEF Inv, links, Discipline, HandlesAllocated, KindsApart, AclPair, ScoPair,
       ScoPeerIsAclPeer, OrphanedTogether, LinksMirrored, ScoRidesAcl, InboundScoLive

\* Adding one element at each of two controllers.
LEMMA AddedAtBoth ==
  ASSUME NEW S, NEW f \in [Dev -> SUBSET S], NEW a \in Dev, NEW b \in Dev,
         NEW x, NEW y, NEW g,
         g = [f EXCEPT ![a] = @ \cup {x}, ![b] = @ \cup {y}]
  PROVE  \A i \in Dev : \A e :
           e \in g[i] <=> (e \in f[i] \/ (i = a /\ e = x) \/ (i = b /\ e = y))
<1>1. ASSUME NEW i \in Dev
      PROVE  g[i] = f[i] \cup (IF i = a THEN {x} ELSE {}) \cup (IF i = b THEN {y} ELSE {})
  OBVIOUS
<1> QED BY <1>1

\* An accepted page: one fresh handle, at both ends.
LEMMA AddAcl ==
  ASSUME Inv, TypeOK', NEW a \in Dev, NEW b \in Dev, NEW ca, NEW cb,
         ca = [handle |-> nextHandle, peer |-> b],
         cb = [handle |-> nextHandle, peer |-> a],
         \A i \in Dev : \A c :
           c \in conns'[i] <=> (c \in conns[i] \/ (i = a /\ c = ca) \/ (i = b /\ c = cb)),
         nextHandle' = nextHandle + 1,
         UNCHANGED <<sco, orphaned, inboundSco>>
  PROVE  Inv'
<1>1. \A i \in Dev : \A c :
        c \in conns'[i] <=> (c \in conns[i] \/ (i = a /\ c = ca) \/ (i = b /\ c = cb))
  OBVIOUS
<1>2. ca.handle = nextHandle /\ ca.peer = b /\ cb.handle = nextHandle /\ cb.peer = a
  OBVIOUS
<1>3. nextHandle \in Nat /\ \A h \in Nat : h < nextHandle => h < nextHandle' /\ h # nextHandle
  BY DEF Inv, TypeOK, Handle
<1>4. /\ \A i \in Dev : \A c \in conns[i] : c.handle \in Nat /\ c.handle < nextHandle
      /\ \A i \in Dev : \A s \in sco[i] : /\ s.handle \in Nat /\ s.handle < nextHandle
                                          /\ s.acl \in Nat /\ s.acl < nextHandle
      /\ \A h \in orphaned : h \in Nat /\ h < nextHandle
  BY DEF Inv, TypeOK, Conn, ScoLink, Handle, Discipline, HandlesAllocated
<1>5. nextHandle < nextHandle'
  BY <1>3
<1>6. HandlesAllocated'
  BY <1>1, <1>2, <1>3, <1>4, <1>5 DEF HandlesAllocated
<1>7. KindsApart'
  BY <1>1, <1>2, <1>3, <1>4 DEF Inv, Discipline, KindsApart
<1>8. AclPair'
  <2> SUFFICES ASSUME NEW i \in Dev, NEW j \in Dev, NEW c \in conns'[i],
                      NEW d \in conns'[j], c.handle = d.handle
               PROVE  (i = j /\ c = d) \/ (c.peer = j /\ d.peer = i)
    BY DEF AclPair
  <2>1. CASE c \in conns[i] /\ d \in conns[j]
    BY <2>1 DEF Inv, Discipline, AclPair
  <2>2. CASE c.handle = nextHandle
    <3>1. c \notin conns[i] /\ d \notin conns[j]
      BY <2>2, <1>3, <1>4
    <3> QED BY <3>1, <1>1, <1>2
  <2> QED BY <2>1, <2>2, <1>1, <1>2
<1>9. ScoPair' /\ OrphanedTogether'
  BY DEF Inv, Discipline, ScoPair, OrphanedTogether
<1>10. ScoPeerIsAclPeer'
  BY <1>1, <1>2, <1>3, <1>4 DEF Inv, Discipline, ScoPeerIsAclPeer
<1>11. LinksMirrored'
  <2>1. ASSUME NEW i \in Dev, NEW c \in conns'[i], c.handle \notin orphaned
        PROVE  [handle |-> c.handle, peer |-> i] \in conns'[c.peer]
    <3>1. CASE c \in conns[i]
      <4>1. c.peer \in Dev /\ [handle |-> c.handle, peer |-> i] \in conns[c.peer]
        BY <2>1, <3>1 DEF Inv, TypeOK, Conn, LinksMirrored
      <4> QED BY <4>1, <1>1, Zenon
    <3>2. CASE i = a /\ c = ca
      <4>1. c.peer = b /\ [handle |-> c.handle, peer |-> i] = cb
        BY <3>2
      <4> QED BY <4>1, <1>1, Zenon
    <3>3. CASE i = b /\ c = cb
      <4>1. c.peer = a /\ [handle |-> c.handle, peer |-> i] = ca
        BY <3>3
      <4> QED BY <4>1, <1>1, Zenon
    <3> QED BY <2>1, <1>1, <3>1, <3>2, <3>3
  <2> QED BY <2>1 DEF Inv, LinksMirrored
<1>12. \A i \in Dev : conns[i] \subseteq conns'[i]
  BY <1>1
<1>13. ScoRidesAcl'
  BY <1>12 DEF Inv, ScoRidesAcl
<1>14. InboundScoLive'
  BY <1>12 DEF Inv, InboundScoLive
<1> QED BY <1>6, <1>7, <1>8, <1>9, <1>10, <1>11, <1>13, <1>14 DEF Inv, Discipline

\* An accepted synchronous request: one fresh handle, at both ends of its ACL.
ScoAdded(a, b, h, sa, sb) ==
  /\ [handle |-> h, peer |-> b] \in conns[a]
  /\ sa = [handle |-> nextHandle, acl |-> h, peer |-> b]
  /\ sb = [handle |-> nextHandle, acl |-> h, peer |-> a]
  /\ \A i \in Dev : \A s :
       s \in sco'[i] <=> (s \in sco[i] \/ (i = a /\ s = sa) \/ (i = b /\ s = sb))
  /\ nextHandle' = nextHandle + 1
  /\ UNCHANGED <<conns, orphaned>>
  /\ inboundSco' = [inboundSco EXCEPT ![b] = NoSco]

LEMMA AddSco ==
  ASSUME Inv, TypeOK', NEW a \in Dev, NEW b \in Dev, NEW h \in Handle,
         NEW sa, NEW sb, ScoAdded(a, b, h, sa, sb)
  PROVE  Inv'
<1>0. /\ [handle |-> h, peer |-> b] \in conns[a]
      /\ nextHandle' = nextHandle + 1
      /\ UNCHANGED <<conns, orphaned>>
      /\ inboundSco' = [inboundSco EXCEPT ![b] = NoSco]
  BY DEF ScoAdded
<1>1. \A i \in Dev : \A s :
        s \in sco'[i] <=> (s \in sco[i] \/ (i = a /\ s = sa) \/ (i = b /\ s = sb))
  BY DEF ScoAdded
<1>2. /\ sa.handle = nextHandle /\ sa.acl = h /\ sa.peer = b
      /\ sb.handle = nextHandle /\ sb.acl = h /\ sb.peer = a
  BY DEF ScoAdded
<1>3. nextHandle \in Nat /\ \A n \in Nat : n < nextHandle => n < nextHandle' /\ n # nextHandle
  BY <1>0 DEF Inv, TypeOK, Handle
<1>4. /\ \A i \in Dev : \A c \in conns[i] : c.handle \in Nat /\ c.handle < nextHandle
      /\ \A i \in Dev : \A s \in sco[i] : /\ s.handle \in Nat /\ s.handle < nextHandle
                                          /\ s.acl \in Nat /\ s.acl < nextHandle
      /\ \A n \in orphaned : n \in Nat /\ n < nextHandle
  BY DEF Inv, TypeOK, Conn, ScoLink, Handle, Discipline, HandlesAllocated
<1>5. nextHandle < nextHandle' /\ h < nextHandle /\ h \in Nat
  BY <1>0, <1>3, <1>4
<1>6. h \in orphaned \/ [handle |-> h, peer |-> a] \in conns[b]
  BY <1>0 DEF Inv, LinksMirrored
<1>7. HandlesAllocated'
  BY <1>0, <1>1, <1>2, <1>3, <1>4, <1>5 DEF HandlesAllocated
<1>8. KindsApart'
  BY <1>0, <1>1, <1>2, <1>3, <1>4 DEF Inv, Discipline, KindsApart
<1>9. AclPair'
  BY <1>0 DEF Inv, Discipline, AclPair
<1>10. ScoPair'
  <2> SUFFICES ASSUME NEW i \in Dev, NEW j \in Dev, NEW s \in sco'[i],
                      NEW t \in sco'[j], s.handle = t.handle
               PROVE  s.acl = t.acl /\ ((i = j /\ s = t) \/ (s.peer = j /\ t.peer = i))
    BY DEF ScoPair
  <2>1. CASE s \in sco[i] /\ t \in sco[j]
    BY <2>1 DEF Inv, Discipline, ScoPair
  <2>2. CASE s.handle = nextHandle
    <3>1. s \notin sco[i] /\ t \notin sco[j]
      BY <2>2, <1>3, <1>4
    <3> QED BY <3>1, <1>1, <1>2
  <2> QED BY <2>1, <2>2, <1>1, <1>2
<1>11. ScoPeerIsAclPeer'
  <2> SUFFICES ASSUME NEW i \in Dev, NEW s \in sco'[i], NEW c \in conns[i],
                      c.handle = s.acl
               PROVE  c.peer = s.peer
    BY <1>0 DEF ScoPeerIsAclPeer
  <2>1. CASE s \in sco[i]
    BY <2>1 DEF Inv, Discipline, ScoPeerIsAclPeer
  <2>2. CASE s \notin sco[i]
    <3> DEFINE below == [handle |-> h, peer |-> b]
    <3>1. below \in conns[a] /\ below.handle = h /\ below.peer = b
      BY <1>0
    <3>2. s.acl = h /\ ((i = a /\ s.peer = b) \/ (i = b /\ s.peer = a))
      BY <2>2, <1>1, <1>2
    <3> HIDE DEF below
    <3>3. (i = a /\ c = below) \/ (c.peer = a /\ b = i)
      BY <3>1, <3>2 DEF Inv, Discipline, AclPair
    <3> QED BY <3>1, <3>2, <3>3
  <2> QED BY <2>1, <2>2
<1>12. OrphanedTogether'
  BY <1>0, <1>1, <1>2, <1>3, <1>4 DEF Inv, Discipline, OrphanedTogether
<1>13. LinksMirrored'
  <2>1. ASSUME NEW i \in Dev, NEW s \in sco'[i], s.handle \notin orphaned
        PROVE  [handle |-> s.handle, acl |-> s.acl, peer |-> i] \in sco'[s.peer]
    <3>1. CASE s \in sco[i]
      <4>1. /\ s.peer \in Dev
            /\ [handle |-> s.handle, acl |-> s.acl, peer |-> i] \in sco[s.peer]
        BY <2>1, <3>1 DEF Inv, TypeOK, ScoLink, LinksMirrored
      <4> QED BY <4>1, <1>1, Zenon
    <3>2. CASE i = a /\ s = sa
      <4>1. s.peer = b /\ [handle |-> s.handle, acl |-> s.acl, peer |-> i] = sb
        BY <3>2 DEF ScoAdded
      <4> QED BY <4>1, <1>1, Zenon
    <3>3. CASE i = b /\ s = sb
      <4>1. s.peer = a /\ [handle |-> s.handle, acl |-> s.acl, peer |-> i] = sa
        BY <3>3 DEF ScoAdded
      <4> QED BY <4>1, <1>1, Zenon
    <3> QED BY <2>1, <1>1, <3>1, <3>2, <3>3
  <2> QED BY <1>0, <2>1 DEF Inv, LinksMirrored
<1>14. ScoRidesAcl'
  <2> SUFFICES ASSUME NEW i \in Dev, NEW s \in sco'[i], s.acl \notin orphaned
               PROVE  [handle |-> s.acl, peer |-> s.peer] \in conns[i]
    BY <1>0 DEF ScoRidesAcl
  <2>1. CASE s \in sco[i]
    BY <2>1 DEF Inv, ScoRidesAcl
  <2>2. CASE s \notin sco[i]
    BY <2>2, <1>0, <1>1, <1>2, <1>6
  <2> QED BY <2>1, <2>2
<1>15. InboundScoLive'
  BY <1>0 DEF Inv, InboundScoLive, TypeOK, NoSco
<1> QED BY <1>7, <1>8, <1>9, <1>10, <1>11, <1>12, <1>13, <1>14, <1>15
    DEF Inv, Discipline

\* A SCO link hung up: its handle goes at both ends, and nowhere else was it held
\* unless an end had been Reset.
LEMMA RemoveSco ==
  ASSUME Inv, TypeOK', NEW a \in Dev, NEW b \in Dev, NEW l \in sco[a], l.peer = b,
         \A i \in Dev : \A s :
           s \in sco'[i] <=> (s \in sco[i] /\ ~(i \in {a, b} /\ s.handle = l.handle)),
         UNCHANGED <<conns, orphaned, nextHandle, inboundSco>>
  PROVE  Inv'
<1>1. \A i \in Dev : \A s :
        s \in sco'[i] <=> (s \in sco[i] /\ ~(i \in {a, b} /\ s.handle = l.handle))
  OBVIOUS
<1>2. Discipline'
  BY <1>1 DEF Inv, Discipline, HandlesAllocated, KindsApart, AclPair, ScoPair,
              ScoPeerIsAclPeer, OrphanedTogether
<1>3. ScoRidesAcl' /\ InboundScoLive'
  BY <1>1 DEF Inv, ScoRidesAcl, InboundScoLive
<1>4. LinksMirrored'
  <2>1. ASSUME NEW i \in Dev, NEW s \in sco'[i], s.handle \notin orphaned
        PROVE  [handle |-> s.handle, acl |-> s.acl, peer |-> i] \in sco'[s.peer]
    <3> DEFINE m == [handle |-> s.handle, acl |-> s.acl, peer |-> i]
    <3>1. s \in sco[i] /\ s.peer \in Dev /\ m \in sco[s.peer]
      BY <2>1, <1>1 DEF Inv, TypeOK, ScoLink, LinksMirrored
    <3>2. m.handle = s.handle /\ m.peer = i
      OBVIOUS
    <3>3. CASE s.handle = l.handle
      <4>1. [handle |-> l.handle, acl |-> l.acl, peer |-> a] \in sco[b]
        BY <2>1, <3>3 DEF Inv, LinksMirrored
      <4>2. i \in {a, b}
        BY <3>1, <3>3 DEF Inv, Discipline, ScoPair
      <4> QED BY <4>2, <2>1, <1>1, <3>3
    <3>4. CASE s.handle # l.handle
      <4> HIDE DEF m
      <4> QED BY <3>1, <3>2, <3>4, <1>1 DEF m
    <3> QED BY <3>3, <3>4
  <2> QED BY <2>1 DEF Inv, LinksMirrored
<1> QED BY <1>2, <1>3, <1>4 DEF Inv

\* An ACL link disconnected: its handle goes at both ends, with every SCO link
\* that rides on it and the request for one.
AclRemoved(a, l, riding) ==
  LET ends == {a, l.peer} IN
  /\ \A i \in Dev : \A c :
       c \in conns'[i] <=> (c \in conns[i] /\ ~(i \in ends /\ c.handle = l.handle))
  /\ \A h : h \in riding <=> \E s \in sco[a] : s.acl = l.handle /\ s.handle = h
  /\ \A i \in Dev : \A s :
       s \in sco'[i] <=> (s \in sco[i] /\ ~(i \in ends /\ s.handle \in riding))
  /\ \A i \in Dev : IF i \in ends /\ inboundSco[i].acl = l.handle
                    THEN inboundSco'[i] = NoSco
                    ELSE inboundSco'[i] = inboundSco[i]
  /\ UNCHANGED <<orphaned, nextHandle>>

LEMMA RemoveAcl ==
  ASSUME Inv, TypeOK', NEW a \in Dev, NEW l \in conns[a], NEW riding,
         AclRemoved(a, l, riding)
  PROVE  Inv'
<1> DEFINE b == l.peer
<1>0. b \in Dev /\ UNCHANGED <<orphaned, nextHandle>>
  BY DEF Inv, TypeOK, Conn, AclRemoved
<1>1. \A i \in Dev : \A c :
        c \in conns'[i] <=> (c \in conns[i] /\ ~(i \in {a, b} /\ c.handle = l.handle))
  BY DEF AclRemoved
<1>2. \A i \in Dev : \A s :
        s \in sco'[i] <=> (s \in sco[i] /\ ~(i \in {a, b} /\ s.handle \in riding))
  BY DEF AclRemoved
<1>3. \A h : h \in riding <=> \E s \in sco[a] : s.acl = l.handle /\ s.handle = h
  BY DEF AclRemoved
<1>4. \A i \in Dev : conns'[i] \subseteq conns[i] /\ sco'[i] \subseteq sco[i]
  BY <1>1, <1>2
<1>5. Discipline'
  BY <1>0, <1>4 DEF Inv, Discipline, HandlesAllocated, KindsApart, AclPair, ScoPair,
              ScoPeerIsAclPeer, OrphanedTogether
<1>6. ASSUME NEW i \in Dev, NEW c \in conns'[i], c.handle \notin orphaned
      PROVE  [handle |-> c.handle, peer |-> i] \in conns'[c.peer]
  <2> DEFINE m == [handle |-> c.handle, peer |-> i]
  <2>1. c \in conns[i] /\ c.peer \in Dev /\ m \in conns[c.peer]
    BY <1>6, <1>1 DEF Inv, TypeOK, Conn, LinksMirrored
  <2>2. m.handle = c.handle
    OBVIOUS
  <2>3. CASE c.handle = l.handle
    <3>1. i \in {a, b}
      BY <2>1, <2>3 DEF Inv, Discipline, AclPair
    <3> QED BY <3>1, <1>6, <1>1, <2>3
  <2>4. CASE c.handle # l.handle
    <3> HIDE DEF m
    <3> QED BY <2>1, <2>2, <2>4, <1>1 DEF m
  <2> QED BY <2>3, <2>4
<1>7. ASSUME NEW i \in Dev, NEW s \in sco'[i], s.handle \notin orphaned
      PROVE  [handle |-> s.handle, acl |-> s.acl, peer |-> i] \in sco'[s.peer]
  <2> DEFINE m == [handle |-> s.handle, acl |-> s.acl, peer |-> i]
  <2>1. s \in sco[i] /\ s.peer \in Dev /\ m \in sco[s.peer]
    BY <1>7, <1>2 DEF Inv, TypeOK, ScoLink, LinksMirrored
  <2>2. m.handle = s.handle
    OBVIOUS
  <2>3. CASE s.handle \in riding
    <3>1. PICK t \in sco[a] : t.acl = l.handle /\ t.handle = s.handle
      BY <2>3, <1>3
    <3>2. t.peer = b
      BY <3>1 DEF Inv, Discipline, ScoPeerIsAclPeer
    <3>3. i \in {a, b}
      BY <3>1, <3>2, <2>1 DEF Inv, Discipline, ScoPair
    <3> QED BY <3>3, <2>3, <1>2, <1>7
  <2>4. CASE s.handle \notin riding
    <3> HIDE DEF m
    <3> QED BY <2>1, <2>2, <2>4, <1>2 DEF m
  <2> QED BY <2>3, <2>4
<1>8. LinksMirrored'
  BY <1>0, <1>6, <1>7 DEF Inv, LinksMirrored
<1>9. ScoRidesAcl'
  <2> SUFFICES ASSUME NEW i \in Dev, NEW s \in sco'[i], s.acl \notin orphaned
               PROVE  [handle |-> s.acl, peer |-> s.peer] \in conns'[i]
    BY <1>0 DEF ScoRidesAcl
  <2> DEFINE below == [handle |-> s.acl, peer |-> s.peer]
  <2>1. s \in sco[i] /\ below \in conns[i]
    BY <1>2 DEF Inv, ScoRidesAcl
  <2>2. below.handle = s.acl /\ below.peer = s.peer
    OBVIOUS
  <2> HIDE DEF below
  <2>3. ~(i \in {a, b} /\ s.acl = l.handle)
    <3> SUFFICES ASSUME i \in {a, b}, s.acl = l.handle
                 PROVE  FALSE
      OBVIOUS
    <3>1. CASE i = a
      BY <3>1, <2>1, <1>2, <1>3
    <3>2. CASE i = b /\ b # a
      <4>1. s.peer = a
        BY <3>2, <2>1, <2>2 DEF Inv, Discipline, AclPair
      <4>2. s.handle \notin orphaned
        BY <2>1 DEF Inv, Discipline, OrphanedTogether
      <4>3. [handle |-> s.handle, acl |-> s.acl, peer |-> i] \in sco[a]
        BY <4>1, <4>2, <2>1 DEF Inv, LinksMirrored
      <4>4. s.handle \in riding
        BY <4>3, <1>3
      <4> QED BY <4>4, <3>2, <1>2
    <3> QED BY <3>1, <3>2
  <2>4. below \in conns'[i]
    BY <2>1, <2>2, <2>3, <1>1
  <2> QED BY <2>4 DEF below
<1>10. InboundScoLive'
  <2> SUFFICES ASSUME NEW i \in Dev, inboundSco'[i] # NoSco,
                      inboundSco'[i].acl \notin orphaned
               PROVE  [handle |-> inboundSco'[i].acl, peer |-> inboundSco'[i].initiator]
                        \in conns'[i]
    BY <1>0 DEF InboundScoLive
  <2> DEFINE below == [handle |-> inboundSco[i].acl, peer |-> inboundSco[i].initiator]
  <2>1. inboundSco'[i] = inboundSco[i] /\ ~(i \in {a, b} /\ inboundSco[i].acl = l.handle)
    BY DEF AclRemoved
  <2>2. below \in conns[i]
    BY <2>1 DEF Inv, InboundScoLive
  <2>3. below.handle = inboundSco[i].acl
    OBVIOUS
  <2> HIDE DEF below
  <2>4. below \in conns'[i]
    BY <2>1, <2>2, <2>3, <1>1
  <2> QED BY <2>1, <2>4 DEF below
<1> QED BY <1>5, <1>8, <1>9, <1>10 DEF Inv

\* Reset empties one end and marks what it held.
LEMMA ResetInv ==
  ASSUME Inv, TypeOK', NEW a \in Dev, Reset(a)
  PROVE  Inv'
<1>1. /\ \A i \in Dev : conns'[i] = (IF i = a THEN {} ELSE conns[i])
      /\ \A i \in Dev : sco'[i] = (IF i = a THEN {} ELSE sco[i])
      /\ \A i \in Dev : inboundSco'[i] = (IF i = a THEN NoSco ELSE inboundSco[i])
      /\ nextHandle' = nextHandle
      /\ orphaned' = orphaned \cup HandlesOf(a)
  BY DEF Reset, Inv, TypeOK
<1>2. /\ \A c \in conns[a] : c.handle \in HandlesOf(a)
      /\ \A s \in sco[a] : s.handle \in HandlesOf(a)
  BY DEF HandlesOf
<1>3. HandlesAllocated'
  BY <1>1 DEF Inv, Discipline, HandlesAllocated, HandlesOf
<1>4. KindsApart' /\ AclPair' /\ ScoPeerIsAclPeer'
  BY <1>1 DEF Inv, Discipline, KindsApart, AclPair, ScoPeerIsAclPeer
<1>5. ScoPair'
  BY <1>1 DEF Inv, Discipline, ScoPair
<1>6. OrphanedTogether'
  <2> SUFFICES ASSUME NEW i \in Dev, i # a, NEW s \in sco[i], s.handle \in HandlesOf(a)
               PROVE  s.acl \in orphaned'
    BY <1>1 DEF Inv, Discipline, OrphanedTogether
  <2>1. PICK t \in sco[a] : t.handle = s.handle
    BY DEF HandlesOf, Inv, Discipline, KindsApart
  <2>2. t.acl = s.acl
    BY <2>1 DEF Inv, Discipline, ScoPair
  <2>3. t.acl \in orphaned \/ [handle |-> t.acl, peer |-> t.peer] \in conns[a]
    BY DEF Inv, ScoRidesAcl
  <2> QED BY <1>1, <1>2, <2>2, <2>3
<1>7. LinksMirrored'
  <2>1. ASSUME NEW i \in Dev, NEW c \in conns'[i], c.handle \notin orphaned'
        PROVE  [handle |-> c.handle, peer |-> i] \in conns'[c.peer]
    <3>1. c \in conns[i] /\ c.peer \in Dev /\ i # a
      BY <2>1, <1>1 DEF Inv, TypeOK, Conn
    <3>2. [handle |-> c.handle, peer |-> i] \in conns[c.peer]
      BY <2>1, <1>1, <3>1 DEF Inv, LinksMirrored
    <3>3. c.peer # a
      BY <2>1, <1>1, <1>2, <3>2
    <3> QED BY <1>1, <3>1, <3>2, <3>3
  <2>2. ASSUME NEW i \in Dev, NEW s \in sco'[i], s.handle \notin orphaned'
        PROVE  [handle |-> s.handle, acl |-> s.acl, peer |-> i] \in sco'[s.peer]
    <3>1. s \in sco[i] /\ s.peer \in Dev /\ i # a
      BY <2>2, <1>1 DEF Inv, TypeOK, ScoLink
    <3>2. [handle |-> s.handle, acl |-> s.acl, peer |-> i] \in sco[s.peer]
      BY <2>2, <1>1, <3>1 DEF Inv, LinksMirrored
    <3>3. s.peer # a
      BY <2>2, <1>1, <1>2, <3>2
    <3> QED BY <1>1, <3>1, <3>2, <3>3
  <2> QED BY <2>1, <2>2 DEF LinksMirrored
<1>8. ScoRidesAcl'
  BY <1>1 DEF Inv, ScoRidesAcl
<1>9. InboundScoLive'
  BY <1>1 DEF Inv, InboundScoLive
<1> QED BY <1>3, <1>4, <1>5, <1>6, <1>7, <1>8, <1>9 DEF Inv, Discipline

LEMMA InvInit == Init => Inv
BY TypeInit DEF Init, Inv, Discipline, HandlesAllocated, KindsApart, AclPair, ScoPair,
   ScoPeerIsAclPeer, OrphanedTogether, LinksMirrored, ScoRidesAcl, InboundScoLive

LEMMA InvCommand == Inv /\ TypeOK' /\ HostCommand => Inv'
<1> SUFFICES ASSUME Inv, TypeOK', HostCommand
             PROVE  Inv'
  OBVIOUS
<1>1. PICK i \in Dev : Reset(i) \/ UNCHANGED links
  BY DEF HostCommand, WriteScanEnable, CreateConnection, CreateConnectionCancel,
         AnswerConnectionRequest, SetupSynchronousConnection, AnswerSynchronousRequest,
         Disconnect, hosts, links
<1> QED BY <1>1, ResetInv, InvUnchanged

LEMMA InvTick == Inv /\ TypeOK' /\ Tick => Inv'
<1> SUFFICES ASSUME Inv, TypeOK', Tick
             PROVE  Inv'
  OBVIOUS
<1> DEFINE from == Head(actions).from
           arg == Head(actions).arg
<1>0. TypeOK
  BY DEF Inv
<1>1. CASE DrainDone \/ TickPaging \/ RouteAnswerUnmatched \/ RouteDone
  <2>1. UNCHANGED links
    BY <1>1 DEF DrainDone, TickPaging, RouteAnswerUnmatched, RouteDone, hosts, links
  <2> QED BY <2>1, InvUnchanged
<1>2. CASE RouteAnswerPage
  <2>1. from \in Dev /\ arg \in Dev
    BY <1>0, <1>2, RoutingType DEF RouteAnswerPage
  <2>2. CASE Head(actions).reject
    <3>1. UNCHANGED links
      BY <1>2, <2>2 DEF RouteAnswerPage, links
    <3> QED BY <3>1, InvUnchanged
  <2>3. CASE ~Head(actions).reject
    <3> DEFINE ca == [handle |-> nextHandle, peer |-> from]
               cb == [handle |-> nextHandle, peer |-> arg]
    <3>1. /\ conns' = [conns EXCEPT ![arg] = @ \cup {ca}, ![from] = @ \cup {cb}]
          /\ nextHandle' = nextHandle + 1
          /\ UNCHANGED <<sco, orphaned, inboundSco>>
      BY <1>2, <2>3 DEF RouteAnswerPage, AllocHandle
    <3>2. conns \in [Dev -> SUBSET Conn]
      BY <1>0 DEF TypeOK
    <3>3. ca = [handle |-> nextHandle, peer |-> from]
          /\ cb = [handle |-> nextHandle, peer |-> arg]
      OBVIOUS
    <3> HIDE DEF ca, cb
    <3>4. \A i \in Dev : \A c :
            c \in conns'[i] <=> (c \in conns[i] \/ (i = arg /\ c = ca) \/ (i = from /\ c = cb))
      BY <2>1, <3>1, <3>2, AddedAtBoth
    <3>5. nextHandle' = nextHandle + 1 /\ UNCHANGED <<sco, orphaned, inboundSco>>
      BY <3>1
    <3> HIDE DEF from, arg
    <3> QED BY <2>1, <3>3, <3>4, <3>5, AddAcl
  <2> QED BY <2>2, <2>3
<1>3. CASE RouteScoSetup
  <2>1. from \in Dev /\ arg \in Handle
    BY <1>0, <1>3, RoutingType DEF RouteScoSetup
  <2>2. /\ UNCHANGED <<conns, sco, orphaned, nextHandle>>
        /\ \A p \in Dev : inboundSco'[p] = inboundSco[p]
                          \/ /\ p \in PeerOf(from, arg)
                             /\ inboundSco'[p] = [initiator |-> from, acl |-> arg]
    BY <1>3 DEF RouteScoSetup
  <2>3. \A p \in PeerOf(from, arg) :
          arg \in orphaned \/ [handle |-> arg, peer |-> from] \in conns[p]
    BY <2>1 DEF PeerOf, Inv, LinksMirrored
  <2>4. InboundScoLive'
    BY <2>2, <2>3 DEF Inv, InboundScoLive
  <2> QED BY <2>2, <2>4 DEF Inv, Discipline, HandlesAllocated, KindsApart, AclPair,
             ScoPair, ScoPeerIsAclPeer, OrphanedTogether, LinksMirrored, ScoRidesAcl
<1>4. CASE RouteScoAnswer
  <2>1. from \in Dev /\ arg \in Dev
    BY <1>0, <1>4, RoutingType DEF RouteScoAnswer
  <2> DEFINE h == inboundSco[from].acl
  <2>2. CASE inboundSco[from].initiator # arg
    <3>1. UNCHANGED links
      BY <1>4, <2>2 DEF RouteScoAnswer, links
    <3> QED BY <3>1, InvUnchanged
  <2>3. CASE /\ inboundSco[from].initiator = arg
             /\ Head(actions).reject \/ from \notin PeerOf(arg, h)
    <3>1. /\ UNCHANGED <<conns, sco, orphaned, nextHandle>>
          /\ inboundSco' = [inboundSco EXCEPT ![from] = NoSco]
      BY <1>4, <2>3 DEF RouteScoAnswer
    <3>2. InboundScoLive'
      BY <1>0, <2>1, <3>1 DEF TypeOK, Inv, InboundScoLive
    <3> QED BY <3>1, <3>2 DEF Inv, Discipline, HandlesAllocated, KindsApart, AclPair,
               ScoPair, ScoPeerIsAclPeer, OrphanedTogether, LinksMirrored, ScoRidesAcl
  <2>4. CASE /\ inboundSco[from].initiator = arg
             /\ ~Head(actions).reject
             /\ from \in PeerOf(arg, h)
    <3> DEFINE sa == [handle |-> nextHandle, acl |-> h, peer |-> from]
               sb == [handle |-> nextHandle, acl |-> h, peer |-> arg]
    <3>1. /\ sco' = [sco EXCEPT ![arg] = @ \cup {sa}, ![from] = @ \cup {sb}]
          /\ nextHandle' = nextHandle + 1
          /\ UNCHANGED <<conns, orphaned>>
          /\ inboundSco' = [inboundSco EXCEPT ![from] = NoSco]
      BY <1>4, <2>4 DEF RouteScoAnswer, AllocHandle
    <3>2. sco \in [Dev -> SUBSET ScoLink]
      BY <1>0 DEF TypeOK
    <3>3. h \in Handle /\ [handle |-> h, peer |-> from] \in conns[arg]
      <4>1. PICK c \in conns[arg] : c.handle = h /\ c.peer = from
        BY <2>4 DEF PeerOf
      <4>2. c \in Conn
        BY <1>0, <2>1 DEF TypeOK
      <4> QED BY <4>1, <4>2 DEF Conn
    <3>4. sa = [handle |-> nextHandle, acl |-> h, peer |-> from]
          /\ sb = [handle |-> nextHandle, acl |-> h, peer |-> arg]
      OBVIOUS
    <3> HIDE DEF sa, sb
    <3>5. \A i \in Dev : \A s :
            s \in sco'[i] <=> (s \in sco[i] \/ (i = arg /\ s = sa) \/ (i = from /\ s = sb))
      BY <2>1, <3>1, <3>2, AddedAtBoth
    <3>6. ScoAdded(arg, from, h, sa, sb)
      BY <3>1, <3>3, <3>4, <3>5 DEF ScoAdded
    <3> HIDE DEF h, from, arg
    <3> QED BY <2>1, <3>3, <3>6, AddSco
  <2> QED BY <2>2, <2>3, <2>4
<1>5. CASE RouteScoDisconnect
  <2>1. from \in Dev
    BY <1>0, <1>5, RoutingType DEF RouteScoDisconnect
  <2>2. PICK l \in sco[from] : l.handle = arg
    BY <1>5 DEF RouteScoDisconnect, ScoPeerOf
  <2>3. l.peer \in Dev
    BY <1>0, <2>1 DEF TypeOK, ScoLink
  <2>4. ScoPeerOf(from, arg) = {l.peer}
    BY <2>1, <2>2 DEF ScoPeerOf, Inv, Discipline, ScoPair
  <2>5. /\ UNCHANGED <<conns, orphaned, nextHandle, inboundSco>>
        /\ sco' = [i \in Dev |-> IF i \in {from} \cup ScoPeerOf(from, arg)
                                 THEN {s \in sco[i] : s.handle \notin {arg}} ELSE sco[i]]
    BY <1>5 DEF RouteScoDisconnect, DropSco
  <2>6. \A i \in Dev : \A s :
          s \in sco'[i] <=> (s \in sco[i] /\ ~(i \in {from, l.peer} /\ s.handle = l.handle))
    BY <2>2, <2>4, <2>5
  <2> QED BY <2>1, <2>3, <2>5, <2>6, RemoveSco
<1>6. CASE RouteDisconnect
  <2>1. from \in Dev
    BY <1>0, <1>6, RoutingType DEF RouteDisconnect
  <2>2. CASE PeerOf(from, arg) = {}
    <3>1. UNCHANGED links
      BY <1>6, <2>2 DEF RouteDisconnect, links
    <3> QED BY <3>1, InvUnchanged
  <2>3. CASE PeerOf(from, arg) # {}
    <3>1. PICK l \in conns[from] : l.handle = arg
      BY <2>3 DEF PeerOf
    <3>2. l.peer \in Dev
      BY <1>0, <2>1 DEF TypeOK, Conn
    <3>3. PeerOf(from, arg) = {l.peer}
      BY <2>1, <3>1 DEF PeerOf, Inv, Discipline, AclPair
    <3> DEFINE riding == RidingOn(from, arg)
               ends == EndsOf(from, arg)
    <3>4. ends = {from, l.peer}
      BY <3>3 DEF EndsOf
    <3>5. \A h : h \in riding <=> \E s \in sco[from] : s.acl = l.handle /\ s.handle = h
      BY <3>1 DEF RidingOn
    <3>6. /\ UNCHANGED <<orphaned, nextHandle>>
          /\ conns' = [i \in Dev |-> IF i \in ends
                                     THEN {c \in conns[i] : c.handle # arg} ELSE conns[i]]
          /\ sco' = [i \in Dev |-> IF i \in ends
                                   THEN {s \in sco[i] : s.handle \notin riding \cup {arg}}
                                   ELSE sco[i]]
          /\ inboundSco' = [i \in Dev |-> IF i \in ends /\ inboundSco[i].acl = arg
                                          THEN NoSco ELSE inboundSco[i]]
      BY <1>6, <2>3 DEF RouteDisconnect, DropSco, ClearRequests
    <3>7. \A i \in Dev : \A s \in sco[i] : s.handle # arg
      BY <2>1, <3>1 DEF Inv, Discipline, KindsApart
    <3> HIDE DEF riding, ends
    <3>8. \A i \in Dev : \A c :
            c \in conns'[i] <=>
              (c \in conns[i] /\ ~(i \in {from, l.peer} /\ c.handle = l.handle))
      BY <3>1, <3>4, <3>6
    <3>9. \A i \in Dev : \A s :
            s \in sco'[i] <=>
              (s \in sco[i] /\ ~(i \in {from, l.peer} /\ s.handle \in riding))
      BY <3>4, <3>6, <3>7
    <3>10. \A i \in Dev : IF i \in {from, l.peer} /\ inboundSco[i].acl = l.handle
                          THEN inboundSco'[i] = NoSco
                          ELSE inboundSco'[i] = inboundSco[i]
      BY <3>1, <3>4, <3>6
    <3>11. AclRemoved(from, l, riding)
      BY <3>5, <3>6, <3>8, <3>9, <3>10 DEF AclRemoved
    <3> HIDE DEF from, arg
    <3> QED BY <2>1, <3>11, RemoveAcl
  <2> QED BY <2>2, <2>3
<1> QED BY <1>1, <1>2, <1>3, <1>4, <1>5, <1>6 DEF Tick

LEMMA InvCorrect == Spec => []Inv
<1>1. Init => Inv
  BY InvInit
<1>2. Inv /\ [Next]_vars => Inv'
  <2> SUFFICES ASSUME Inv, [Next]_vars
               PROVE  Inv'
    OBVIOUS
  <2>1. TypeOK
    BY DEF Inv
  <2>2. CASE Next
    <3>1. TypeOK'
      BY <2>1, <2>2, TypeCommand, TypeTick DEF Next
    <3> QED BY <2>2, <3>1, InvCommand, InvTick DEF Next
  <2>3. CASE UNCHANGED vars
    <3>1. TypeOK' /\ UNCHANGED links
      BY <2>1, <2>3 DEF TypeOK, vars, hosts, links
    <3> QED BY <3>1, InvUnchanged
  <2> QED BY <2>2, <2>3
<1> QED BY <1>1, <1>2, PTL DEF Spec

\* A link is held at both ends or at neither unless one end was Reset, for any
\* number of controllers and whatever order their hosts' commands arrive in.
THEOREM MirrorTheorem == Spec => []LinksMirrored
<1>1. Inv => LinksMirrored
  BY DEF Inv
<1> QED BY <1>1, InvCorrect, PTL

\* A handle names one link of a controller, so peer_of and sco_peer_of, which take
\* the first match, find the only one.
THEOREM UniqueTheorem == Spec => []HandlesUnique
<1>1. Inv => HandlesUnique
  <2> SUFFICES ASSUME Inv, NEW i \in Dev
               PROVE  /\ \A c, d \in conns[i] : c.handle = d.handle => c = d
                      /\ \A s, t \in sco[i] : s.handle = t.handle => s = t
                      /\ \A c \in conns[i], s \in sco[i] : c.handle # s.handle
    BY DEF HandlesUnique
  <2>1. ASSUME NEW c \in conns[i], NEW d \in conns[i], c.handle = d.handle
        PROVE  c = d
    <3>1. c \in Conn /\ d \in Conn
      BY DEF Inv, TypeOK
    <3>2. c.peer = d.peer
      BY <2>1 DEF Inv, Discipline, AclPair
    <3> QED BY <2>1, <3>1, <3>2 DEF Conn
  <2>2. ASSUME NEW s \in sco[i], NEW t \in sco[i], s.handle = t.handle
        PROVE  s = t
    <3>1. s \in ScoLink /\ t \in ScoLink
      BY DEF Inv, TypeOK
    <3>2. s.peer = t.peer /\ s.acl = t.acl
      BY <2>2 DEF Inv, Discipline, ScoPair
    <3> QED BY <2>2, <3>1, <3>2 DEF ScoLink
  <2> QED BY <2>1, <2>2 DEF Inv, Discipline, KindsApart
<1> QED BY <1>1, InvCorrect, PTL

\* A SCO link never outlives its ACL, except where Reset took an end of that ACL
\* (route_disconnect, route_sco_answer).
THEOREM ScoTheorem == Spec => []ScoRidesAcl
<1>1. Inv => ScoRidesAcl
  BY DEF Inv
<1> QED BY <1>1, InvCorrect, PTL

\* A synchronous request that waits for its host's answer never outlives the ACL it
\* is for, with the same exception: route_disconnect clears it, so no Accept can
\* answer the request of a peer that is gone.
THEOREM SetupTheorem == Spec => []InboundScoLive
<1>1. Inv => InboundScoLive
  BY DEF Inv
<1> QED BY <1>1, InvCorrect, PTL

--------------------------------------------------------------------------------
(***************************************************************************)
(* What the hosts are told.                                                *)
(***************************************************************************)

\* A host is owed a Connection Complete for its Create Connection exactly while
\* its controller runs the page: by cancel, timeout, answer or Reset it is paid
\* or forgiven once.
THEOREM CreateTheorem == Spec => []CreatePromiseKept
<1>1. Init => CreatePromiseKept
  BY DEF Init, CreatePromiseKept
<1>2. TypeOK /\ TypeOK' /\ CreatePromiseKept /\ [Next]_vars => CreatePromiseKept'
  <2> SUFFICES ASSUME TypeOK, TypeOK', CreatePromiseKept, [Next]_vars
               PROVE  CreatePromiseKept'
    OBVIOUS
  <2>1. CASE HostCommand
    <3>1. CASE UNCHANGED <<page, createDue>>
      BY <3>1 DEF CreatePromiseKept
    <3>2. ASSUME NEW i \in Dev, NEW target \in Dev, CreateConnection(i, target)
          PROVE  CreatePromiseKept'
      <4>1. [target |-> target, ticks |-> PageTimeoutTicks, reached |-> None] # NoPage
        BY NAssumption DEF NoPage, None, Dev
      <4> QED BY <3>2, <4>1 DEF CreateConnection, CreatePromiseKept, TypeOK
    <3>3. ASSUME NEW i \in Dev, CreateConnectionCancel(i) \/ Reset(i)
          PROVE  CreatePromiseKept'
      BY <3>3 DEF CreateConnectionCancel, Reset, CreatePromiseKept, TypeOK
    <3> QED BY <2>1, <3>1, <3>2, <3>3 DEF HostCommand, WriteScanEnable,
              AnswerConnectionRequest, SetupSynchronousConnection,
              AnswerSynchronousRequest, Disconnect, hosts
  <2>2. CASE TickPaging
    <3>1. CASE page[turn] = NoPage
      BY <2>2, <3>1 DEF TickPaging, CreatePromiseKept
    <3>2. CASE page[turn] # NoPage /\ Expired(TicksLeft(turn))
      BY <2>2, <3>2 DEF TickPaging, CreatePromiseKept, TypeOK
    <3>3. CASE page[turn] # NoPage /\ ~Expired(TicksLeft(turn))
      <4> DEFINE next == [page[turn] EXCEPT !.ticks = TicksLeft(turn),
                                            !.reached = ReachedBy(turn)]
      <4>1. page' = [page EXCEPT ![turn] = next] /\ createDue' = createDue
        BY <2>2, <3>3 DEF TickPaging
      <4>2. page[turn] \in Page /\ turn \in Dev
        BY <3>3 DEF TypeOK
      <4>3. next.target = page[turn].target /\ page[turn].target \in Dev
        BY <4>2 DEF Page
      <4> HIDE DEF next
      <4>4. next # NoPage
        <5>1. NoPage.target \notin Dev
          BY NAssumption DEF NoPage, None, Dev
        <5> QED BY <4>3, <5>1
      <4> QED BY <3>3, <4>1, <4>2, <4>4 DEF CreatePromiseKept, TypeOK
    <3> QED BY <3>1, <3>2, <3>3
  <2>3. CASE RouteAnswerPage
    <3>1. Head(actions).arg \in Dev
      BY <2>3, RoutingType DEF RouteAnswerPage
    <3> QED BY <2>3, <3>1 DEF RouteAnswerPage, CreatePromiseKept, TypeOK
  <2>4. CASE UNCHANGED <<page, createDue>>
    BY <2>4 DEF CreatePromiseKept
  <2> QED BY <2>1, <2>2, <2>3, <2>4 DEF Next, Tick, DrainDone, RouteAnswerUnmatched,
            RouteScoSetup, RouteScoAnswer, RouteScoDisconnect, RouteDisconnect,
            RouteDone, hosts, vars
<1> QED BY <1>1, <1>2, TypeCorrect, PTL DEF Spec

\* Dropping the links with handles in X drops just those handles.
LEMMA HandlesLeft ==
  ASSUME NEW A, NEW B, NEW X, B \subseteq A,
         \A c \in A : c \in B <=> c.handle \notin X
  PROVE  {c.handle : c \in B} = {c.handle : c \in A} \ X
OBVIOUS

\* The links a host has been told of are the links its controller holds.
THEOREM ToldTheorem == Spec => []HostToldOfLinks
<1>1. Init => HostToldOfLinks
  BY DEF Init, HostToldOfLinks, HandlesOf
<1>2. Inv /\ Inv' /\ HostToldOfLinks /\ [Next]_vars => HostToldOfLinks'
  <2> SUFFICES ASSUME Inv, Inv', HostToldOfLinks, [Next]_vars
               PROVE  HostToldOfLinks'
    OBVIOUS
  <2> DEFINE from == Head(actions).from
             arg == Head(actions).arg
  <2>0. TypeOK /\ TypeOK'
    BY DEF Inv
  <2>1. CASE UNCHANGED <<told, conns, sco>>
    BY <2>1 DEF HostToldOfLinks, HandlesOf
  <2>2. ASSUME NEW i \in Dev, Reset(i)
        PROVE  HostToldOfLinks'
    BY <2>0, <2>2 DEF Reset, HostToldOfLinks, HandlesOf, TypeOK
  <2>3. CASE RouteAnswerPage
    <3>1. from \in Dev /\ arg \in Dev
      BY <2>0, <2>3, RoutingType DEF RouteAnswerPage
    <3>2. CASE ~Head(actions).reject
      <4>1. \A i \in Dev : told'[i] = told[i] \cup (IF i \in {from, arg}
                                                    THEN {nextHandle} ELSE {})
        BY <2>0, <2>3, <3>1, <3>2 DEF RouteAnswerPage, TypeOK
      <4> DEFINE ca == [handle |-> nextHandle, peer |-> from]
                 cb == [handle |-> nextHandle, peer |-> arg]
      <4>2. conns' = [conns EXCEPT ![arg] = @ \cup {ca}, ![from] = @ \cup {cb}]
            /\ sco' = sco
        BY <2>3, <3>2 DEF RouteAnswerPage
      <4>3. ca.handle = nextHandle /\ cb.handle = nextHandle
        OBVIOUS
      <4>4. conns \in [Dev -> SUBSET Conn]
        BY <2>0 DEF TypeOK
      <4> HIDE DEF ca, cb, from, arg
      <4>5. \A i \in Dev : \A c :
              c \in conns'[i] <=> (c \in conns[i] \/ (i = arg /\ c = ca) \/ (i = from /\ c = cb))
        BY <3>1, <4>2, <4>4, AddedAtBoth
      <4>6. \A i \in Dev : HandlesOf(i)' = HandlesOf(i) \cup (IF i \in {from, arg}
                                                             THEN {nextHandle} ELSE {})
        BY <4>2, <4>3, <4>5 DEF HandlesOf
      <4> QED BY <4>1, <4>6 DEF HostToldOfLinks
    <3>3. CASE Head(actions).reject
      BY <2>1, <2>3, <3>3 DEF RouteAnswerPage
    <3> QED BY <3>2, <3>3
  <2>4. CASE RouteScoAnswer
    <3>1. from \in Dev /\ arg \in Dev
      BY <2>0, <2>4, RoutingType DEF RouteScoAnswer
    <3> DEFINE h == inboundSco[from].acl
               sa == [handle |-> nextHandle, acl |-> h, peer |-> from]
               sb == [handle |-> nextHandle, acl |-> h, peer |-> arg]
    <3>2. CASE /\ sco' = [sco EXCEPT ![arg] = @ \cup {sa}, ![from] = @ \cup {sb}]
               /\ told' = [told EXCEPT ![arg] = @ \cup {nextHandle},
                                       ![from] = @ \cup {nextHandle}]
      <4>1. \A i \in Dev : told'[i] = told[i] \cup (IF i \in {from, arg}
                                                    THEN {nextHandle} ELSE {})
        BY <2>0, <3>1, <3>2 DEF TypeOK
      <4>2. conns' = conns
        BY <2>4 DEF RouteScoAnswer
      <4>3. sa.handle = nextHandle /\ sb.handle = nextHandle
        OBVIOUS
      <4>4. sco \in [Dev -> SUBSET ScoLink]
        BY <2>0 DEF TypeOK
      <4> HIDE DEF sa, sb, from, arg
      <4>5. \A i \in Dev : \A s :
              s \in sco'[i] <=> (s \in sco[i] \/ (i = arg /\ s = sa) \/ (i = from /\ s = sb))
        BY <3>1, <3>2, <4>4, AddedAtBoth
      <4>6. \A i \in Dev : HandlesOf(i)' = HandlesOf(i) \cup (IF i \in {from, arg}
                                                             THEN {nextHandle} ELSE {})
        BY <4>2, <4>3, <4>5 DEF HandlesOf
      <4> QED BY <4>1, <4>6 DEF HostToldOfLinks
    <3> QED BY <2>1, <2>4, <3>2 DEF RouteScoAnswer
  <2>5. CASE RouteScoDisconnect
    <3>1. from \in Dev
      BY <2>0, <2>5, RoutingType DEF RouteScoDisconnect
    <3>2. PICK l \in sco[from] : l.handle = arg
      BY <2>5 DEF RouteScoDisconnect, ScoPeerOf
    <3>3. \A i \in Dev : \A c \in conns[i] : c.handle # arg
      BY <3>1, <3>2 DEF Inv, Discipline, KindsApart
    <3> DEFINE ends == {from} \cup ScoPeerOf(from, arg)
    <3>4. /\ conns' = conns
          /\ \A i \in Dev : sco'[i] = IF i \in ends
                                      THEN {s \in sco[i] : s.handle \notin {arg}} ELSE sco[i]
          /\ \A i \in Dev : told'[i] = IF i \in ends THEN told[i] \ {arg} ELSE told[i]
      BY <2>5 DEF RouteScoDisconnect, DropSco
    <3> HIDE DEF ends, arg
    <3>5. ASSUME NEW i \in Dev, i \in ends
          PROVE  HandlesOf(i)' = HandlesOf(i) \ {arg}
      BY <3>3, <3>4, <3>5 DEF HandlesOf
    <3>6. ASSUME NEW i \in Dev, i \notin ends
          PROVE  HandlesOf(i)' = HandlesOf(i)
      BY <3>4, <3>6 DEF HandlesOf
    <3> QED BY <3>4, <3>5, <3>6 DEF HostToldOfLinks
  <2>6. CASE RouteDisconnect
    <3>1. from \in Dev
      BY <2>0, <2>6, RoutingType DEF RouteDisconnect
    <3>2. CASE PeerOf(from, arg) = {}
      BY <2>1, <2>6, <3>2 DEF RouteDisconnect
    <3>3. CASE PeerOf(from, arg) # {}
      <4> DEFINE ends == EndsOf(from, arg)
                 riding == RidingOn(from, arg)
      <4>1. PICK l \in conns[from] : l.handle = arg
        BY <3>3 DEF PeerOf
      <4>2. \A i \in Dev : \A s \in sco[i] : s.handle # arg
        BY <3>1, <4>1 DEF Inv, Discipline, KindsApart
      <4>3. \A i \in Dev : \A c \in conns[i] : c.handle \notin riding
        BY <3>1 DEF RidingOn, Inv, Discipline, KindsApart
      <4>4. /\ \A i \in Dev : conns'[i] = IF i \in ends
                                          THEN {c \in conns[i] : c.handle # arg} ELSE conns[i]
            /\ \A i \in Dev : sco'[i] = IF i \in ends
                                        THEN {s \in sco[i] : s.handle \notin riding \cup {arg}}
                                        ELSE sco[i]
            /\ \A i \in Dev : told'[i] = IF i \in ends THEN told[i] \ (riding \cup {arg})
                                         ELSE told[i]
        BY <2>6, <3>3 DEF RouteDisconnect, DropSco
      <4> HIDE DEF ends, riding, arg
      <4>5. ASSUME NEW i \in Dev, i \in ends
            PROVE  HandlesOf(i)' = HandlesOf(i) \ (riding \cup {arg})
        <5>1. {c.handle : c \in conns'[i]} = {c.handle : c \in conns[i]} \ (riding \cup {arg})
          <6>1. conns'[i] = {c \in conns[i] : c.handle # arg}
            BY <4>4, <4>5
          <6>2. \A c \in conns[i] : c \in conns'[i] <=> c.handle \notin riding \cup {arg}
            BY <6>1, <4>3
          <6> QED BY <6>1, <6>2, HandlesLeft
        <5>2. {t.handle : t \in sco'[i]} = {t.handle : t \in sco[i]} \ (riding \cup {arg})
          <6>1. sco'[i] = {t \in sco[i] : t.handle \notin riding \cup {arg}}
            BY <4>4, <4>5
          <6> QED BY <6>1, HandlesLeft
        <5> QED BY <5>1, <5>2 DEF HandlesOf
      <4>6. ASSUME NEW i \in Dev, i \notin ends
            PROVE  HandlesOf(i)' = HandlesOf(i)
        BY <4>4, <4>6 DEF HandlesOf
      <4> QED BY <4>4, <4>5, <4>6 DEF HostToldOfLinks
    <3> QED BY <3>2, <3>3
  <2>7. CASE DrainDone \/ TickPaging \/ RouteAnswerUnmatched \/ RouteScoSetup \/ RouteDone
    <3>1. UNCHANGED <<told, conns, sco>>
      BY <2>7 DEF DrainDone, TickPaging, RouteAnswerUnmatched, RouteScoSetup, RouteDone, hosts
    <3> QED BY <3>1, <2>1
  <2>8. CASE HostCommand
    <3>1. (\E i \in Dev : Reset(i)) \/ UNCHANGED <<told, conns, sco>>
      BY <2>8 DEF HostCommand, WriteScanEnable, CreateConnection, CreateConnectionCancel,
             AnswerConnectionRequest, SetupSynchronousConnection,
             AnswerSynchronousRequest, Disconnect, hosts
    <3> QED BY <3>1, <2>1, <2>2
  <2>9. CASE UNCHANGED vars
    BY <2>1, <2>9 DEF vars, hosts
  <2> QED BY <2>3, <2>4, <2>5, <2>6, <2>7, <2>8, <2>9 DEF Next, Tick
<1> QED BY <1>1, <1>2, InvCorrect, PTL DEF Spec

================================================================================
