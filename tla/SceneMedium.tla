------------------------------ MODULE SceneMedium ------------------------------
(***************************************************************************)
(* A scene of devices on one medium: SceneEngine (scene/engine.rs) adds    *)
(* devices, stops them and advances them; Link (controller/sim.rs) keeps   *)
(* one controller per device in a vector and links that name their other   *)
(* end by its place in that vector.                                        *)
(*                                                                         *)
(* Engine and medium are called from one thread, so add, stop and tick are *)
(* steps; within a tick, the establishing of a link, its teardown and one  *)
(* packet along it are steps of their own.                                 *)
(***************************************************************************)
EXTENDS Naturals, Sequences, FiniteSets, Subsequences

CONSTANTS Addresses,  \* the addresses devices are given
          MaxSlots,   \* bound: devices added in a behaviour
          MaxLinks    \* bound: links made in a behaviour

VARIABLES
  devices,     \* SceneEngine.devices: address, started, stopped; never shrinks
  controllers, \* Link.controllers: whose device, its address, its links; a link's
               \* peer is an index, its end the device it was made to
  nextHandle,  \* the next handle the medium allocates
  misrouted,   \* a packet reached a device that is not the link's other end
  panicked     \* an index past the end of the vector was used

vars == <<devices, controllers, nextHandle, misrouted, panicked>>

Init ==
  /\ devices = <<>>
  /\ controllers = <<>>
  /\ nextHandle = 1
  /\ misrouted = FALSE
  /\ panicked = FALSE

InUse(a) == \E c \in DOMAIN controllers : controllers[c].address = a

\* The five add_* operations: a fresh controller at the end of the medium, and a slot.
AddDevice(a) ==
  /\ ~panicked
  /\ Len(devices) < MaxSlots
  /\ ~InUse(a)
  /\ devices' = Append(devices, [address |-> a, started |-> FALSE, stopped |-> FALSE])
  /\ controllers' = Append(controllers,
                      [device |-> Len(devices) + 1, address |-> a, links |-> {}])
  /\ UNCHANGED <<nextHandle, misrouted, panicked>>

\* Mutant of RemoveDevice: the first controller goes, whichever it is.
RemoveFirst(a) == Tail(controllers)

\* remove_device: the controllers at that address go, the ones after them move up.
RemoveDevice(a) == At(controllers, {c \in DOMAIN controllers : controllers[c].address # a})

\* A second stop of the same device changes nothing and is left out.
Stop(k) ==
  /\ ~panicked
  /\ ~devices[k].stopped
  /\ devices' = [devices EXCEPT ![k].stopped = TRUE]
  /\ controllers' = RemoveDevice(devices[k].address)
  /\ UNCHANGED <<nextHandle, misrouted, panicked>>

\* The first tick of a device queues its bring-up.
StartDevices ==
  /\ ~panicked
  /\ \E k \in DOMAIN devices : ~devices[k].started /\ ~devices[k].stopped
  /\ devices' = [k \in DOMAIN devices |->
                   [devices[k] EXCEPT !.started = @ \/ ~devices[k].stopped]]
  /\ UNCHANGED <<controllers, nextHandle, misrouted, panicked>>

Started(c) == devices[controllers[c].device].started

\* establish_connection, between controllers found by their place on the medium.
EstablishConnection(c, p) ==
  /\ ~panicked
  /\ c # p /\ Started(c) /\ Started(p)
  /\ nextHandle <= MaxLinks
  /\ LET link(to) == [handle |-> nextHandle, peer |-> to, end |-> controllers[to].device]
     IN  controllers' = [controllers EXCEPT ![c].links = @ \cup {link(p)},
                                            ![p].links = @ \cup {link(c)}]
  /\ nextHandle' = nextHandle + 1
  /\ UNCHANGED <<devices, misrouted, panicked>>

\* route_acl: the packet goes to controllers[peer], whoever that is by now.
RouteAcl(c, l) ==
  /\ ~panicked /\ Started(c)
  /\ IF l.peer \in DOMAIN controllers
     THEN /\ misrouted' = (misrouted \/ controllers[l.peer].device # l.end)
          /\ UNCHANGED panicked
     ELSE /\ panicked' = TRUE
          /\ UNCHANGED misrouted
  /\ UNCHANGED <<devices, controllers, nextHandle>>

\* route_disconnect drops the handle at both indices.
RouteDisconnect(c, l) ==
  /\ ~panicked /\ Started(c)
  /\ IF l.peer \in DOMAIN controllers
     THEN /\ controllers' = [d \in DOMAIN controllers |->
               IF d \in {c, l.peer}
               THEN [controllers[d] EXCEPT !.links = {m \in @ : m.handle # l.handle}]
               ELSE controllers[d]]
          /\ UNCHANGED panicked
     ELSE panicked' = TRUE /\ UNCHANGED controllers
  /\ UNCHANGED <<devices, nextHandle, misrouted>>

Next ==
  \/ \E a \in Addresses : AddDevice(a)
  \/ \E k \in DOMAIN devices : Stop(k)
  \/ StartDevices
  \/ \E c, p \in DOMAIN controllers : EstablishConnection(c, p)
  \/ \E c \in DOMAIN controllers : \E l \in controllers[c].links :
       RouteAcl(c, l) \/ RouteDisconnect(c, l)

Spec == Init /\ [][Next]_vars

--------------------------------------------------------------------------------
(***************************************************************************)
(* Properties.                                                             *)
(***************************************************************************)

\* The medium carries exactly the devices of the scene that were not stopped, each
\* once, under its own address and in the order they were added, whatever was
\* added, stopped and added again at a freed address: "it no longer ticks, routes,
\* or lists, and its address is released from the medium" (SceneEngine::stop).
MediumMatchesScene ==
  /\ {controllers[c].device : c \in DOMAIN controllers}
       = {k \in DOMAIN devices : ~devices[k].stopped}
  /\ \A c, d \in DOMAIN controllers : c < d => controllers[c].device < controllers[d].device
  /\ \A c \in DOMAIN controllers :
       controllers[c].address = devices[controllers[c].device].address

\* Violated.  remove_device's comment, "Removes the device at `address` from the
\* medium, so it is no longer heard", and stop's "it no longer ... routes": after a
\* stop, what a device sends on a link reaches the link's other end or nobody.
LinksSurviveStop == ~misrouted /\ ~panicked

--------------------------------------------------------------------------------
(***************************************************************************)
(* The medium matches the scene, for any number of devices, addresses and  *)
(* links.  The property is almost inductive: a stop removes whoever has    *)
(* the stopped device's address, so it must be the only one who has it.    *)
(***************************************************************************)

Slot == [address : Addresses, started : BOOLEAN, stopped : BOOLEAN]

LinkEnd == [handle : Nat, peer : Nat, end : Nat]

Controller == [device : Nat, address : Addresses, links : SUBSET LinkEnd]

TypeOK ==
  /\ devices \in Seq(Slot)
  /\ controllers \in Seq(Controller)
  /\ nextHandle \in Nat

AddressesUnique ==
  \A c, d \in DOMAIN controllers : controllers[c].address = controllers[d].address => c = d

SceneInv == TypeOK /\ MediumMatchesScene /\ AddressesUnique

LEMMA SceneShape ==
  ASSUME TypeOK
  PROVE  /\ Len(devices) \in Nat /\ DOMAIN devices = 1 .. Len(devices)
         /\ Len(controllers) \in Nat /\ DOMAIN controllers = 1 .. Len(controllers)
         /\ \A k \in DOMAIN devices : devices[k] \in Slot /\ devices[k].address \in Addresses
         /\ \A c \in DOMAIN controllers :
              /\ controllers[c] \in Controller /\ controllers[c].device \in Nat
              /\ controllers[c].links \subseteq LinkEnd
<1>1. devices \in Seq(Slot) /\ controllers \in Seq(Controller)
  BY DEF TypeOK
<1>2. \A k \in DOMAIN devices : devices[k] \in Slot
  BY <1>1
<1>3. \A c \in DOMAIN controllers : controllers[c] \in Controller
  BY <1>1
<1> QED BY <1>1, <1>2, <1>3 DEF Slot, Controller

\* The invariant again, as the steps establish it.
Matches(devs, ctls) ==
  /\ \A c \in DOMAIN ctls :
       /\ ctls[c].device \in DOMAIN devs /\ ~devs[ctls[c].device].stopped
       /\ ctls[c].address = devs[ctls[c].device].address
  /\ \A k \in DOMAIN devs : ~devs[k].stopped => \E c \in DOMAIN ctls : ctls[c].device = k
  /\ \A c, d \in DOMAIN ctls : c < d => ctls[c].device < ctls[d].device
  /\ \A c, d \in DOMAIN ctls : ctls[c].address = ctls[d].address => c = d

LEMMA InvMatches == SceneInv <=> TypeOK /\ Matches(devices, controllers)
BY DEF SceneInv, MediumMatchesScene, AddressesUnique, Matches

LEMMA MatchesInv ==
  ASSUME TypeOK', Matches(devices', controllers')
  PROVE  SceneInv'
BY DEF SceneInv, MediumMatchesScene, AddressesUnique, Matches

\* Starting devices and making or dropping links leave the match alone.
LEMMA MatchesSame ==
  ASSUME SceneInv, TypeOK',
         DOMAIN devices' = DOMAIN devices, DOMAIN controllers' = DOMAIN controllers,
         \A k \in DOMAIN devices : /\ devices'[k].stopped = devices[k].stopped
                                  /\ devices'[k].address = devices[k].address,
         \A c \in DOMAIN controllers : /\ controllers'[c].device = controllers[c].device
                                      /\ controllers'[c].address = controllers[c].address
  PROVE  SceneInv'
<1>1. Matches(devices, controllers)
  BY InvMatches
<1>2. Matches(devices', controllers')
  BY <1>1 DEF Matches
<1> QED BY <1>2, MatchesInv

LEMMA SceneAdds == ASSUME SceneInv, NEW a \in Addresses, AddDevice(a) PROVE SceneInv'
<1> DEFINE n == Len(devices)
           m == Len(controllers)
           slot == [address |-> a, started |-> FALSE, stopped |-> FALSE]
           ctl == [device |-> n + 1, address |-> a, links |-> {}]
<1>1. /\ TypeOK /\ Matches(devices, controllers)
      /\ n \in Nat /\ DOMAIN devices = 1 .. n /\ m \in Nat /\ DOMAIN controllers = 1 .. m
  BY InvMatches, SceneShape
<1>2. /\ devices' = Append(devices, slot) /\ controllers' = Append(controllers, ctl)
      /\ \A c \in DOMAIN controllers : controllers[c].address # a
      /\ nextHandle' = nextHandle
  BY DEF AddDevice, InUse
<1>3. slot \in Slot /\ ctl \in Controller
  BY <1>1 DEF Slot, Controller
<1>4. ~slot.stopped /\ slot.address = a /\ ctl.device = n + 1 /\ ctl.address = a
  OBVIOUS
<1> HIDE DEF slot, ctl, n, m
<1>5. TypeOK'
  BY <1>1, <1>2, <1>3 DEF TypeOK
<1>6. /\ DOMAIN devices' = 1 .. n + 1 /\ devices'[n + 1] = slot
      /\ \A k \in 1 .. n : devices'[k] = devices[k]
      /\ DOMAIN controllers' = 1 .. m + 1 /\ controllers'[m + 1] = ctl
      /\ \A c \in 1 .. m : controllers'[c] = controllers[c]
  BY <1>1, <1>2 DEF TypeOK, n, m
<1>7. \A c \in 1 .. m : /\ controllers[c].device \in 1 .. n /\ ~devices[controllers[c].device].stopped
                        /\ controllers[c].address = devices[controllers[c].device].address
  BY <1>1 DEF Matches
<1>8. Matches(devices', controllers')
  <2>1. \A c \in DOMAIN controllers' :
          /\ controllers'[c].device \in DOMAIN devices' /\ ~devices'[controllers'[c].device].stopped
          /\ controllers'[c].address = devices'[controllers'[c].device].address
    <3> TAKE c \in DOMAIN controllers'
    <3>1. CASE c = m + 1
      BY <1>1, <1>4, <1>6, <3>1
    <3>2. CASE c \in 1 .. m
      BY <1>1, <1>6, <1>7, <3>2
    <3> QED BY <1>1, <1>6, <3>1, <3>2
  <2>2. \A k \in DOMAIN devices' : ~devices'[k].stopped => \E c \in DOMAIN controllers' : controllers'[c].device = k
    <3> SUFFICES ASSUME NEW k \in DOMAIN devices', ~devices'[k].stopped
                 PROVE  \E c \in DOMAIN controllers' : controllers'[c].device = k
      OBVIOUS
    <3>1. CASE k = n + 1
      BY <1>1, <1>4, <1>6, <3>1
    <3>2. CASE k \in 1 .. n
      <4>1. PICK c \in 1 .. m : controllers[c].device = k
        BY <1>1, <1>6, <3>2 DEF Matches
      <4> QED BY <1>1, <1>6, <4>1
    <3> QED BY <1>1, <1>6, <3>1, <3>2
  <2>3. \A c, d \in DOMAIN controllers' : c < d => controllers'[c].device < controllers'[d].device
    <3> SUFFICES ASSUME NEW c \in DOMAIN controllers', NEW d \in DOMAIN controllers', c < d
                 PROVE  controllers'[c].device < controllers'[d].device
      OBVIOUS
    <3>1. c \in 1 .. m
      BY <1>1, <1>6
    <3>2. CASE d = m + 1
      BY <1>1, <1>4, <1>6, <1>7, <3>1, <3>2
    <3>3. CASE d \in 1 .. m
      BY <1>1, <1>6, <3>1, <3>3 DEF Matches
    <3> QED BY <1>1, <1>6, <3>2, <3>3
  <2>4. \A c, d \in DOMAIN controllers' : controllers'[c].address = controllers'[d].address => c = d
    <3>1. \A c, d \in 1 .. m : controllers[c].address = controllers[d].address => c = d
      BY <1>1 DEF Matches
    <3> QED BY <1>1, <1>2, <1>4, <1>6, <3>1
  <2> QED BY <2>1, <2>2, <2>3, <2>4 DEF Matches
<1> QED BY <1>5, <1>8, MatchesInv

LEMMA SceneStops == ASSUME SceneInv, NEW k \in DOMAIN devices, Stop(k) PROVE SceneInv'
<1> DEFINE a == devices[k].address
           I == {c \in DOMAIN controllers : controllers[c].address # a}
<1>1. /\ TypeOK /\ Matches(devices, controllers)
      /\ Len(devices) \in Nat /\ DOMAIN devices = 1 .. Len(devices)
  BY InvMatches, SceneShape
<1>2. /\ ~devices[k].stopped /\ devices' = [devices EXCEPT ![k].stopped = TRUE]
      /\ controllers' = At(controllers, I) /\ nextHandle' = nextHandle
  BY DEF Stop, RemoveDevice
<1>3. PICK z \in DOMAIN controllers : controllers[z].device = k /\ controllers[z].address = a
  BY <1>1, <1>2 DEF Matches
<1>4. \A c \in DOMAIN controllers : c \in I <=> c # z
  BY <1>1, <1>3 DEF Matches
<1>5. \A c \in DOMAIN controllers : c # z => controllers[c].device # k
  <2> SUFFICES ASSUME NEW c \in DOMAIN controllers, c # z, controllers[c].device = k PROVE FALSE
    OBVIOUS
  <2>1. controllers[c].address = a
    BY <1>1 DEF Matches
  <2> QED BY <1>1, <1>3, <2>1 DEF Matches
<1>6. I \subseteq DOMAIN controllers /\ controllers \in Seq(Controller)
  BY <1>1 DEF TypeOK
<1> HIDE DEF I, a
<1>7. /\ controllers' \in Seq(Controller)
      /\ \A c \in DOMAIN controllers' : Place(I, c) \in I /\ controllers'[c] = controllers[Place(I, c)]
      /\ \A i \in I : Rank(I, i) \in DOMAIN controllers' /\ controllers'[Rank(I, i)] = controllers[i]
      /\ \A c, d \in DOMAIN controllers' : c < d => Place(I, c) < Place(I, d)
  BY <1>2, <1>6, AtPlaces
<1>8. \A s \in Slot : /\ [s EXCEPT !.stopped = TRUE] \in Slot
                      /\ [s EXCEPT !.stopped = TRUE].stopped
                      /\ [s EXCEPT !.stopped = TRUE].address = s.address
  BY DEF Slot
<1>9. /\ devices' \in Seq(Slot) /\ DOMAIN devices' = DOMAIN devices
      /\ \A j \in DOMAIN devices : j # k => devices'[j] = devices[j]
      /\ devices'[k].stopped /\ devices'[k].address = devices[k].address
  <2>1. devices[k] \in Slot /\ devices \in Seq(Slot)
    BY <1>1, SceneShape DEF TypeOK
  <2>2. devices' = [devices EXCEPT ![k] = [devices[k] EXCEPT !.stopped = TRUE]]
    BY <1>2
  <2> QED BY <1>1, <1>8, <2>1, <2>2
<1>10. TypeOK'
  BY <1>1, <1>2, <1>7, <1>9 DEF TypeOK
<1>11. Matches(devices', controllers')
  <2>1. ASSUME NEW c \in DOMAIN controllers'
        PROVE  /\ controllers'[c].device \in DOMAIN devices' /\ ~devices'[controllers'[c].device].stopped
               /\ controllers'[c].address = devices'[controllers'[c].device].address
    <3> DEFINE i == Place(I, c)
    <3>1. i \in DOMAIN controllers /\ i # z /\ controllers'[c] = controllers[i]
      BY <1>4, <1>6, <1>7
    <3> HIDE DEF i
    <3>2. controllers[i].device # k /\ controllers[i].device \in DOMAIN devices
      BY <1>1, <1>5, <3>1 DEF Matches
    <3> QED BY <1>1, <1>9, <3>1, <3>2 DEF Matches
  <2>2. ASSUME NEW j \in DOMAIN devices', ~devices'[j].stopped
        PROVE  \E c \in DOMAIN controllers' : controllers'[c].device = j
    <3>1. j \in DOMAIN devices /\ j # k /\ ~devices[j].stopped
      BY <1>9, <2>2
    <3>2. PICK i \in DOMAIN controllers : controllers[i].device = j
      BY <1>1, <3>1 DEF Matches
    <3>3. i \in I
      BY <1>3, <1>4, <3>1, <3>2
    <3> QED BY <1>7, <3>2, <3>3
  <2>3. ASSUME NEW c \in DOMAIN controllers', NEW d \in DOMAIN controllers', c < d
        PROVE  controllers'[c].device < controllers'[d].device
    <3>1. /\ Place(I, c) \in DOMAIN controllers /\ Place(I, d) \in DOMAIN controllers
          /\ Place(I, c) < Place(I, d)
          /\ controllers'[c] = controllers[Place(I, c)] /\ controllers'[d] = controllers[Place(I, d)]
      BY <1>6, <1>7, <2>3
    <3> QED BY <1>1, <3>1 DEF Matches
  <2>4. ASSUME NEW c \in DOMAIN controllers', NEW d \in DOMAIN controllers',
               controllers'[c].address = controllers'[d].address
        PROVE  c = d
    <3>1. /\ Place(I, c) \in DOMAIN controllers /\ Place(I, d) \in DOMAIN controllers
          /\ controllers'[c] = controllers[Place(I, c)] /\ controllers'[d] = controllers[Place(I, d)]
      BY <1>6, <1>7
    <3>2. Place(I, c) = Place(I, d) /\ Place(I, c) \in Nat
      BY <1>1, <2>4, <3>1, SceneShape DEF Matches
    <3>3. ~(c < d) /\ ~(d < c) /\ c \in Nat /\ d \in Nat
      BY <1>7, <3>2
    <3> QED BY <3>3
  <2> QED BY <2>1, <2>2, <2>3, <2>4 DEF Matches
<1> QED BY <1>10, <1>11, MatchesInv

LEMMA SceneStep == SceneInv /\ [Next]_vars => SceneInv'
<1> SUFFICES ASSUME SceneInv, [Next]_vars PROVE SceneInv'
  OBVIOUS
<1>0. /\ TypeOK /\ Len(devices) \in Nat /\ DOMAIN devices = 1 .. Len(devices)
      /\ Len(controllers) \in Nat /\ DOMAIN controllers = 1 .. Len(controllers)
      /\ \A k \in DOMAIN devices : devices[k] \in Slot
      /\ \A c \in DOMAIN controllers : controllers[c] \in Controller
  BY SceneShape DEF SceneInv
<1>r. \A c \in Controller, L \in SUBSET LinkEnd :
        /\ [c EXCEPT !.links = L] \in Controller /\ [c EXCEPT !.links = L].device = c.device
        /\ [c EXCEPT !.links = L].address = c.address
  BY DEF Controller
\* Steps that change the links of some controllers and nothing else of them.
<1>l. ASSUME devices' = devices, nextHandle' \in Nat, NEW L \in [DOMAIN controllers -> SUBSET LinkEnd],
             controllers' = [c \in DOMAIN controllers |-> [controllers[c] EXCEPT !.links = L[c]]]
      PROVE  SceneInv'
  <2>1. \A c \in DOMAIN controllers :
          /\ controllers'[c] \in Controller /\ controllers'[c].device = controllers[c].device
          /\ controllers'[c].address = controllers[c].address
    BY <1>0, <1>l, <1>r
  <2>2. DOMAIN controllers' = DOMAIN controllers /\ controllers' \in Seq(Controller)
    BY <1>0, <1>l, <2>1
  <2>3. TypeOK'
    BY <1>0, <1>l, <2>2 DEF TypeOK
  <2> QED BY <1>l, <2>1, <2>2, <2>3, MatchesSame
<1>1. CASE \E a \in Addresses : AddDevice(a)
  BY <1>1, SceneAdds
<1>2. CASE \E k \in DOMAIN devices : Stop(k)
  BY <1>2, SceneStops
<1>3. CASE StartDevices
  <2>1. /\ devices' = [k \in DOMAIN devices |-> [devices[k] EXCEPT !.started = @ \/ ~devices[k].stopped]]
        /\ controllers' = controllers /\ nextHandle' = nextHandle
    BY <1>3 DEF StartDevices
  <2>2. \A s \in Slot, b \in BOOLEAN : /\ [s EXCEPT !.started = b] \in Slot
                                        /\ [s EXCEPT !.started = b].stopped = s.stopped
                                        /\ [s EXCEPT !.started = b].address = s.address
    BY DEF Slot
  <2>3. ASSUME NEW k \in DOMAIN devices
        PROVE  /\ devices'[k] \in Slot /\ devices'[k].stopped = devices[k].stopped
               /\ devices'[k].address = devices[k].address
    <3>1. devices[k] \in Slot /\ (devices[k].started \/ ~devices[k].stopped) \in BOOLEAN
      BY <1>0
    <3>2. devices'[k] = [devices[k] EXCEPT !.started = devices[k].started \/ ~devices[k].stopped]
      BY <2>1
    <3> QED BY <2>2, <3>1, <3>2
  <2>4. DOMAIN devices' = DOMAIN devices /\ devices' \in Seq(Slot)
    <3> DEFINE n == Len(devices)
               g(k) == [devices[k] EXCEPT !.started = @ \/ ~devices[k].stopped]
    <3>1. devices' = [k \in 1 .. n |-> g(k)] /\ n \in Nat /\ DOMAIN devices = 1 .. n
      BY <1>0, <2>1
    <3> HIDE DEF g, n
    <3>2. devices' \in [1 .. n -> Slot]
      BY <2>3, <3>1
    <3> QED BY <3>1, <3>2
  <2>5. TypeOK'
    BY <1>0, <2>1, <2>4 DEF TypeOK
  <2> QED BY <2>1, <2>3, <2>4, <2>5, MatchesSame
<1>4. CASE \E c, p \in DOMAIN controllers : EstablishConnection(c, p)
  <2> PICK c \in DOMAIN controllers, p \in DOMAIN controllers : EstablishConnection(c, p)
    BY <1>4
  <2> DEFINE link(to) == [handle |-> nextHandle, peer |-> to, end |-> controllers[to].device]
             L == [d \in DOMAIN controllers |->
                     IF d = c THEN controllers[d].links \cup {link(p)}
                     ELSE IF d = p THEN controllers[d].links \cup {link(c)}
                     ELSE controllers[d].links]
  <2>1. \A d \in DOMAIN controllers : link(d) \in LinkEnd /\ controllers[d].links \in SUBSET LinkEnd
    BY <1>0, SceneShape DEF LinkEnd, TypeOK
  <2>2. L \in [DOMAIN controllers -> SUBSET LinkEnd]
    BY <2>1
  <2>3. c # p /\ devices' = devices /\ nextHandle' \in Nat
    BY <1>0 DEF EstablishConnection, TypeOK
  <2>4. controllers' = [controllers EXCEPT ![c].links = @ \cup {link(p)}, ![p].links = @ \cup {link(c)}]
    BY DEF EstablishConnection
  <2> HIDE DEF link
  <2>5. controllers' = [d \in DOMAIN controllers |-> [controllers[d] EXCEPT !.links = L[d]]]
    <3>1. \A d \in DOMAIN controllers : controllers[d] = [controllers[d] EXCEPT !.links = controllers[d].links]
      BY <1>0 DEF Controller
    <3> QED BY <1>0, <2>3, <2>4, <3>1
  <2> HIDE DEF L
  <2> QED BY <1>l, <2>2, <2>3, <2>5
<1>5. CASE \E c \in DOMAIN controllers : \E l \in controllers[c].links : RouteAcl(c, l)
  <2>1. UNCHANGED <<devices, controllers, nextHandle>>
    BY <1>5 DEF RouteAcl
  <2> QED BY <2>1 DEF SceneInv, TypeOK, MediumMatchesScene, AddressesUnique
<1>6. CASE \E c \in DOMAIN controllers : \E l \in controllers[c].links : RouteDisconnect(c, l)
  <2> PICK c \in DOMAIN controllers : \E l \in controllers[c].links : RouteDisconnect(c, l)
    BY <1>6
  <2> PICK l \in controllers[c].links : RouteDisconnect(c, l)
    OBVIOUS
  <2>0. UNCHANGED <<devices, nextHandle>>
    BY DEF RouteDisconnect
  <2>1. CASE UNCHANGED controllers
    BY <2>0, <2>1 DEF SceneInv, TypeOK, MediumMatchesScene, AddressesUnique
  <2>2. CASE controllers' = [d \in DOMAIN controllers |->
               IF d \in {c, l.peer}
               THEN [controllers[d] EXCEPT !.links = {m \in @ : m.handle # l.handle}]
               ELSE controllers[d]]
    <3> DEFINE L == [d \in DOMAIN controllers |->
                       IF d \in {c, l.peer} THEN {m \in controllers[d].links : m.handle # l.handle}
                       ELSE controllers[d].links]
    <3>1. \A d \in DOMAIN controllers : controllers[d] = [controllers[d] EXCEPT !.links = controllers[d].links]
      BY <1>0 DEF Controller
    <3>2. L \in [DOMAIN controllers -> SUBSET LinkEnd]
      BY <1>0, SceneShape
    <3>3. controllers' = [d \in DOMAIN controllers |-> [controllers[d] EXCEPT !.links = L[d]]]
      BY <2>2, <3>1
    <3> HIDE DEF L
    <3> QED BY <1>0, <1>l, <2>0, <3>2, <3>3 DEF TypeOK
  <2> QED BY <2>1, <2>2 DEF RouteDisconnect
<1>7. CASE UNCHANGED vars
  BY <1>7 DEF vars, SceneInv, TypeOK, MediumMatchesScene, AddressesUnique
<1> QED BY <1>1, <1>2, <1>3, <1>4, <1>5, <1>6, <1>7 DEF Next

\* Whatever is added, stopped and added again at a freed address, the medium carries
\* the devices of the scene that were not stopped and no others, each once, under its
\* own address and in the order of their slots.
THEOREM SceneTheorem == Spec => []MediumMatchesScene
<1>1. Init => SceneInv
  BY DEF Init, SceneInv, TypeOK, MediumMatchesScene, AddressesUnique
<1>2. SceneInv => MediumMatchesScene
  BY DEF SceneInv
<1> QED BY <1>1, <1>2, SceneStep, PTL DEF Spec

================================================================================
