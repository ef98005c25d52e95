---------------------------- MODULE ClassicSecurity ----------------------------
(***************************************************************************)
(* Secure Simple Pairing, authentication and encryption of BR/EDR links in *)
(* controller/sim.rs, between two controllers.                             *)
(*                                                                         *)
(* A pairing conversation belongs to neither controller: both hosts are    *)
(* asked the same question, and whichever answer comes last moves it on.   *)
(* Answers are deferred like every cross-controller effect, so between a   *)
(* host's answer and its effect the link may go (Disconnect, Reset), the   *)
(* conversation may be pruned, or the other host's answer may end it.      *)
(*                                                                         *)
(* How links come up is ClassicLink's subject; here Connect makes one.     *)
(* Hosts answer what they are asked, once, with any answer.  A link key is *)
(* represented by how often it was rotated, the six digits by whether they *)
(* are the ones displayed.                                                 *)
(***************************************************************************)
EXTENDS Naturals, Sequences, Subsequences

CONSTANTS Caps,        \* the IO capabilities hosts answer with, as [io, mitm] records
          MaxLinks,    \* bound: links made in a behaviour
          MaxRotation, \* bound: Change Connection Link Key on one link
          MaxActions,  \* bound: Actions queued in one tick
          Ops          \* the commands the hosts of this instance send

ASSUME LinksAssumption == MaxLinks \in Nat

End == {1, 2}

Other(e) == 3 - e

IoCapability == {"NoInputNoOutput", "KeyboardOnly", "DisplayOnly", "DisplayYesNo"}

ASSUME CapsAssumption == Caps \subseteq [io : IoCapability, mitm : BOOLEAN]

Link == 1..MaxLinks

\* A link as one controller holds it, and one it does not hold.
Down == [up |-> FALSE, authenticated |-> FALSE, encrypted |-> FALSE, rotations |-> 0]

Up == [Down EXCEPT !.up = TRUE]

\* The link key a host has stored for the other: none, or a rotation and a type.
NoKey == [rotation |-> 0, type |-> "none"]

\* An answer that has not come; key answers and decisions.
Pending == "?"

NoAnswer == [NoKey EXCEPT !.type = Pending]

NoCaps == [io |-> "?", mitm |-> FALSE]

\* Deferred commands carry one argument, of a type that depends on the command.
VARIABLES
  phase,     \* "drain" or "route" of Link::tick
  turn,      \* the controller whose queue is being drained
  actions,   \* deferred Actions, in order
  made,      \* links made so far; the last handle given out
  conn,      \* conn[e][h]: the connection h as controller e holds it
  ssp,       \* ssp[e]: Simple Pairing Mode
  pairings   \* the conversations, in the order they were opened

VARIABLES
  asked,     \* asked[e]: the questions host e has not yet answered
  said,      \* said[e]: what the user at e answered last, in this conversation
  bond,      \* bond[e]: the link key host e has stored
  authDue    \* <<e, h>>: host e is owed an Authentication Complete for h

hosts == <<asked, said, bond, authDue>>

vars == <<phase, turn, actions, made, conn, ssp, pairings, hosts>>

Init ==
  /\ phase = "drain"
  /\ turn = 1
  /\ actions = <<>>
  /\ made = 0
  /\ conn = [e \in End |-> [h \in Link |-> Down]]
  /\ ssp = [e \in End |-> FALSE]
  /\ pairings = <<>>
  /\ asked = [e \in End |-> {}]
  /\ said = [e \in End |-> "nothing"]
  /\ bond = [e \in End |-> NoKey]
  /\ authDue = {}

--------------------------------------------------------------------------------
(***************************************************************************)
(* Drain: handle_security_command.                                         *)
(***************************************************************************)

Queue(e, op, handle, arg) ==
  /\ phase = "drain"
  /\ turn = e
  /\ op \in Ops
  /\ actions' = Append(actions, [op |-> op, from |-> e, handle |-> handle, arg |-> arg])
  /\ UNCHANGED <<phase, turn, made, conn, ssp, pairings, bond>>

\* Commands are bounded in number, replies by the questions asked.
Send(e, op, handle, arg) == Len(actions) < MaxActions /\ Queue(e, op, handle, arg)

Connect(e) ==
  /\ Send(e, "connect", 0, "")
  /\ \A h \in Link : ~conn[e][h].up
  /\ UNCHANGED <<asked, said, authDue>>

AuthenticationRequested(e, h) ==
  /\ Send(e, "authenticate", h, "")
  /\ conn[e][h].up
  /\ authDue' = authDue \cup {<<e, h>>}
  /\ UNCHANGED <<asked, said>>

SetConnectionEncryption(e, h, on) ==
  /\ Send(e, "encrypt", h, on)
  /\ conn[e][h].up
  /\ UNCHANGED <<asked, said, authDue>>

ChangeConnectionLinkKey(e, h) ==
  /\ Send(e, "changeKey", h, "")
  /\ conn[e][h].up /\ conn[e][h].authenticated
  /\ UNCHANGED <<asked, said, authDue>>

Disconnect(e, h) ==
  /\ Send(e, "disconnect", h, "")
  /\ conn[e][h].up
  /\ UNCHANGED <<asked, said, authDue>>

Answer(e, question, op, arg) ==
  /\ question \in asked[e]
  /\ Queue(e, op, 0, arg)
  /\ asked' = [asked EXCEPT ![e] = @ \ {question}]
  /\ UNCHANGED authDue

\* A host answers with the key it has stored, or that it has none.
LinkKeyReply(e) ==
  /\ Answer(e, "key", "keyReply", bond[e])
  /\ UNCHANGED said

IoCapabilityReply(e, caps) == Answer(e, "io", "ioReply", caps) /\ UNCHANGED said

IoCapabilityNegativeReply(e) == Answer(e, "io", "ioReply", NoCaps) /\ UNCHANGED said

UserConfirmationReply(e, accept) ==
  /\ Answer(e, "confirm", "confirm", accept)
  /\ said' = [said EXCEPT ![e] = accept]

\* The digits typed are the right ones, others, or none.
UserPasskeyReply(e, digits) ==
  /\ Answer(e, "passkey", "passkey", digits)
  /\ said' = [said EXCEPT ![e] = IF digits = "none" THEN "no" ELSE "yes"]

\* Hosts switch it on; Reset switches it off.
WriteSimplePairingMode(e) ==
  /\ phase = "drain" /\ turn = e /\ "ssp" \in Ops
  /\ ssp' = [ssp EXCEPT ![e] = TRUE]
  /\ UNCHANGED <<phase, turn, actions, made, conn, pairings, hosts>>

\* The host's own store, emptied by its user.
Forget(e) ==
  /\ phase = "drain" /\ turn = e /\ "forget" \in Ops
  /\ bond[e] # NoKey
  /\ bond' = [bond EXCEPT ![e] = NoKey]
  /\ UNCHANGED <<phase, turn, actions, made, conn, ssp, pairings, asked, said, authDue>>

Reset(e) ==
  /\ phase = "drain" /\ turn = e /\ "reset" \in Ops
  /\ conn' = [conn EXCEPT ![e] = [h \in Link |-> Down]]
  /\ ssp' = [ssp EXCEPT ![e] = FALSE]
  /\ asked' = [asked EXCEPT ![e] = {}]
  /\ authDue' = {d \in authDue : d[1] # e}
  /\ UNCHANGED <<phase, turn, actions, made, pairings, said, bond>>

\* prune_pairings keeps a conversation whose link both controllers hold.
Lives(p) == \A e \in End : conn[e][p.handle].up

\* The conversations that stay, in their order (Vec::retain).
Pruned == At(pairings, {k \in DOMAIN pairings : Lives(pairings[k])})

DrainDone ==
  /\ phase = "drain"
  /\ turn' = Other(turn)
  /\ phase' = IF turn = 2 THEN "route" ELSE "drain"
  /\ pairings' = IF turn = 2 THEN Pruned ELSE pairings
  /\ UNCHANGED <<actions, made, conn, ssp, hosts>>

HostCommand ==
  \E e \in End :
    \/ Connect(e)
    \/ \E h \in Link :
         \/ AuthenticationRequested(e, h)
         \/ \E on \in BOOLEAN : SetConnectionEncryption(e, h, on)
         \/ ChangeConnectionLinkKey(e, h)
         \/ Disconnect(e, h)
    \/ WriteSimplePairingMode(e)
    \/ Forget(e)
    \/ Reset(e)

HostReply(e) ==
  \/ LinkKeyReply(e)
  \/ \E caps \in Caps : IoCapabilityReply(e, caps)
  \/ IoCapabilityNegativeReply(e)
  \/ \E accept \in {"yes", "no"} : UserConfirmationReply(e, accept)
  \/ \E digits \in {"right", "other", "none"} : UserPasskeyReply(e, digits)

--------------------------------------------------------------------------------
(***************************************************************************)
(* Route: the deferred Actions, in order.                                  *)
(***************************************************************************)

Now(ops) ==
  /\ phase = "route"
  /\ actions # <<>>
  /\ Head(actions).op \in ops
  /\ actions' = Tail(actions)
  /\ UNCHANGED <<phase, turn>>

\* peer_of: with two controllers, a held link names the other one.
Holds(e, h) == conn[e][h].up

\* An accepted page (ClassicLink!RouteAnswerPage), one link at a time: two links
\* of one pair, from crossing pages, are ClassicLink's subject.  A controller that
\* was Reset may leave the other holding an older link.
RouteConnect ==
  /\ Now({"connect"})
  /\ IF made < MaxLinks /\ \A h \in Link : \E e \in End : ~Holds(e, h)
     THEN /\ made' = made + 1
          /\ conn' = [e \in End |-> [conn[e] EXCEPT ![made + 1] = Up]]
     ELSE UNCHANGED <<made, conn>>
  /\ UNCHANGED <<ssp, pairings, hosts>>

RouteDisconnect ==
  LET from == Head(actions).from
      h == Head(actions).handle
  IN
  /\ Now({"disconnect"})
  /\ IF Holds(from, h)
     THEN /\ conn' = [e \in End |-> [conn[e] EXCEPT ![h] = Down]]
          /\ authDue' = {d \in authDue : d[2] # h}
     ELSE UNCHANGED <<conn, authDue>>
  /\ UNCHANGED <<made, ssp, pairings, asked, said, bond>>

\* One conversation per link: a second request joins nothing and is dropped.
RouteAuthenticate ==
  LET from == Head(actions).from
      h == Head(actions).handle
  IN
  /\ Now({"authenticate"})
  /\ IF Holds(from, h) /\ \A k \in DOMAIN pairings : pairings[k].handle # h
     THEN /\ pairings' = Append(pairings,
               [handle |-> h, asker |-> from, stage |-> "LinkKey", model |-> "JustWorks",
                key |-> [e \in End |-> NoAnswer], io |-> [e \in End |-> NoCaps],
                decision |-> [e \in End |-> Pending], entered |-> [e \in End |-> "none"]])
          /\ asked' = [e \in End |-> asked[e] \cup {"key"}]
     ELSE UNCHANGED <<pairings, asked>>
  /\ UNCHANGED <<made, conn, ssp, said, bond, authDue>>

\* No key, no encryption, and nothing changes at either end.
MayEncrypt(from, h, on) == on => conn[from][h].authenticated

\* Mutant of EncryptedEnds: only the asking end flips.
EncryptedNear(from) == {from}

EncryptedEnds(from) == End

RouteSetConnectionEncryption ==
  LET from == Head(actions).from
      h == Head(actions).handle
      on == Head(actions).arg
  IN
  /\ Now({"encrypt"})
  /\ conn' = IF Holds(from, h) /\ MayEncrypt(from, h, on)
             THEN [e \in End |-> IF e \in EncryptedEnds(from) /\ Holds(e, h)
                                 THEN [conn[e] EXCEPT ![h].encrypted = on]
                                 ELSE conn[e]]
             ELSE conn
  /\ UNCHANGED <<made, ssp, pairings, hosts>>

\* Mutant of KeyNotified: only the asking host hears of the new key.
NotifiedNear(from) == {from}

\* link_key_notification goes to both hosts.
KeyNotified(from) == End

\* The next key for this link, notified to both hosts.
RouteChangeConnectionLinkKey ==
  LET from == Head(actions).from
      h == Head(actions).handle
      rotation == conn[from][h].rotations + 1
  IN
  /\ Now({"changeKey"})
  /\ IF Holds(from, h) /\ rotation <= MaxRotation
     THEN /\ conn' = [e \in End |-> IF Holds(e, h)
                                    THEN [conn[e] EXCEPT ![h].rotations = rotation]
                                    ELSE conn[e]]
          /\ bond' = [e \in End |-> IF e \in KeyNotified(from)
                                    THEN [rotation |-> rotation, type |-> "unauthenticated"]
                                    ELSE bond[e]]
     ELSE UNCHANGED <<conn, bond>>
  /\ UNCHANGED <<made, ssp, pairings, asked, said, authDue>>

\* association_model: neither side asks for protection, or a side can neither
\* show nor type: Just Works.  A keyboard anywhere: Passkey Entry.
AssociationModel(a, b) ==
  CASE ~a.mitm /\ ~b.mitm -> "JustWorks"
    [] "NoInputNoOutput" \in {a.io, b.io} -> "JustWorks"
    [] "KeyboardOnly" \in {a.io, b.io} -> "PasskeyEntry"
    [] {a.io, b.io} = {"DisplayYesNo"} -> "NumericComparison"
    [] OTHER -> "JustWorks"

\* The conversation a reply belongs to: the first with this pair of controllers.
Current == Head(pairings)

AtStage(stage) == pairings # <<>> /\ Current.stage = stage

Replying(ops, stage) == Now(ops) /\ AtStage(stage)

\* The reply finds no conversation, or one that is no longer at its stage.
RouteStaleReply ==
  /\ \/ Now({"keyReply"}) /\ ~AtStage("LinkKey")
     \/ Now({"ioReply"}) /\ ~AtStage("IoCapability")
     \/ Now({"confirm", "passkey"}) /\ ~AtStage("UserAction")
  /\ UNCHANGED <<made, conn, ssp, pairings, hosts>>

\* finish_pairing: mark the link at the ends that still hold it and tell the host
\* that asked, and nobody else.
Finish(success) ==
  LET h == Current.handle IN
  /\ said' = [e \in End |-> "nothing"]
  /\ pairings' = Tail(pairings)
  /\ conn' = [e \in End |-> IF success /\ Holds(e, h)
                            THEN [conn[e] EXCEPT ![h].authenticated = TRUE]
                            ELSE conn[e]]
  /\ authDue' = authDue \ {<<Current.asker, h>>}

Continue(p) ==
  /\ pairings' = <<p>> \o Tail(pairings)
  /\ UNCHANGED <<conn, said, authDue>>

\* Both hosts stored a key, and its bytes are the same.
SameKey(a, b) == NoKey \notin {a, b} /\ a.rotation = b.rotation

\* A stage's answers are not read once it is over: key answers, and below io, are
\* cleared when the conversation moves on.
Unread == [e \in End |-> NoAnswer]

\* Two equal stored keys end it here; otherwise both hosts are asked for their
\* capabilities, if both switched Simple Pairing on.
RouteLinkKeyReply ==
  LET key == [Current.key EXCEPT ![Head(actions).from] = Head(actions).arg] IN
  /\ Replying({"keyReply"}, "LinkKey")
  /\ CASE NoAnswer \in {key[1], key[2]} ->
            Continue([Current EXCEPT !.key = key]) /\ UNCHANGED asked
       [] NoAnswer \notin {key[1], key[2]} /\ SameKey(key[1], key[2]) ->
            Finish(TRUE) /\ UNCHANGED asked
       [] OTHER ->
            IF \E e \in End : ~ssp[e]
            THEN Finish(FALSE) /\ UNCHANGED asked
            ELSE /\ Continue([Current EXCEPT !.key = Unread, !.stage = "IoCapability"])
                 /\ asked' = [e \in End |-> asked[e] \cup {"io"}]
  /\ UNCHANGED <<made, ssp, bond>>

\* A display under Passkey Entry is told the digits and has agreed; everyone else
\* is asked.
Notified(model, caps) == model = "PasskeyEntry" /\ caps.io # "KeyboardOnly"

Question(model, caps) ==
  CASE Notified(model, caps) -> {}
    [] model = "PasskeyEntry" /\ ~Notified(model, caps) -> {"passkey"}
    [] OTHER -> {"confirm"}

\* Mutant of FirstDecision: the display is told, and then waited for.
DisplayUndecided(model, caps) == Pending

FirstDecision(model, caps) == IF Notified(model, caps) THEN "yes" ELSE Pending

\* Mutant of Agreed: one yes is enough.
AgreedByOne(p, decision, entered) == "yes" \in {decision[1], decision[2]}

\* Both decisions are yes and, under Passkey Entry, the digits are the same.
Agreed(p, decision, entered) ==
  /\ decision[1] = "yes" /\ decision[2] = "yes"
  /\ p.model = "PasskeyEntry" => entered[1] # "none" /\ entered[1] = entered[2]

KeyType(model) == IF model = "JustWorks" THEN "unauthenticated" ELSE "authenticated"

\* advance_pairing at UserAction: wait for a decision that is missing, or end the
\* conversation, with a new key for both hosts when they agreed.
AdvanceUserAction(p, decision, entered) ==
  CASE \E e \in End : decision[e] = Pending ->
         /\ Continue([p EXCEPT !.decision = decision, !.entered = entered])
         /\ UNCHANGED bond
    [] (\A e \in End : decision[e] # Pending) /\ Agreed(p, decision, entered) ->
         /\ Finish(TRUE)
         /\ bond' = [e \in End |-> [rotation |-> 0, type |-> KeyType(p.model)]]
    [] OTHER -> Finish(FALSE) /\ UNCHANGED bond

\* With both capabilities in, both ends are asked or told, and the conversation
\* advances again at once: a display's decision is in already.
RouteIoCapabilityReply ==
  LET io == [Current.io EXCEPT ![Head(actions).from] = Head(actions).arg]
      model == AssociationModel(io[Current.asker], io[Other(Current.asker)])
  IN
  /\ Replying({"ioReply"}, "IoCapability")
  /\ CASE Head(actions).arg = NoCaps -> Finish(FALSE) /\ UNCHANGED <<asked, bond>>
       [] Head(actions).arg # NoCaps /\ NoCaps \in {io[1], io[2]} ->
            Continue([Current EXCEPT !.io = io]) /\ UNCHANGED <<asked, bond>>
       [] OTHER ->
            /\ AdvanceUserAction(
                 [Current EXCEPT !.io = [e \in End |-> NoCaps], !.model = model, !.stage = "UserAction"],
                 [e \in End |-> FirstDecision(model, io[e])],
                 [e \in End |-> IF Notified(model, io[e]) THEN "right" ELSE "none"])
            /\ asked' = [e \in End |-> asked[e] \cup Question(model, io[e])]
  /\ UNCHANGED <<made, ssp>>

RouteUserReply ==
  LET from == Head(actions).from
      arg == Head(actions).arg
      typed == Head(actions).op = "passkey"
      decision == [Current.decision EXCEPT ![from] = IF ~typed THEN arg ELSE IF arg = "none" THEN "no" ELSE "yes"]
      entered == IF typed THEN [Current.entered EXCEPT ![from] = arg] ELSE Current.entered
  IN
  /\ Replying({"confirm", "passkey"}, "UserAction")
  /\ AdvanceUserAction(Current, decision, entered)
  /\ UNCHANGED <<made, ssp, asked>>

RouteDone ==
  /\ phase = "route"
  /\ actions = <<>>
  /\ phase' = "drain"
  /\ UNCHANGED <<turn, actions, made, conn, ssp, pairings, hosts>>

Tick ==
  \/ DrainDone
  \/ RouteConnect
  \/ RouteDisconnect
  \/ RouteAuthenticate
  \/ RouteSetConnectionEncryption
  \/ RouteChangeConnectionLinkKey
  \/ RouteStaleReply
  \/ RouteLinkKeyReply
  \/ RouteIoCapabilityReply
  \/ RouteUserReply
  \/ RouteDone

Next == HostCommand \/ (\E e \in End : HostReply(e)) \/ Tick

Spec == Init /\ [][Next]_vars

\* Ticks run to their end, and a host that is asked answers: its queue is drained
\* again and again while it has its turn.
FairSpec == Spec /\ WF_vars(Tick) /\ \A e \in End : SF_vars(HostReply(e))

--------------------------------------------------------------------------------
(***************************************************************************)
(* Properties.                                                             *)
(***************************************************************************)

\* What a held link has become: an encrypted link has been authenticated, at both
\* of its ends or at neither, and its ends count the same key rotations.  Each is
\* set by a different deferred Action, in whatever order both hosts' commands,
\* replies, Disconnects and Resets are routed: "a link that came back encrypted on
\* one side only would be worse than one that stayed clear".
EncryptionMirrored ==
  \A h \in Link :
    (\A e \in End : Holds(e, h)) =>
      /\ conn[1][h] = conn[2][h]
      /\ conn[1][h].encrypted => conn[1][h].authenticated

\* Two hosts that each hold a link key for the other hold the same one, whatever
\* was paired, changed, dropped and forgotten in between: finish_pairing and Change
\* Connection Link Key notify both ends, so the bonded path never fails.
BondsAgree == (\A e \in End : bond[e] # NoKey) => bond[1] = bond[2]

\* Nobody waits for an answer that nobody was asked for: what a conversation on a
\* live link still misses from a host is a question that host has not answered, or
\* an answer on its way (advance_pairing asks whoever it will wait for).
AnswersAwaited ==
  \A k \in DOMAIN pairings, e \in End :
    LET p == pairings[k]
        awaits(ops) == asked[e] \cap ops # {} \/
          \E n \in DOMAIN actions : actions[n].from = e /\ actions[n].op \in ops
    IN  Lives(p) =>
          /\ p.stage = "LinkKey" /\ p.key[e] = NoAnswer => awaits({"key", "keyReply"})
          /\ p.stage = "IoCapability" /\ p.io[e] = NoCaps => awaits({"io", "ioReply"})
          /\ p.stage = "UserAction" /\ p.decision[e] = Pending => awaits({"confirm", "passkey"})

\* A host stores an authenticated key only when a user said yes to it and no user
\* said no: "Only a model a person actually took part in produces an authenticated
\* key" (advance_pairing).  Of one link: a reply routed after its link has gone counts
\* in the conversation of the next one, for pairing_index goes by the two ends only.
KeyNeedsConsent ==
  [][ \A e \in End :
        bond'[e].type = "authenticated" /\ bond[e].type # "authenticated" =>
          /\ \A f \in End : said[f] # "no"
          /\ \E f \in End : said[f] = "yes" ]_vars

\* Every conversation ends, finished or pruned: each stage asks whoever it waits
\* for, and a host that only displays is not waited for (advance_pairing).
PairingResolves ==
  \A h \in Link :
    (\E k \in DOMAIN pairings : pairings[k].handle = h)
      ~> (\A k \in DOMAIN pairings : pairings[k].handle # h)

\* Violated.  route_authenticate's comment on a second Authentication Requested,
\* "its host is still owed the Authentication Complete the first one will send":
\* a host that was promised one has a conversation that will send it.
AuthPromiseKept ==
  phase = "route" /\ actions = <<>> =>
    \A d \in authDue :
      \E k \in DOMAIN pairings : pairings[k].asker = d[1] /\ pairings[k].handle = d[2]

\* Violated.  prune_pairings' comment, "A pairing that outlived its link would hand
\* its Authentication Complete to a handle that now means something else": a host
\* is told only about links its controller holds.
AuthenticatedHeld ==
  [][ phase = "route" /\ Len(pairings') < Len(pairings)
        => Holds(Current.asker, Current.handle) ]_vars

\* Violated.  route_change_connection_link_key's comment, "asking twice produces two
\* different keys": a change of the key changes the stored key.
RotationRotates ==
  [][ phase = "route" /\ actions # <<>> /\ Head(actions).op = "changeKey" /\ conn' # conn
        => \A e \in End : bond'[e].rotation # bond[e].rotation ]_vars

================================================================================
