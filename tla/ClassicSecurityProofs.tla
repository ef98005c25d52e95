------------------------- MODULE ClassicSecurityProofs -------------------------
(***************************************************************************)
(* Proofs about ClassicSecurity for any number of links, capabilities,     *)
(* commands and bounds.                                                    *)
(*                                                                         *)
(* That both ends of a link agree about its security follows from their    *)
(* being changed together.  That nobody waits in vain rests on which       *)
(* conversation a reply finds: at most one lives, and one that is not at   *)
(* the head was opened in this very tick, so that its question is still    *)
(* with the hosts when the replies ahead of it are used up.                *)
(***************************************************************************)
EXTENDS ClassicSecurity

Conn == [up : BOOLEAN, authenticated : BOOLEAN, encrypted : BOOLEAN, rotations : Nat]

Key == [rotation : Nat, type : {"none", "unauthenticated", "authenticated"}]

Model == {"JustWorks", "PasskeyEntry", "NumericComparison"}

Pairing ==
  [handle : Link, asker : End, stage : {"LinkKey", "IoCapability", "UserAction"}, model : Model,
   key : [End -> Key \cup {NoAnswer}], io : [End -> Caps \cup {NoCaps}],
   decision : [End -> {Pending, "yes", "no"}], entered : [End -> {"none", "right", "other"}]]

\* A deferred Action: what each command and each reply leaves in the queue.
Action ==
  [op : {"connect"}, from : End, handle : {0}, arg : {""}]
    \cup [op : {"authenticate", "changeKey", "disconnect"}, from : End, handle : Link, arg : {""}]
    \cup [op : {"encrypt"}, from : End, handle : Link, arg : BOOLEAN]
    \cup [op : {"keyReply"}, from : End, handle : {0}, arg : Key]
    \cup [op : {"ioReply"}, from : End, handle : {0}, arg : Caps \cup {NoCaps}]
    \cup [op : {"confirm"}, from : End, handle : {0}, arg : {"yes", "no"}]
    \cup [op : {"passkey"}, from : End, handle : {0}, arg : {"right", "other", "none"}]

TypeOK ==
  /\ phase \in {"drain", "route"}
  /\ turn \in End
  /\ actions \in Seq(Action)
  /\ made \in 0 .. MaxLinks
  /\ conn \in [End -> [Link -> Conn]]
  /\ ssp \in [End -> BOOLEAN]
  /\ pairings \in Seq(Pairing)
  /\ asked \in [End -> SUBSET {"key", "io", "confirm", "passkey"}]
  /\ said \in [End -> {"nothing", "yes", "no"}]
  /\ bond \in [End -> Key]
  /\ authDue \in SUBSET (End \X Link)

\* A handle not given out is held by nobody, and has no conversation.
Fresh ==
  /\ \A e \in End, h \in Link : conn[e][h].up => h <= made
  /\ \A k \in DOMAIN pairings : pairings[k].handle <= made

\* The two controllers have one link at a time.
OneLive ==
  \A g, h \in Link : (\A e \in End : conn[e][g].up /\ conn[e][h].up) => g = h

\* A link has one conversation.
OneEach ==
  \A k, m \in DOMAIN pairings : pairings[k].handle = pairings[m].handle => k = m

\* A live conversation behind the first was opened in this tick, and neither host has
\* heard its question.
NotYetAsked ==
  \A k \in DOMAIN pairings : k # 1 /\ Lives(pairings[k]) =>
    /\ pairings[k].stage = "LinkKey"
    /\ phase = "route" => \A e \in End : "key" \in asked[e]

AskInv == TypeOK /\ Fresh /\ OneLive /\ OneEach /\ NotYetAsked /\ AnswersAwaited

SameEnds == TypeOK /\ EncryptionMirrored

User == {"confirm", "passkey"}

\* What a user says with a reply.
Said(a) == IF a.op = "confirm" THEN a.arg ELSE IF a.arg = "none" THEN "no" ELSE "yes"

\* The replies of the user at e that are under way in the queue q.
Spoken(q, e) == {n \in DOMAIN q : q[n].op \in User /\ q[n].from = e}

\* How the user at e stands with the conversations P, when A are the open questions and
\* s is what was said: asked and silent; with one reply under way, which says what he
\* said; or neither, when nothing is waited for from him.  Then what he said is what is
\* decided, or he was only shown the digits and said nothing.
Stands(P, A, q, s, e) ==
  IF P # <<>> /\ P[1].stage = "UserAction"
  THEN IF P[1].decision[e] = Pending
       THEN \/ /\ A[e] \cap User \in {{"confirm"}, {"passkey"}}
               /\ Spoken(q, e) = {} /\ s[e] = "nothing"
            \/ /\ A[e] \cap User = {}
               /\ \E n \in DOMAIN q : Spoken(q, e) = {n} /\ s[e] = Said(q[n])
       ELSE /\ A[e] \cap User = {} /\ Spoken(q, e) = {}
            /\ s[e] = P[1].decision[e] \/ (s[e] = "nothing" /\ P[1].decision[e] = "yes")
  ELSE A[e] \cap User = {} /\ Spoken(q, e) = {} /\ s[e] = "nothing"

\* While links stay up: each is held at both ends, and the conversation on it is the
\* only one.
LinkStays ==
  /\ \A h \in Link : conn[1][h].up = conn[2][h].up
  /\ \A k \in DOMAIN pairings : k = 1 /\ Lives(pairings[k])
  /\ \A n \in DOMAIN actions : actions[n].op # "disconnect"

ConsentInv ==
  AskInv /\ LinkStays /\ \A e \in End : Stands(pairings, asked, actions, said, e)

--------------------------------------------------------------------------------
(***************************************************************************)
(* What the steps do, in the form the proofs use.                          *)
(***************************************************************************)

\* The answers the conversation has once the reply at the head of the queue is in.
Keys == [Current.key EXCEPT ![Head(actions).from] = Head(actions).arg]

Ios == [Current.io EXCEPT ![Head(actions).from] = Head(actions).arg]

NewModel == AssociationModel(Ios[Current.asker], Ios[Other(Current.asker)])

Decisions == [Current.decision EXCEPT ![Head(actions).from] = Said(Head(actions))]

Digits ==
  IF Head(actions).op = "passkey"
  THEN [Current.entered EXCEPT ![Head(actions).from] = Head(actions).arg]
  ELSE Current.entered

AskedUser ==
  [Current EXCEPT
     !.io = [e \in End |-> NoCaps], !.model = NewModel, !.stage = "UserAction",
     !.decision = [e \in End |-> FirstDecision(NewModel, Ios[e])],
     !.entered = [e \in End |-> IF Notified(NewModel, Ios[e]) THEN "right" ELSE "none"]]

AskedIo == [Current EXCEPT !.key = Unread, !.stage = "IoCapability"]

\* The three ways a reply to each question can go: the other host is waited for, the
\* conversation is over, or it moves on.
KeyOutcome ==
  \/ /\ NoAnswer \in {Keys[1], Keys[2]}
     /\ Continue([Current EXCEPT !.key = Keys]) /\ UNCHANGED asked
  \/ /\ \E success \in BOOLEAN : Finish(success)
     /\ UNCHANGED asked
  \/ /\ Continue(AskedIo)
     /\ asked' = [e \in End |-> asked[e] \cup {"io"}]

IoOutcome ==
  \/ Finish(FALSE) /\ UNCHANGED asked
  \/ /\ Head(actions).arg # NoCaps
     /\ Continue([Current EXCEPT !.io = Ios]) /\ UNCHANGED asked
  \/ /\ NoCaps \notin {Ios[1], Ios[2]}
     /\ Continue(AskedUser)
     /\ asked' = [e \in End |-> asked[e] \cup Question(NewModel, Ios[e])]

UserOutcome ==
  \/ /\ \E e \in End : Decisions[e] = Pending
     /\ Continue([Current EXCEPT !.decision = Decisions, !.entered = Digits])
     /\ UNCHANGED bond
  \/ /\ \A e \in End : Decisions[e] # Pending
     /\ \/ /\ Agreed(Current, Decisions, Digits)
           /\ Finish(TRUE)
           /\ bond' = [e \in End |-> [rotation |-> 0, type |-> KeyType(Current.model)]]
        \/ Finish(FALSE) /\ UNCHANGED bond

LEMMA KeyReplyOutcome ==
  ASSUME RouteLinkKeyReply
  PROVE  Replying({"keyReply"}, "LinkKey") /\ KeyOutcome /\ UNCHANGED <<made, ssp, bond>>
BY DEF RouteLinkKeyReply, KeyOutcome, Keys, AskedIo

LEMMA UserReplyOutcome ==
  ASSUME RouteUserReply
  PROVE  Replying(User, "UserAction") /\ UserOutcome /\ UNCHANGED <<made, ssp, asked>>
<1>1. Replying(User, "UserAction") /\ UNCHANGED <<made, ssp, asked>>
  BY DEF RouteUserReply, User
<1>2. Head(actions).op \in User
  BY <1>1 DEF Replying, Now
<1>3. UserOutcome
  BY <1>2 DEF RouteUserReply, AdvanceUserAction, UserOutcome, Decisions, Said, Digits, User
<1> QED BY <1>1, <1>3

--------------------------------------------------------------------------------
(***************************************************************************)
(* Types.                                                                  *)
(***************************************************************************)

LEMMA ActionType ==
  ASSUME NEW a \in Action
  PROVE  /\ a.from \in End
         /\ a.op \in {"authenticate", "changeKey", "disconnect", "encrypt"} => a.handle \in Link
         /\ a.op = "encrypt" => a.arg \in BOOLEAN
         /\ a.op = "keyReply" => a.arg \in Key
         /\ a.op = "ioReply" => a.arg \in Caps \cup {NoCaps}
         /\ a.op = "confirm" => a.arg \in {"yes", "no"}
         /\ a.op = "passkey" => a.arg \in {"right", "other", "none"}
         /\ a.op \in User => Said(a) \in {"yes", "no"}
BY DEF Action, User, Said

\* Queueing an Action keeps the queue a queue of Actions.
LEMMA QueueType ==
  ASSUME TypeOK, NEW e \in End, NEW op, NEW handle, NEW arg,
         [op |-> op, from |-> e, handle |-> handle, arg |-> arg] \in Action,
         Queue(e, op, handle, arg)
  PROVE  actions' \in Seq(Action)
<1>1. actions \in Seq(Action)
  BY DEF TypeOK
<1> QED BY <1>1 DEF Queue

\* What is at the head of the queue is an Action, and the rest are too.
LEMMA NowType ==
  ASSUME TypeOK, NEW ops, Now(ops)
  PROVE  /\ actions' \in Seq(Action) /\ actions # <<>>
         /\ Head(actions) \in Action /\ Head(actions).op \in ops
         /\ phase = "route" /\ UNCHANGED <<phase, turn>> /\ actions' = Tail(actions)
<1>1. actions \in Seq(Action) /\ actions # <<>> /\ actions' = Tail(actions)
  BY DEF TypeOK, Now
<1>2. Head(actions) \in Action /\ Tail(actions) \in Seq(Action)
  BY <1>1
<1> QED BY <1>1, <1>2 DEF Now

\* A conversation a reply finds is one.
LEMMA CurrentType ==
  ASSUME TypeOK, pairings # <<>>
  PROVE  /\ Current \in Pairing /\ Tail(pairings) \in Seq(Pairing) /\ Len(pairings) \in Nat \ {0}
         /\ Current = pairings[1] /\ 1 \in DOMAIN pairings
         /\ Len(Tail(pairings)) = Len(pairings) - 1
         /\ \A k \in 1 .. Len(pairings) - 1 : Tail(pairings)[k] = pairings[k + 1]
BY DEF TypeOK, Current

\* Somebody is asked for a decision: a conversation has a keyboard under Passkey Entry
\* and no display to be told under the other models, so the advance that follows the
\* capabilities at once finds a decision missing.
LEMMA SomebodyUndecided ==
  ASSUME Current.asker \in End
  PROVE  \E e \in End : FirstDecision(NewModel, Ios[e]) = Pending
<1> DEFINE a == Current.asker
           b == Other(Current.asker)
<1>1. a \in End /\ b \in End
  BY DEF End, Other
<1>2. CASE NewModel # "PasskeyEntry"
  BY <1>1, <1>2 DEF FirstDecision, Notified
<1>3. CASE NewModel = "PasskeyEntry"
  <2>1. "KeyboardOnly" \in {Ios[a].io, Ios[b].io}
    BY <1>3 DEF NewModel, AssociationModel
  <2>2. PICK e \in {a, b} : Ios[e].io = "KeyboardOnly"
    BY <2>1
  <2> QED BY <1>1, <2>2 DEF FirstDecision, Notified
<1> QED BY <1>2, <1>3

\* A reply with capabilities ends the conversation, leaves the other host to be waited
\* for, or asks for decisions; the advance that follows at once changes no key.
LEMMA IoReplyOutcome ==
  ASSUME TypeOK, RouteIoCapabilityReply
  PROVE  Replying({"ioReply"}, "IoCapability") /\ IoOutcome /\ UNCHANGED <<made, ssp, bond>>
<1> DEFINE p == [Current EXCEPT !.io = [e \in End |-> NoCaps], !.model = NewModel, !.stage = "UserAction"]
           d == [e \in End |-> FirstDecision(NewModel, Ios[e])]
           t == [e \in End |-> IF Notified(NewModel, Ios[e]) THEN "right" ELSE "none"]
<1>1. Replying({"ioReply"}, "IoCapability") /\ UNCHANGED <<made, ssp>>
  BY DEF RouteIoCapabilityReply
<1>2. CASE Head(actions).arg = NoCaps
  BY <1>1, <1>2 DEF RouteIoCapabilityReply, IoOutcome
<1>3. CASE Head(actions).arg # NoCaps /\ NoCaps \in {Ios[1], Ios[2]}
  BY <1>1, <1>3 DEF RouteIoCapabilityReply, IoOutcome, Ios
<1>4. CASE Head(actions).arg # NoCaps /\ NoCaps \notin {Ios[1], Ios[2]}
  <2>1. /\ AdvanceUserAction(p, d, t)
        /\ asked' = [e \in End |-> asked[e] \cup Question(NewModel, Ios[e])]
    BY <1>4 DEF RouteIoCapabilityReply, Ios, NewModel
  <2>2. Current.asker \in End
    <3>1. pairings # <<>>
      BY <1>1 DEF Replying, AtStage
    <3> QED BY <3>1, CurrentType DEF Pairing
  <2>3. \E e \in End : d[e] = Pending
    BY <2>2, SomebodyUndecided
  <2>4. Continue([p EXCEPT !.decision = d, !.entered = t]) /\ UNCHANGED bond
    <3> HIDE DEF p, d, t
    <3> QED BY <2>1, <2>3 DEF AdvanceUserAction
  <2>5. [p EXCEPT !.decision = d, !.entered = t] = AskedUser
    BY DEF AskedUser
  <2> QED BY <1>1, <1>4, <2>1, <2>4, <2>5 DEF IoOutcome
<1> QED BY <1>2, <1>3, <1>4

\* The conversations after a Continue.
LEMMA ContinueForm ==
  ASSUME TypeOK, pairings # <<>>, NEW p \in Pairing, Continue(p)
  PROVE  /\ pairings' \in Seq(Pairing) /\ Len(pairings') = Len(pairings)
         /\ pairings'[1] = p
         /\ \A k \in 2 .. Len(pairings) : pairings'[k] = pairings[k]
<1> DEFINE t == Tail(pairings)
           n == Len(pairings)
<1>1. t \in Seq(Pairing) /\ n \in Nat \ {0} /\ Len(t) = n - 1 /\ \A k \in 1 .. n - 1 : t[k] = pairings[k + 1]
  BY CurrentType
<1>2. pairings' = <<p>> \o t
  BY DEF Continue
<1> HIDE DEF t
<1>3. <<p>> \in Seq(Pairing) /\ Len(<<p>>) = 1 /\ <<p>>[1] = p
  OBVIOUS
<1>4. pairings' \in Seq(Pairing) /\ Len(pairings') = 1 + Len(t)
  BY <1>1, <1>2, <1>3
<1>5. pairings'[1] = p
  BY <1>1, <1>2, <1>3
<1>6. ASSUME NEW k \in 2 .. n
      PROVE  pairings'[k] = pairings[k]
  <2>1. k - 1 \in 1 .. n - 1
    BY <1>1
  <2>2. (<<p>> \o t)[k] = t[k - 1]
    BY <1>1, <1>3, <2>1
  <2>3. t[k - 1] = pairings[k - 1 + 1]
    BY <1>1, <2>1
  <2> QED BY <1>1, <1>2, <2>2, <2>3
<1> QED BY <1>1, <1>4, <1>5, <1>6

LEMMA PairingAt ==
  ASSUME TypeOK
  PROVE  /\ Len(pairings) \in Nat /\ DOMAIN pairings = 1 .. Len(pairings)
         /\ \A k \in DOMAIN pairings : pairings[k] \in Pairing /\ pairings[k].handle \in Link
<1>1. pairings \in Seq(Pairing)
  BY DEF TypeOK
<1>2. \A p \in Pairing : p.handle \in Link
  BY DEF Pairing
<1> QED BY <1>1, <1>2

LEMMA PrunedType ==
  ASSUME TypeOK
  PROVE  Pruned \in Seq(Pairing)
BY AtPlaces DEF TypeOK, Pruned

LEMMA ConnType ==
  /\ Down \in Conn /\ Up \in Conn
  /\ \A r \in Conn : [r EXCEPT !.authenticated = TRUE] \in Conn
  /\ \A r \in Conn, on \in BOOLEAN : [r EXCEPT !.encrypted = on] \in Conn
  /\ \A r \in Conn, n \in Nat : [r EXCEPT !.rotations = n] \in Conn
BY DEF Conn, Down, Up

\* Sharing out what a host has been asked.
LEMMA AskType ==
  ASSUME TypeOK, NEW Q, \A e \in End : Q[e] \subseteq {"key", "io", "confirm", "passkey"}
  PROVE  [e \in End |-> asked[e] \cup Q[e]] \in [End -> SUBSET {"key", "io", "confirm", "passkey"}]
BY DEF TypeOK

LEMMA FinishType ==
  ASSUME TypeOK, pairings # <<>>, NEW success \in BOOLEAN, Finish(success)
  PROVE  /\ said' \in [End -> {"nothing", "yes", "no"}]
         /\ pairings' \in Seq(Pairing)
         /\ conn' \in [End -> [Link -> Conn]]
         /\ authDue' \in SUBSET (End \X Link)
<1>1. Current \in Pairing /\ Tail(pairings) \in Seq(Pairing)
  BY CurrentType
<1>2. Current.handle \in Link
  BY <1>1 DEF Pairing
<1>3. conn' \in [End -> [Link -> Conn]]
  BY <1>2, ConnType DEF Finish, TypeOK
<1> QED BY <1>1, <1>3 DEF Finish, TypeOK

LEMMA KeysType ==
  ASSUME TypeOK, Replying({"keyReply"}, "LinkKey")
  PROVE  /\ pairings # <<>> /\ Keys \in [End -> Key \cup {NoAnswer}]
         /\ [Current EXCEPT !.key = Keys] \in Pairing /\ AskedIo \in Pairing
<1>1. pairings # <<>> /\ Head(actions) \in Action /\ Head(actions).op = "keyReply"
  BY NowType DEF Replying, AtStage
<1>2. Head(actions).from \in End /\ Head(actions).arg \in Key
  BY <1>1, ActionType
<1>3. Current \in Pairing /\ Current.key \in [End -> Key \cup {NoAnswer}]
  BY <1>1, CurrentType DEF Pairing
<1>4. Keys \in [End -> Key \cup {NoAnswer}]
  BY <1>2, <1>3 DEF Keys
<1>5. \A p \in Pairing, k \in [End -> Key \cup {NoAnswer}] : [p EXCEPT !.key = k] \in Pairing
  BY DEF Pairing
<1>6. \A p \in Pairing, k \in [End -> Key \cup {NoAnswer}] :
        [p EXCEPT !.key = k, !.stage = "IoCapability"] \in Pairing
  BY DEF Pairing
<1>7. Unread \in [End -> Key \cup {NoAnswer}]
  BY DEF Unread
<1> QED BY <1>1, <1>3, <1>4, <1>5, <1>6, <1>7 DEF AskedIo

LEMMA AskedUserType ==
  ASSUME NEW p \in Pairing, NEW model \in Model, NEW decision \in [End -> {Pending, "yes", "no"}],
         NEW entered \in [End -> {"none", "right", "other"}], NEW io \in [End -> Caps \cup {NoCaps}]
  PROVE  [p EXCEPT !.io = io, !.model = model, !.stage = "UserAction",
            !.decision = decision, !.entered = entered] \in Pairing
BY DEF Pairing

LEMMA IosType ==
  ASSUME TypeOK, Replying({"ioReply"}, "IoCapability")
  PROVE  /\ pairings # <<>> /\ Ios \in [End -> Caps \cup {NoCaps}]
         /\ [Current EXCEPT !.io = Ios] \in Pairing /\ AskedUser \in Pairing
         /\ NewModel \in Model
<1>1. pairings # <<>> /\ Head(actions) \in Action /\ Head(actions).op = "ioReply"
  BY NowType DEF Replying, AtStage
<1>2. Head(actions).from \in End /\ Head(actions).arg \in Caps \cup {NoCaps}
  BY <1>1, ActionType
<1>3. Current \in Pairing /\ Current.io \in [End -> Caps \cup {NoCaps}]
  BY <1>1, CurrentType DEF Pairing
<1>4. Ios \in [End -> Caps \cup {NoCaps}]
  BY <1>2, <1>3 DEF Ios
<1>5. \A p \in Pairing, k \in [End -> Caps \cup {NoCaps}] : [p EXCEPT !.io = k] \in Pairing
  BY DEF Pairing
<1>6. NewModel \in Model
  BY DEF NewModel, AssociationModel, Model
<1>7. [e \in End |-> NoCaps] \in [End -> Caps \cup {NoCaps}]
  OBVIOUS
<1>8. /\ [e \in End |-> FirstDecision(NewModel, Ios[e])] \in [End -> {Pending, "yes", "no"}]
      /\ [e \in End |-> IF Notified(NewModel, Ios[e]) THEN "right" ELSE "none"]
           \in [End -> {"none", "right", "other"}]
  BY DEF FirstDecision
<1>9. AskedUser \in Pairing
  BY <1>3, <1>6, <1>7, <1>8, AskedUserType DEF AskedUser
<1> QED BY <1>1, <1>3, <1>4, <1>5, <1>6, <1>9

LEMMA DecisionsType ==
  ASSUME TypeOK, Replying(User, "UserAction")
  PROVE  /\ pairings # <<>> /\ Decisions \in [End -> {Pending, "yes", "no"}]
         /\ [Current EXCEPT !.decision = Decisions, !.entered = Digits] \in Pairing
<1>1. pairings # <<>> /\ Head(actions) \in Action /\ Head(actions).op \in User
  BY NowType DEF Replying, AtStage
<1>2. /\ Head(actions).from \in End /\ Said(Head(actions)) \in {"yes", "no"}
      /\ Head(actions).op = "passkey" => Head(actions).arg \in {"right", "other", "none"}
  BY <1>1, ActionType
<1>3. /\ Current \in Pairing /\ Current.decision \in [End -> {Pending, "yes", "no"}]
      /\ Current.entered \in [End -> {"none", "right", "other"}]
  BY <1>1, CurrentType DEF Pairing
<1>4. Decisions \in [End -> {Pending, "yes", "no"}] /\ Digits \in [End -> {"none", "right", "other"}]
  BY <1>2, <1>3 DEF Decisions, Digits
<1>5. \A p \in Pairing, d \in [End -> {Pending, "yes", "no"}], n \in [End -> {"none", "right", "other"}] :
        [p EXCEPT !.decision = d, !.entered = n] \in Pairing
  BY DEF Pairing
<1> QED BY <1>1, <1>3, <1>4, <1>5

LEMMA TypeInit == Init => TypeOK
<1> SUFFICES ASSUME Init PROVE TypeOK
  OBVIOUS
<1>1. conn \in [End -> [Link -> Conn]]
  BY ConnType DEF Init
<1>2. bond \in [End -> Key]
  BY DEF Init, Key, NoKey
<1>3. made \in 0 .. MaxLinks
  BY LinksAssumption DEF Init
<1>4. turn \in End
  BY DEF Init, End
<1> QED BY <1>1, <1>2, <1>3, <1>4 DEF Init, TypeOK

\* Every command and every reply leaves an Action of its kind.
LEMMA QueuedAction ==
  ASSUME NEW e \in End
  PROVE  /\ [op |-> "connect", from |-> e, handle |-> 0, arg |-> ""] \in Action
         /\ \A op \in {"authenticate", "changeKey", "disconnect"}, h \in Link :
              [op |-> op, from |-> e, handle |-> h, arg |-> ""] \in Action
         /\ \A h \in Link, on \in BOOLEAN :
              [op |-> "encrypt", from |-> e, handle |-> h, arg |-> on] \in Action
         /\ \A key \in Key : [op |-> "keyReply", from |-> e, handle |-> 0, arg |-> key] \in Action
         /\ \A caps \in Caps \cup {NoCaps} :
              [op |-> "ioReply", from |-> e, handle |-> 0, arg |-> caps] \in Action
         /\ \A accept \in {"yes", "no"} :
              [op |-> "confirm", from |-> e, handle |-> 0, arg |-> accept] \in Action
         /\ \A digits \in {"right", "other", "none"} :
              [op |-> "passkey", from |-> e, handle |-> 0, arg |-> digits] \in Action
BY DEF Action

LEMMA TypeCommand == TypeOK /\ HostCommand => TypeOK'
<1> SUFFICES ASSUME TypeOK, NEW e \in End,
               \/ Connect(e)
               \/ \E h \in Link :
                    \/ AuthenticationRequested(e, h)
                    \/ \E on \in BOOLEAN : SetConnectionEncryption(e, h, on)
                    \/ ChangeConnectionLinkKey(e, h)
                    \/ Disconnect(e, h)
               \/ WriteSimplePairingMode(e)
               \/ Forget(e)
               \/ Reset(e)
             PROVE  TypeOK'
  BY DEF HostCommand
<1>1. CASE Connect(e)
  <2>1. actions' \in Seq(Action)
    BY <1>1, QueueType, QueuedAction DEF Connect, Send
  <2> QED BY <1>1, <2>1 DEF Connect, Send, Queue, TypeOK
<1>2. CASE \E h \in Link : AuthenticationRequested(e, h)
  <2> PICK h \in Link : AuthenticationRequested(e, h)
    BY <1>2
  <2>1. actions' \in Seq(Action)
    BY QueueType, QueuedAction DEF AuthenticationRequested, Send
  <2>2. authDue' \in SUBSET (End \X Link)
    <3>1. <<e, h>> \in End \X Link /\ authDue \in SUBSET (End \X Link)
      BY DEF TypeOK
    <3>2. authDue' = authDue \cup {<<e, h>>}
      BY DEF AuthenticationRequested
    <3> QED BY <3>1, <3>2
  <2> QED BY <2>1, <2>2 DEF AuthenticationRequested, Send, Queue, TypeOK
<1>3. CASE \E h \in Link, on \in BOOLEAN : SetConnectionEncryption(e, h, on)
  <2> PICK h \in Link, on \in BOOLEAN : SetConnectionEncryption(e, h, on)
    BY <1>3
  <2>1. actions' \in Seq(Action)
    BY QueueType, QueuedAction DEF SetConnectionEncryption, Send
  <2> QED BY <2>1 DEF SetConnectionEncryption, Send, Queue, TypeOK
<1>4. CASE \E h \in Link : ChangeConnectionLinkKey(e, h)
  <2> PICK h \in Link : ChangeConnectionLinkKey(e, h)
    BY <1>4
  <2>1. actions' \in Seq(Action)
    BY QueueType, QueuedAction DEF ChangeConnectionLinkKey, Send
  <2> QED BY <2>1 DEF ChangeConnectionLinkKey, Send, Queue, TypeOK
<1>5. CASE \E h \in Link : Disconnect(e, h)
  <2> PICK h \in Link : Disconnect(e, h)
    BY <1>5
  <2>1. actions' \in Seq(Action)
    BY QueueType, QueuedAction DEF Disconnect, Send
  <2> QED BY <2>1 DEF Disconnect, Send, Queue, TypeOK
<1>6. CASE WriteSimplePairingMode(e)
  BY <1>6 DEF WriteSimplePairingMode, hosts, TypeOK
<1>7. CASE Forget(e)
  BY <1>7 DEF Forget, TypeOK, Key, NoKey
<1>8. CASE Reset(e)
  <2>1. conn' \in [End -> [Link -> Conn]]
    BY <1>8, ConnType DEF Reset, TypeOK
  <2> QED BY <1>8, <2>1 DEF Reset, TypeOK
<1> QED BY <1>1, <1>2, <1>3, <1>4, <1>5, <1>6, <1>7, <1>8

LEMMA TypeReply == ASSUME TypeOK, NEW e \in End, HostReply(e) PROVE TypeOK'
<1>1. CASE LinkKeyReply(e)
  <2>1. Queue(e, "keyReply", 0, bond[e]) /\ bond[e] \in Key
    BY <1>1 DEF LinkKeyReply, Answer, TypeOK
  <2>2. actions' \in Seq(Action)
    BY <2>1, QueueType, QueuedAction
  <2> QED BY <1>1, <2>2 DEF LinkKeyReply, Answer, Queue, TypeOK
<1>2. CASE (\E caps \in Caps : IoCapabilityReply(e, caps)) \/ IoCapabilityNegativeReply(e)
  <2> PICK caps \in Caps \cup {NoCaps} : Answer(e, "io", "ioReply", caps) /\ UNCHANGED said
    BY <1>2 DEF IoCapabilityReply, IoCapabilityNegativeReply
  <2>1. actions' \in Seq(Action)
    BY QueueType, QueuedAction DEF Answer
  <2> QED BY <2>1 DEF Answer, Queue, TypeOK
<1>3. CASE \E accept \in {"yes", "no"} : UserConfirmationReply(e, accept)
  <2> PICK accept \in {"yes", "no"} : UserConfirmationReply(e, accept)
    BY <1>3
  <2>1. actions' \in Seq(Action)
    BY QueueType, QueuedAction DEF UserConfirmationReply, Answer
  <2> QED BY <2>1 DEF UserConfirmationReply, Answer, Queue, TypeOK
<1>4. CASE \E digits \in {"right", "other", "none"} : UserPasskeyReply(e, digits)
  <2> PICK digits \in {"right", "other", "none"} : UserPasskeyReply(e, digits)
    BY <1>4
  <2>1. actions' \in Seq(Action)
    BY QueueType, QueuedAction DEF UserPasskeyReply, Answer
  <2> QED BY <2>1 DEF UserPasskeyReply, Answer, Queue, TypeOK
<1> QED BY <1>1, <1>2, <1>3, <1>4 DEF HostReply

LEMMA TypeTick == TypeOK /\ Tick => TypeOK'
<1> SUFFICES ASSUME TypeOK, Tick PROVE TypeOK'
  OBVIOUS
<1>1. CASE DrainDone
  <2>1. turn' \in End
    BY <1>1 DEF DrainDone, TypeOK, End, Other
  <2>2. pairings' \in Seq(Pairing)
    BY <1>1, PrunedType DEF DrainDone, TypeOK
  <2> QED BY <1>1, <2>1, <2>2 DEF DrainDone, TypeOK, hosts
<1>2. CASE RouteConnect
  <2>1. actions' \in Seq(Action)
    BY <1>2, NowType DEF RouteConnect
  <2>2. CASE made < MaxLinks /\ \A h \in Link : \E e \in End : ~Holds(e, h)
    <3>1. made' = made + 1 /\ conn' = [e \in End |-> [conn[e] EXCEPT ![made + 1] = Up]]
      BY <1>2, <2>2 DEF RouteConnect
    <3>2. made' \in 0 .. MaxLinks
      BY <2>2, <3>1, LinksAssumption DEF TypeOK
    <3>3. conn' \in [End -> [Link -> Conn]]
      BY <3>1, ConnType DEF TypeOK
    <3> QED BY <1>2, <2>1, <3>2, <3>3 DEF RouteConnect, Now, TypeOK, hosts
  <2>3. CASE ~(made < MaxLinks /\ \A h \in Link : \E e \in End : ~Holds(e, h))
    <3>1. UNCHANGED <<made, conn>>
      BY <1>2, <2>3 DEF RouteConnect
    <3> QED BY <1>2, <2>1, <3>1 DEF RouteConnect, Now, TypeOK, hosts
  <2> QED BY <2>2, <2>3
<1>3. CASE RouteDisconnect
  <2>1. actions' \in Seq(Action)
    BY <1>3, NowType DEF RouteDisconnect
  <2>2. conn' \in [End -> [Link -> Conn]]
    <3> DEFINE h == Head(actions).handle
    <3>1. UNCHANGED conn \/ conn' = [e \in End |-> [conn[e] EXCEPT ![h] = Down]]
      BY <1>3 DEF RouteDisconnect
    <3>2. conn \in [End -> [Link -> Conn]]
      BY DEF TypeOK
    <3> HIDE DEF h
    <3> QED BY <3>1, <3>2, ConnType
  <2>3. authDue' \in SUBSET (End \X Link)
    BY <1>3 DEF RouteDisconnect, TypeOK
  <2> QED BY <1>3, <2>1, <2>2, <2>3 DEF RouteDisconnect, Now, TypeOK
<1>4. CASE RouteAuthenticate
  <2>1. /\ actions' \in Seq(Action) /\ Head(actions) \in Action
        /\ Head(actions).op = "authenticate"
    BY <1>4, NowType DEF RouteAuthenticate
  <2>2. Head(actions).from \in End /\ Head(actions).handle \in Link
    BY <2>1, ActionType
  <2>3. [handle |-> Head(actions).handle, asker |-> Head(actions).from, stage |-> "LinkKey", model |-> "JustWorks",
         key |-> [e \in End |-> NoAnswer], io |-> [e \in End |-> NoCaps],
         decision |-> [e \in End |-> Pending], entered |-> [e \in End |-> "none"]] \in Pairing
    BY <2>2 DEF Pairing, Model
  <2>4. pairings' \in Seq(Pairing)
    <3>1. UNCHANGED pairings \/ \E p \in Pairing : pairings' = Append(pairings, p)
      BY <1>4, <2>3 DEF RouteAuthenticate
    <3>2. pairings \in Seq(Pairing)
      BY DEF TypeOK
    <3> QED BY <3>1, <3>2
  <2>5. asked' \in [End -> SUBSET {"key", "io", "confirm", "passkey"}]
    BY <1>4 DEF RouteAuthenticate, TypeOK
  <2> QED BY <1>4, <2>1, <2>4, <2>5 DEF RouteAuthenticate, Now, TypeOK
<1>5. CASE RouteSetConnectionEncryption
  <2>1. /\ actions' \in Seq(Action) /\ Head(actions) \in Action
        /\ Head(actions).op = "encrypt"
    BY <1>5, NowType DEF RouteSetConnectionEncryption
  <2>2. Head(actions).handle \in Link /\ Head(actions).arg \in BOOLEAN
    BY <2>1, ActionType
  <2>3. conn' \in [End -> [Link -> Conn]]
    BY <1>5, <2>2, ConnType DEF RouteSetConnectionEncryption, TypeOK
  <2> QED BY <1>5, <2>1, <2>3 DEF RouteSetConnectionEncryption, Now, TypeOK, hosts
<1>6. CASE RouteChangeConnectionLinkKey
  <2>1. /\ actions' \in Seq(Action) /\ Head(actions) \in Action
        /\ Head(actions).op = "changeKey"
    BY <1>6, NowType DEF RouteChangeConnectionLinkKey
  <2>2. Head(actions).handle \in Link /\ Head(actions).from \in End
    BY <2>1, ActionType
  <2> DEFINE n == conn[Head(actions).from][Head(actions).handle].rotations + 1
  <2>3. n \in Nat
    BY <2>2 DEF TypeOK, Conn
  <2>4. conn' \in [End -> [Link -> Conn]]
    <3> DEFINE h == Head(actions).handle
    <3>1. \/ UNCHANGED conn
          \/ conn' = [e \in End |-> IF Holds(e, h) THEN [conn[e] EXCEPT ![h].rotations = n] ELSE conn[e]]
      BY <1>6 DEF RouteChangeConnectionLinkKey
    <3>2. conn \in [End -> [Link -> Conn]] /\ h \in Link
      BY <2>2 DEF TypeOK
    <3> HIDE DEF h, n
    <3> QED BY <2>3, <3>1, <3>2, ConnType
  <2>5. bond' \in [End -> Key]
    BY <1>6, <2>3 DEF RouteChangeConnectionLinkKey, TypeOK, Key
  <2> QED BY <1>6, <2>1, <2>4, <2>5 DEF RouteChangeConnectionLinkKey, Now, TypeOK
<1>7. CASE RouteStaleReply
  <2>1. PICK ops : Now(ops)
    BY <1>7 DEF RouteStaleReply
  <2>2. actions' \in Seq(Action)
    BY <2>1, NowType
  <2> QED BY <1>7, <2>1, <2>2 DEF RouteStaleReply, Now, TypeOK, hosts
<1>8. CASE RouteLinkKeyReply
  <2>1. Replying({"keyReply"}, "LinkKey") /\ KeyOutcome /\ UNCHANGED <<made, ssp, bond>>
    BY <1>8, KeyReplyOutcome
  <2>2. pairings # <<>> /\ [Current EXCEPT !.key = Keys] \in Pairing /\ AskedIo \in Pairing
    BY <2>1, KeysType
  <2>3. actions' \in Seq(Action) /\ UNCHANGED <<phase, turn>>
    BY <2>1, NowType DEF Replying
  <2>4. CASE Continue([Current EXCEPT !.key = Keys]) /\ UNCHANGED asked
    <3>1. pairings' \in Seq(Pairing)
      BY <2>2, <2>4, ContinueForm
    <3> QED BY <2>1, <2>3, <2>4, <3>1 DEF Continue, TypeOK
  <2>5. CASE (\E success \in BOOLEAN : Finish(success)) /\ UNCHANGED asked
    BY <2>1, <2>2, <2>3, <2>5, FinishType DEF TypeOK
  <2>6. CASE Continue(AskedIo) /\ asked' = [e \in End |-> asked[e] \cup {"io"}]
    <3>1. pairings' \in Seq(Pairing)
      BY <2>2, <2>6, ContinueForm
    <3>2. asked' \in [End -> SUBSET {"key", "io", "confirm", "passkey"}]
      BY <2>6 DEF TypeOK
    <3> QED BY <2>1, <2>3, <2>6, <3>1, <3>2 DEF Continue, TypeOK
  <2> QED BY <2>1, <2>4, <2>5, <2>6 DEF KeyOutcome
<1>9. CASE RouteIoCapabilityReply
  <2>1. Replying({"ioReply"}, "IoCapability") /\ IoOutcome /\ UNCHANGED <<made, ssp, bond>>
    BY <1>9, IoReplyOutcome
  <2>2. pairings # <<>> /\ [Current EXCEPT !.io = Ios] \in Pairing /\ AskedUser \in Pairing
    BY <2>1, IosType
  <2>3. actions' \in Seq(Action) /\ UNCHANGED <<phase, turn>>
    BY <2>1, NowType DEF Replying
  <2>4. CASE Continue([Current EXCEPT !.io = Ios]) /\ UNCHANGED asked
    <3>1. pairings' \in Seq(Pairing)
      BY <2>2, <2>4, ContinueForm
    <3> QED BY <2>1, <2>3, <2>4, <3>1 DEF Continue, TypeOK
  <2>5. CASE Finish(FALSE) /\ UNCHANGED asked
    BY <2>1, <2>2, <2>3, <2>5, FinishType DEF TypeOK
  <2>6. CASE Continue(AskedUser) /\ asked' = [e \in End |-> asked[e] \cup Question(NewModel, Ios[e])]
    <3>1. pairings' \in Seq(Pairing)
      BY <2>2, <2>6, ContinueForm
    <3>2. \A e \in End : Question(NewModel, Ios[e]) \subseteq {"key", "io", "confirm", "passkey"}
      BY DEF Question
    <3>3. asked' \in [End -> SUBSET {"key", "io", "confirm", "passkey"}]
      BY <2>6, <3>2 DEF TypeOK
    <3> QED BY <2>1, <2>3, <2>6, <3>1, <3>3 DEF Continue, TypeOK
  <2> QED BY <2>1, <2>4, <2>5, <2>6 DEF IoOutcome
<1>10. CASE RouteUserReply
  <2>1. Replying(User, "UserAction") /\ UserOutcome /\ UNCHANGED <<made, ssp, asked>>
    BY <1>10, UserReplyOutcome
  <2>2. pairings # <<>> /\ [Current EXCEPT !.decision = Decisions, !.entered = Digits] \in Pairing
    BY <2>1, DecisionsType
  <2>3. actions' \in Seq(Action) /\ UNCHANGED <<phase, turn>>
    BY <2>1, NowType DEF Replying
  <2>4. CASE Continue([Current EXCEPT !.decision = Decisions, !.entered = Digits]) /\ UNCHANGED bond
    <3>1. pairings' \in Seq(Pairing)
      BY <2>2, <2>4, ContinueForm
    <3> QED BY <2>1, <2>3, <2>4, <3>1 DEF Continue, TypeOK
  <2>5. CASE Finish(TRUE) /\ bond' = [e \in End |-> [rotation |-> 0, type |-> KeyType(Current.model)]]
    <3>1. bond' \in [End -> Key]
      BY <2>5 DEF Key, KeyType
    <3> QED BY <2>1, <2>2, <2>3, <2>5, <3>1, FinishType DEF TypeOK
  <2>6. CASE Finish(FALSE) /\ UNCHANGED bond
    BY <2>1, <2>2, <2>3, <2>6, FinishType DEF TypeOK
  <2> QED BY <2>1, <2>4, <2>5, <2>6 DEF UserOutcome
<1>11. CASE RouteDone
  BY <1>11 DEF RouteDone, TypeOK, hosts
<1> QED BY <1>1, <1>2, <1>3, <1>4, <1>5, <1>6, <1>7, <1>8, <1>9, <1>10, <1>11 DEF Tick

LEMMA TypeStep == TypeOK /\ [Next]_vars => TypeOK'
<1> SUFFICES ASSUME TypeOK, [Next]_vars PROVE TypeOK'
  OBVIOUS
<1>1. CASE HostCommand
  BY <1>1, TypeCommand
<1>2. CASE \E e \in End : HostReply(e)
  BY <1>2, TypeReply
<1>3. CASE Tick
  BY <1>3, TypeTick
<1>4. CASE UNCHANGED vars
  BY <1>4 DEF vars, hosts, TypeOK
<1> QED BY <1>1, <1>2, <1>3, <1>4 DEF Next

\* The controllers, the queue, the conversations and the hosts keep the shape the
\* code gives them, through every interleaving of commands, replies and ticks.
THEOREM TypeCorrect == Spec => []TypeOK
BY TypeInit, TypeStep, PTL DEF Spec

--------------------------------------------------------------------------------
(***************************************************************************)
(* Both ends of a link are secured alike.                                  *)
(***************************************************************************)

\* The two ends of link h in c: EncryptionMirrored, of one link.
Alike(c, h) ==
  c[1][h].up /\ c[2][h].up =>
    /\ c[1][h] = c[2][h]
    /\ c[1][h].encrypted => c[1][h].authenticated

LEMMA MirroredIsAlike == EncryptionMirrored <=> \A h \in Link : Alike(conn, h)
BY DEF EncryptionMirrored, Holds, Alike, End

LEMMA MirroredNext ==
  ASSUME \A h \in Link : Alike(conn', h)
  PROVE  EncryptionMirrored'
BY DEF EncryptionMirrored, Holds, Alike, End

LEMMA ConnFields ==
  ASSUME NEW r \in Conn
  PROVE  /\ [r EXCEPT !.authenticated = TRUE].up = r.up
         /\ [r EXCEPT !.authenticated = TRUE].authenticated
         /\ \A on : /\ [r EXCEPT !.encrypted = on].up = r.up
                    /\ [r EXCEPT !.encrypted = on].encrypted = on
                    /\ [r EXCEPT !.encrypted = on].authenticated = r.authenticated
         /\ \A n : /\ [r EXCEPT !.rotations = n].up = r.up
                   /\ [r EXCEPT !.rotations = n].encrypted = r.encrypted
                   /\ [r EXCEPT !.rotations = n].authenticated = r.authenticated
         /\ ~Down.up /\ Up.up /\ ~Up.encrypted
BY DEF Conn, Down, Up

\* A pairing that ends marks the ends that hold the link.
LEMMA FinishMirrors ==
  ASSUME SameEnds, pairings # <<>>, NEW success \in BOOLEAN, Finish(success)
  PROVE  EncryptionMirrored'
<1> DEFINE g == Current.handle
<1>1. g \in Link /\ conn \in [End -> [Link -> Conn]]
  BY CurrentType DEF SameEnds, TypeOK, Pairing
<1>2. conn' = [e \in End |-> IF success /\ Holds(e, g)
                            THEN [conn[e] EXCEPT ![g].authenticated = TRUE]
                            ELSE conn[e]]
  BY DEF Finish
<1> HIDE DEF g
<1>3. \A h \in Link : Alike(conn, h)
  BY MirroredIsAlike DEF SameEnds
<1>4. \A h \in Link : Alike(conn', h)
  <2> TAKE h \in Link
  <2>1. CASE h = g
    <3>1. \A e \in End : conn'[e][g] = conn[e][g] \/ conn'[e][g] = [conn[e][g] EXCEPT !.authenticated = TRUE]
      BY <1>1, <1>2
    <3>2. \A e \in End : conn'[e][g].up = conn[e][g].up
      <4> TAKE e \in End
      <4>1. conn[e][g] \in Conn
        BY <1>1
      <4> QED BY <3>1, <4>1, ConnFields
    <3>3. CASE conn[1][g].up /\ conn[2][g].up
      <4>1. conn[1][g] = conn[2][g] /\ (conn[1][g].encrypted => conn[1][g].authenticated)
        BY <1>1, <1>3, <3>3 DEF Alike
      <4>2. conn'[1][g] = conn'[2][g]
        BY <1>1, <1>2, <3>3, <4>1 DEF Holds, End
      <4>3. conn'[1][g].encrypted => conn'[1][g].authenticated
        <5>1. conn[1][g] \in Conn /\ 1 \in End
          BY <1>1 DEF End
        <5> QED BY <3>1, <4>1, <5>1, ConnFields
      <4> QED BY <2>1, <4>2, <4>3 DEF Alike
    <3>4. CASE ~(conn[1][g].up /\ conn[2][g].up)
      BY <2>1, <3>2, <3>4 DEF Alike, End
    <3> QED BY <3>3, <3>4
  <2>2. CASE h # g
    BY <1>1, <1>2, <1>3, <2>2 DEF Alike, Holds, End
  <2> QED BY <2>1, <2>2
<1> QED BY <1>4, MirroredNext

LEMMA MirroredTick == SameEnds /\ Tick => EncryptionMirrored'
<1> SUFFICES ASSUME SameEnds, Tick PROVE EncryptionMirrored'
  OBVIOUS
<1> USE DEF SameEnds
<1>0. /\ conn \in [End -> [Link -> Conn]]
      /\ \A h \in Link : Alike(conn, h)
  BY MirroredIsAlike DEF TypeOK
<1>k. ASSUME UNCHANGED conn PROVE EncryptionMirrored'
  BY <1>0, <1>k, MirroredNext
<1>1. CASE RouteConnect
  <2>1. UNCHANGED conn \/ conn' = [e \in End |-> [conn[e] EXCEPT ![made + 1] = Up]]
    BY <1>1 DEF RouteConnect
  <2>2. CASE conn' = [e \in End |-> [conn[e] EXCEPT ![made + 1] = Up]]
    <3>1. \A h \in Link : Alike(conn', h)
      <4> TAKE h \in Link
      <4>1. CASE h = made + 1
        BY <1>0, <2>2, <4>1, ConnFields, ConnType DEF Alike, End
      <4>2. CASE h # made + 1
        BY <1>0, <2>2, <4>2 DEF Alike, End
      <4> QED BY <4>1, <4>2
    <3> QED BY <3>1, MirroredNext
  <2> QED BY <1>k, <2>1, <2>2
<1>2. CASE RouteDisconnect
  <2> DEFINE g == Head(actions).handle
  <2>1. UNCHANGED conn \/ conn' = [e \in End |-> [conn[e] EXCEPT ![g] = Down]]
    BY <1>2 DEF RouteDisconnect
  <2> HIDE DEF g
  <2>2. CASE conn' = [e \in End |-> [conn[e] EXCEPT ![g] = Down]]
    <3>1. \A h \in Link : Alike(conn', h)
      <4> TAKE h \in Link
      <4>1. CASE h = g
        BY <1>0, <2>2, <4>1, ConnFields, ConnType DEF Alike, End
      <4>2. CASE h # g
        BY <1>0, <2>2, <4>2 DEF Alike, End
      <4> QED BY <4>1, <4>2
    <3> QED BY <3>1, MirroredNext
  <2> QED BY <1>k, <2>1, <2>2
<1>3. CASE RouteSetConnectionEncryption
  <2> DEFINE from == Head(actions).from
             g == Head(actions).handle
             on == Head(actions).arg
  <2>1. Head(actions) \in Action /\ Head(actions).op = "encrypt"
    BY <1>3, NowType DEF RouteSetConnectionEncryption
  <2>2. from \in End /\ g \in Link /\ on \in BOOLEAN
    BY <2>1, ActionType
  <2>3. \/ UNCHANGED conn
        \/ /\ conn[from][g].up /\ (on => conn[from][g].authenticated)
           /\ conn' = [e \in End |-> IF Holds(e, g) THEN [conn[e] EXCEPT ![g].encrypted = on] ELSE conn[e]]
    BY <1>3 DEF RouteSetConnectionEncryption, MayEncrypt, EncryptedEnds, Holds
  <2> HIDE DEF from, g, on
  <2>4. CASE /\ conn[from][g].up /\ (on => conn[from][g].authenticated)
             /\ conn' = [e \in End |-> IF Holds(e, g) THEN [conn[e] EXCEPT ![g].encrypted = on] ELSE conn[e]]
    <3>1. \A h \in Link : Alike(conn', h)
      <4> TAKE h \in Link
      <4>1. CASE h = g
        <5>1. CASE conn[1][g].up /\ conn[2][g].up
          <6>1. conn[1][g] = conn[2][g] /\ (on => conn[1][g].authenticated)
            BY <1>0, <2>2, <2>4, <5>1 DEF Alike, End
          <6>2. \A e \in End : conn'[e][g] = [conn[e][g] EXCEPT !.encrypted = on]
            BY <1>0, <2>2, <2>4, <5>1 DEF Holds, End
          <6>3. conn[1][g] \in Conn /\ 1 \in End /\ 2 \in End
            BY <1>0, <2>2 DEF End
          <6>4. conn'[1][g] = conn'[2][g]
            BY <6>1, <6>2, <6>3
          <6>5. conn'[1][g].encrypted => conn'[1][g].authenticated
            <7> DEFINE r == conn[1][g]
            <7>1. r \in Conn /\ conn'[1][g] = [r EXCEPT !.encrypted = on]
              BY <6>2, <6>3
            <7>2. (on => r.authenticated)
              BY <6>1
            <7> HIDE DEF r
            <7> QED BY <2>2, <7>1, <7>2, ConnFields
          <6> QED BY <4>1, <6>4, <6>5 DEF Alike
        <5>2. CASE ~(conn[1][g].up /\ conn[2][g].up)
          <6>1. \A e \in End : conn'[e][g].up = conn[e][g].up
            BY <1>0, <2>2, <2>4, ConnFields DEF Holds
          <6> QED BY <4>1, <5>2, <6>1 DEF Alike, End
        <5> QED BY <5>1, <5>2
      <4>2. CASE h # g
        BY <1>0, <2>2, <2>4, <4>2 DEF Alike, Holds, End
      <4> QED BY <4>1, <4>2
    <3> QED BY <3>1, MirroredNext
  <2> QED BY <1>k, <2>3, <2>4
<1>4. CASE RouteChangeConnectionLinkKey
  <2> DEFINE g == Head(actions).handle
             n == conn[Head(actions).from][g].rotations + 1
  <2>1. Head(actions) \in Action /\ Head(actions).op = "changeKey"
    BY <1>4, NowType DEF RouteChangeConnectionLinkKey
  <2>2. g \in Link
    BY <2>1, ActionType
  <2>3. \/ UNCHANGED conn
        \/ conn' = [e \in End |-> IF Holds(e, g) THEN [conn[e] EXCEPT ![g].rotations = n] ELSE conn[e]]
    BY <1>4 DEF RouteChangeConnectionLinkKey
  <2> HIDE DEF g, n
  <2>4. CASE conn' = [e \in End |-> IF Holds(e, g) THEN [conn[e] EXCEPT ![g].rotations = n] ELSE conn[e]]
    <3>1. \A h \in Link : Alike(conn', h)
      <4> TAKE h \in Link
      <4>1. CASE h = g
        BY <1>0, <2>2, <2>4, <4>1, ConnFields DEF Alike, Holds, End
      <4>2. CASE h # g
        BY <1>0, <2>2, <2>4, <4>2 DEF Alike, Holds, End
      <4> QED BY <4>1, <4>2
    <3> QED BY <3>1, MirroredNext
  <2> QED BY <1>k, <2>3, <2>4
<1>5. CASE RouteLinkKeyReply
  <2>1. KeyOutcome /\ pairings # <<>>
    BY <1>5, KeyReplyOutcome, KeysType
  <2> QED BY <1>k, <2>1, FinishMirrors DEF KeyOutcome, Continue
<1>6. CASE RouteIoCapabilityReply
  <2>1. IoOutcome /\ pairings # <<>>
    BY <1>6, IoReplyOutcome, IosType
  <2> QED BY <1>k, <2>1, FinishMirrors DEF IoOutcome, Continue
<1>7. CASE RouteUserReply
  <2>1. UserOutcome /\ pairings # <<>>
    BY <1>7, UserReplyOutcome, DecisionsType
  <2> QED BY <1>k, <2>1, FinishMirrors DEF UserOutcome, Continue
<1>8. CASE DrainDone \/ RouteAuthenticate \/ RouteStaleReply \/ RouteDone
  BY <1>k, <1>8 DEF DrainDone, RouteAuthenticate, RouteStaleReply, RouteDone
<1> QED BY <1>1, <1>2, <1>3, <1>4, <1>5, <1>6, <1>7, <1>8 DEF Tick

\* Of the hosts' steps only Reset touches a controller's links.
LEMMA OnlyReset ==
  ASSUME HostCommand \/ \E e \in End : HostReply(e)
  PROVE  UNCHANGED conn \/ \E e \in End : Reset(e)
BY DEF HostCommand, HostReply, Connect, AuthenticationRequested, SetConnectionEncryption,
       ChangeConnectionLinkKey, Disconnect, WriteSimplePairingMode, Forget, Send, LinkKeyReply,
       IoCapabilityReply, IoCapabilityNegativeReply, UserConfirmationReply, UserPasskeyReply,
       Answer, Queue

LEMMA MirroredStep == SameEnds /\ [Next]_vars => EncryptionMirrored'
<1> SUFFICES ASSUME SameEnds, [Next]_vars PROVE EncryptionMirrored'
  OBVIOUS
<1>0. /\ conn \in [End -> [Link -> Conn]]
      /\ \A h \in Link : Alike(conn, h)
  BY MirroredIsAlike DEF SameEnds, TypeOK
<1>1. CASE UNCHANGED conn
  BY <1>0, <1>1, MirroredNext
<1>2. CASE \E e \in End : Reset(e)
  <2> PICK e \in End : Reset(e)
    BY <1>2
  <2>1. \A h \in Link : ~conn'[e][h].up
    BY <1>0, ConnFields, ConnType DEF Reset
  <2>2. \A h \in Link : Alike(conn', h)
    BY <2>1 DEF Alike, End
  <2> QED BY <2>2, MirroredNext
<1>3. CASE Tick
  BY <1>3, MirroredTick
<1>4. CASE UNCHANGED vars
  BY <1>1, <1>4 DEF vars
<1> QED BY <1>1, <1>2, <1>3, <1>4, OnlyReset DEF Next

\* However the two hosts' commands, replies, Disconnects and Resets are interleaved,
\* a link both controllers hold is authenticated, encrypted and rekeyed at both ends
\* or at neither, and never encrypted without having been authenticated: "a link that
\* came back encrypted on one side only would be worse than one that stayed clear".
THEOREM EncryptionTheorem == Spec => []EncryptionMirrored
<1>1. Init => SameEnds
  <2> SUFFICES ASSUME Init PROVE SameEnds
    OBVIOUS
  <2>1. TypeOK
    BY TypeInit
  <2>2. \A e \in End, h \in Link : ~conn[e][h].up
    BY ConnFields, ConnType DEF Init
  <2> QED BY <2>1, <2>2 DEF SameEnds, EncryptionMirrored, Holds, End
<1>2. SameEnds /\ [Next]_vars => SameEnds'
  BY TypeStep, MirroredStep DEF SameEnds
<1>3. SameEnds => EncryptionMirrored
  BY DEF SameEnds
<1> QED BY <1>1, <1>2, <1>3, PTL DEF Spec

--------------------------------------------------------------------------------
(***************************************************************************)
(* Two stored link keys are the same key.                                  *)
(***************************************************************************)

\* A host's key changes by being forgotten, or with the other host's.
LEMMA BondsMove ==
  ASSUME TypeOK, [Next]_vars
  PROVE  \/ UNCHANGED bond
         \/ \E e \in End : bond' = [bond EXCEPT ![e] = NoKey]
         \/ \E key : bond' = [e \in End |-> key]
<1>1. CASE HostCommand \/ \E e \in End : HostReply(e)
  BY <1>1 DEF HostCommand, HostReply, Connect, AuthenticationRequested, SetConnectionEncryption,
       ChangeConnectionLinkKey, Disconnect, WriteSimplePairingMode, Forget, Reset, Send, LinkKeyReply,
       IoCapabilityReply, IoCapabilityNegativeReply, UserConfirmationReply, UserPasskeyReply,
       Answer, Queue, hosts
<1>2. CASE RouteChangeConnectionLinkKey
  <2> DEFINE key == [rotation |-> conn[Head(actions).from][Head(actions).handle].rotations + 1,
                     type |-> "unauthenticated"]
  <2>1. UNCHANGED bond \/ bond' = [e \in End |-> IF e \in End THEN key ELSE bond[e]]
    BY <1>2 DEF RouteChangeConnectionLinkKey, KeyNotified
  <2>2. UNCHANGED bond \/ bond' = [e \in End |-> key]
    BY <2>1
  <2> QED BY <2>2
<1>3. CASE RouteUserReply
  BY <1>3, UserReplyOutcome DEF UserOutcome
<1>4. CASE RouteLinkKeyReply \/ RouteIoCapabilityReply
  BY <1>4, KeyReplyOutcome, IoReplyOutcome
<1>5. CASE DrainDone \/ RouteConnect \/ RouteDisconnect \/ RouteAuthenticate
             \/ RouteSetConnectionEncryption \/ RouteStaleReply \/ RouteDone
  BY <1>5 DEF DrainDone, RouteConnect, RouteDisconnect, RouteAuthenticate,
       RouteSetConnectionEncryption, RouteStaleReply, RouteDone, hosts
<1>6. CASE UNCHANGED vars
  BY <1>6 DEF vars, hosts
<1> QED BY <1>1, <1>2, <1>3, <1>4, <1>5, <1>6 DEF Next, Tick

\* Whatever was paired, rekeyed, dropped and forgotten in between, two hosts that hold
\* a link key for each other hold the same one: finish_pairing and Change Connection
\* Link Key notify both ends.
THEOREM BondTheorem == Spec => []BondsAgree
<1>1. Init => TypeOK /\ BondsAgree
  BY TypeInit DEF Init, BondsAgree, End
<1>2. TypeOK /\ BondsAgree /\ [Next]_vars => TypeOK' /\ BondsAgree'
  <2> SUFFICES ASSUME TypeOK, BondsAgree, [Next]_vars PROVE BondsAgree'
    BY TypeStep
  <2>0. bond \in [End -> Key]
    BY DEF TypeOK
  <2>1. CASE UNCHANGED bond
    BY <2>1 DEF BondsAgree
  <2>2. CASE \E e \in End : bond' = [bond EXCEPT ![e] = NoKey]
    BY <2>0, <2>2 DEF BondsAgree, End
  <2>3. CASE \E key : bond' = [e \in End |-> key]
    BY <2>3 DEF BondsAgree, End
  <2> QED BY <2>1, <2>2, <2>3, BondsMove
<1> QED BY <1>1, <1>2, PTL DEF Spec

--------------------------------------------------------------------------------
(***************************************************************************)
(* Nobody waits for an answer that nobody was asked for.                   *)
(***************************************************************************)

\* AnswersAwaited, of one conversation and one host, for the hosts' open questions A
\* and the queue q.
Replied(q, e, ops) == \E n \in DOMAIN q : q[n].from = e /\ q[n].op \in ops

Awaited(A, q, e, ops) == A[e] \cap ops # {} \/ Replied(q, e, ops)

Answerable(p, A, q, e) ==
  /\ p.stage = "LinkKey" /\ p.key[e] = NoAnswer => Awaited(A, q, e, {"key", "keyReply"})
  /\ p.stage = "IoCapability" /\ p.io[e] = NoCaps => Awaited(A, q, e, {"io", "ioReply"})
  /\ p.stage = "UserAction" /\ p.decision[e] = Pending => Awaited(A, q, e, {"confirm", "passkey"})

\* Lives, in c.
LivesIn(c, p) == c[1][p.handle].up /\ c[2][p.handle].up

LEMMA LivesIs == \A p : Lives(p) <=> LivesIn(conn, p)
BY DEF Lives, LivesIn, End

LEMMA LivesNext == \A p : LivesIn(conn', p) <=> (\A e \in End : conn'[e][p.handle].up)
BY DEF LivesIn, End

LEMMA AwaitedIs ==
  AnswersAwaited <=>
    \A k \in DOMAIN pairings, e \in End :
      LivesIn(conn, pairings[k]) => Answerable(pairings[k], asked, actions, e)
BY LivesIs DEF AnswersAwaited, Answerable, Awaited, Replied

\* AskInv, for the variables' next values.
AskInvIn(c, P, m, ph, A, q) ==
  /\ \A e \in End, h \in Link : c[e][h].up => h <= m
  /\ \A k \in DOMAIN P : P[k].handle <= m
  /\ \A g, h \in Link : (\A e \in End : c[e][g].up /\ c[e][h].up) => g = h
  /\ \A k, n \in DOMAIN P : P[k].handle = P[n].handle => k = n
  /\ \A k \in DOMAIN P : k # 1 /\ LivesIn(c, P[k]) =>
       P[k].stage = "LinkKey" /\ (ph = "route" => \A e \in End : "key" \in A[e])
  /\ \A k \in DOMAIN P, e \in End : LivesIn(c, P[k]) => Answerable(P[k], A, q, e)

LEMMA AskInvIs ==
  AskInv <=> TypeOK /\ AskInvIn(conn, pairings, made, phase, asked, actions)
BY LivesIs, AwaitedIs DEF AskInv, Fresh, OneLive, OneEach, NotYetAsked, AskInvIn

LEMMA AskInvNext ==
  ASSUME TypeOK', AskInvIn(conn', pairings', made', phase', asked', actions')
  PROVE  AskInv'
BY DEF AskInv, Fresh, OneLive, OneEach, NotYetAsked, AskInvIn, AnswersAwaited, Answerable,
       Awaited, Replied, Lives, LivesIn, End

\* A longer queue and more open questions leave nobody waiting in vain.
LEMMA AnswerableGrows ==
  ASSUME NEW p, NEW A, NEW B, NEW q, NEW r, NEW e \in End,
         Answerable(p, A, q, e), A[e] \subseteq B[e],
         \A ops : Replied(q, e, ops) => Replied(r, e, ops)
  PROVE  Answerable(p, B, r, e)
<1>1. \A ops : Awaited(A, q, e, ops) => Awaited(B, r, e, ops)
  BY DEF Awaited
<1> QED BY <1>1 DEF Answerable

LEMMA RepliedAppend ==
  ASSUME NEW q \in Seq(Action), NEW a \in Action, NEW e \in End
  PROVE  /\ \A ops : Replied(q, e, ops) => Replied(Append(q, a), e, ops)
         /\ \A ops : a.from = e /\ a.op \in ops => Replied(Append(q, a), e, ops)
<1>1. /\ Append(q, a) \in Seq(Action) /\ Len(Append(q, a)) = Len(q) + 1
      /\ \A n \in 1 .. Len(q) : Append(q, a)[n] = q[n]
      /\ Append(q, a)[Len(q) + 1] = a /\ Len(q) \in Nat
      /\ DOMAIN q = 1 .. Len(q) /\ DOMAIN Append(q, a) = 1 .. Len(q) + 1
  OBVIOUS
<1> QED BY <1>1 DEF Replied

\* Routing an Action uses up a reply of its sender's and of its kind, and no other.
LEMMA RepliedTail ==
  ASSUME NEW q \in Seq(Action), q # <<>>, NEW e \in End, NEW ops,
         Head(q).from # e \/ Head(q).op \notin ops, Replied(q, e, ops)
  PROVE  Replied(Tail(q), e, ops)
<1>1. /\ Len(q) \in Nat \ {0} /\ Head(q) = q[1] /\ Len(Tail(q)) = Len(q) - 1
      /\ \A n \in 1 .. Len(q) - 1 : Tail(q)[n] = q[n + 1]
      /\ DOMAIN q = 1 .. Len(q) /\ DOMAIN Tail(q) = 1 .. Len(q) - 1
  OBVIOUS
<1>2. PICK n \in 1 .. Len(q) : q[n].from = e /\ q[n].op \in ops
  BY <1>1 DEF Replied
<1>3. n # 1
  BY <1>1, <1>2
<1>4. n - 1 \in 1 .. Len(q) - 1 /\ Tail(q)[n - 1] = q[n]
  BY <1>1, <1>3
<1> QED BY <1>1, <1>2, <1>4 DEF Replied

\* A conversation whose own question the routed Action does not answer is still
\* answerable.
LEMMA AnswerableTail ==
  ASSUME NEW p, NEW A, NEW q \in Seq(Action), q # <<>>, NEW e \in End, Answerable(p, A, q, e),
         \/ Head(q).from # e
         \/ /\ p.stage = "LinkKey" => Head(q).op \notin {"key", "keyReply"}
            /\ p.stage = "IoCapability" => Head(q).op \notin {"io", "ioReply"}
            /\ p.stage = "UserAction" => Head(q).op \notin {"confirm", "passkey"}
  PROVE  Answerable(p, A, Tail(q), e)
<1>1. \A ops : Awaited(A, q, e, ops) /\ (Head(q).from # e \/ Head(q).op \notin ops)
         => Awaited(A, Tail(q), e, ops)
  BY RepliedTail DEF Awaited
<1> QED BY <1>1 DEF Answerable

\* An open question for the link key is enough for a conversation that waits for it.
LEMMA AnswerableKey ==
  ASSUME NEW p, NEW A, NEW q, NEW e \in End, p.stage = "LinkKey", "key" \in A[e]
  PROVE  Answerable(p, A, q, e)
BY DEF Answerable, Awaited

\* A host's step that leaves the links and the conversations alone.
LEMMA AskHost ==
  ASSUME AskInv, TypeOK', phase = "drain", UNCHANGED <<phase, made, conn, pairings>>,
         \A p : \A e \in End : Answerable(p, asked, actions, e) => Answerable(p, asked', actions', e)
  PROVE  AskInv'
<1>1. AskInvIn(conn, pairings, made, phase, asked, actions)
  BY AskInvIs
<1>2. \A k \in DOMAIN pairings, e \in End :
        LivesIn(conn, pairings[k]) => Answerable(pairings[k], asked', actions', e)
  BY <1>1 DEF AskInvIn
<1>3. AskInvIn(conn, pairings, made, phase, asked', actions')
  BY <1>1, <1>2 DEF AskInvIn
<1> QED BY <1>3, AskInvNext

LEMMA AskQueued ==
  ASSUME AskInv, TypeOK', NEW e \in End, NEW op, NEW handle, NEW arg,
         [op |-> op, from |-> e, handle |-> handle, arg |-> arg] \in Action,
         Queue(e, op, handle, arg), UNCHANGED asked
  PROVE  AskInv'
<1> DEFINE a == [op |-> op, from |-> e, handle |-> handle, arg |-> arg]
<1>1. actions \in Seq(Action) /\ actions' = Append(actions, a) /\ a \in Action
  BY DEF Queue, AskInv, TypeOK
<1> HIDE DEF a
<1>2. \A p : \A f \in End : Answerable(p, asked, actions, f) => Answerable(p, asked', actions', f)
  BY <1>1, RepliedAppend, AnswerableGrows
<1> QED BY <1>2, AskHost DEF Queue

\* A reply takes the place of the question.
LEMMA AskAnswered ==
  ASSUME AskInv, TypeOK', NEW e \in End, NEW question, NEW op, NEW arg,
         [op |-> op, from |-> e, handle |-> 0, arg |-> arg] \in Action,
         <<question, op>> \in {<<"key", "keyReply">>, <<"io", "ioReply">>,
                               <<"confirm", "confirm">>, <<"passkey", "passkey">>},
         Answer(e, question, op, arg)
  PROVE  AskInv'
<1> DEFINE a == [op |-> op, from |-> e, handle |-> 0, arg |-> arg]
<1>1. /\ actions \in Seq(Action) /\ actions' = Append(actions, a) /\ a \in Action
      /\ a.from = e /\ a.op = op
      /\ asked' = [asked EXCEPT ![e] = @ \ {question}] /\ asked \in [End -> SUBSET {"key", "io", "confirm", "passkey"}]
  BY DEF Answer, Queue, AskInv, TypeOK
<1> HIDE DEF a
<1>2. ASSUME NEW p, NEW f \in End, Answerable(p, asked, actions, f)
      PROVE  Answerable(p, asked', actions', f)
  <2>1. CASE f # e
    <3>1. asked[f] \subseteq asked'[f]
      BY <1>1, <2>1
    <3> QED BY <1>1, <1>2, <3>1, RepliedAppend, AnswerableGrows
  <2>2. CASE f = e
    <3>1. asked[e] \subseteq asked'[e] \cup {question}
      BY <1>1
    <3>2. \A ops : Replied(actions, e, ops) => Replied(actions', e, ops)
      BY <1>1, RepliedAppend
    <3>3. \A ops : op \in ops => Replied(actions', e, ops)
      BY <1>1, RepliedAppend
    <3>4. \A ops : (question \in ops => op \in ops) /\ Awaited(asked, actions, e, ops)
                     => Awaited(asked', actions', e, ops)
      BY <3>1, <3>2, <3>3 DEF Awaited
    <3>5. \A ops \in {{"key", "keyReply"}, {"io", "ioReply"}, {"confirm", "passkey"}} :
            question \in ops => op \in ops
      OBVIOUS
    <3> QED BY <1>2, <2>2, <3>4, <3>5 DEF Answerable
  <2> QED BY <2>1, <2>2
<1> QED BY <1>2, AskHost DEF Answer, Queue

LEMMA AskCommand == AskInv /\ TypeOK' /\ HostCommand => AskInv'
<1> SUFFICES ASSUME AskInv, TypeOK', NEW e \in End,
               \/ Connect(e)
               \/ \E h \in Link :
                    \/ AuthenticationRequested(e, h)
                    \/ \E on \in BOOLEAN : SetConnectionEncryption(e, h, on)
                    \/ ChangeConnectionLinkKey(e, h)
                    \/ Disconnect(e, h)
               \/ WriteSimplePairingMode(e)
               \/ Forget(e)
               \/ Reset(e)
             PROVE  AskInv'
  BY DEF HostCommand
<1>1. CASE Connect(e)
  BY <1>1, AskQueued, QueuedAction DEF Connect, Send
<1>2. CASE \E h \in Link : AuthenticationRequested(e, h)
  BY <1>2, AskQueued, QueuedAction DEF AuthenticationRequested, Send
<1>3. CASE \E h \in Link, on \in BOOLEAN : SetConnectionEncryption(e, h, on)
  BY <1>3, AskQueued, QueuedAction DEF SetConnectionEncryption, Send
<1>4. CASE \E h \in Link : ChangeConnectionLinkKey(e, h)
  BY <1>4, AskQueued, QueuedAction DEF ChangeConnectionLinkKey, Send
<1>5. CASE \E h \in Link : Disconnect(e, h)
  BY <1>5, AskQueued, QueuedAction DEF Disconnect, Send
<1>6. CASE WriteSimplePairingMode(e) \/ Forget(e)
  <2>1. UNCHANGED <<phase, made, conn, pairings, asked, actions>> /\ phase = "drain"
    BY <1>6 DEF WriteSimplePairingMode, Forget, hosts
  <2> QED BY <2>1, AskHost
<1>7. CASE Reset(e)
  <2>1. AskInvIn(conn, pairings, made, phase, asked, actions)
    BY AskInvIs
  <2>2. /\ \A h \in Link : ~conn'[e][h].up
        /\ \A f \in End : f # e => conn'[f] = conn[f]
    BY <1>7, ConnFields, ConnType DEF Reset, AskInv, TypeOK
  <2>3. pairings' = pairings /\ made' = made /\ phase' = phase
    BY <1>7 DEF Reset
  <2>4. \A k \in DOMAIN pairings : pairings[k].handle \in Link
    BY PairingAt DEF AskInv
  <2>5. \A k \in DOMAIN pairings : ~LivesIn(conn', pairings[k])
    BY <2>2, <2>4 DEF LivesIn, End
  <2>6. AskInvIn(conn', pairings', made', phase', asked', actions')
    BY <2>1, <2>2, <2>3, <2>5 DEF AskInvIn
  <2> QED BY <2>6, AskInvNext
<1> QED BY <1>1, <1>2, <1>3, <1>4, <1>5, <1>6, <1>7

LEMMA AskReply == ASSUME AskInv, TypeOK', NEW e \in End, HostReply(e) PROVE AskInv'
<1>1. CASE LinkKeyReply(e)
  <2>1. Answer(e, "key", "keyReply", bond[e]) /\ bond[e] \in Key
    BY <1>1 DEF LinkKeyReply, AskInv, TypeOK
  <2> QED BY <2>1, AskAnswered, QueuedAction
<1>2. CASE (\E caps \in Caps : IoCapabilityReply(e, caps)) \/ IoCapabilityNegativeReply(e)
  <2> PICK caps \in Caps \cup {NoCaps} : Answer(e, "io", "ioReply", caps)
    BY <1>2 DEF IoCapabilityReply, IoCapabilityNegativeReply
  <2> QED BY AskAnswered, QueuedAction
<1>3. CASE \E accept \in {"yes", "no"} : UserConfirmationReply(e, accept)
  BY <1>3, AskAnswered, QueuedAction DEF UserConfirmationReply
<1>4. CASE \E digits \in {"right", "other", "none"} : UserPasskeyReply(e, digits)
  BY <1>4, AskAnswered, QueuedAction DEF UserPasskeyReply
<1> QED BY <1>1, <1>2, <1>3, <1>4 DEF HostReply

\* The replies of each kind.
Replies == {"keyReply", "ioReply", "confirm", "passkey"}

\* What routing an Action that is no reply leaves as it was.
LEMMA NotReply ==
  ASSUME TypeOK, NEW ops, Now(ops), ops \cap Replies = {},
         ops \cap {"key", "io"} = {}
  PROVE  \A p : \A e \in End : Answerable(p, asked, actions, e) => Answerable(p, asked, actions', e)
<1>1. /\ actions \in Seq(Action) /\ actions # <<>> /\ actions' = Tail(actions)
      /\ Head(actions).op \notin {"key", "keyReply", "io", "ioReply", "confirm", "passkey"}
  BY NowType DEF TypeOK, Replies
<1> QED BY <1>1, AnswerableTail

\* Links that go, or change while they stay, disturb no conversation.
LEMMA AskQuiet ==
  ASSUME AskInv, TypeOK', NEW ops, Now(ops), ops \cap Replies = {}, ops \cap {"key", "io"} = {},
         \A e \in End, h \in Link : conn'[e][h].up => conn[e][h].up,
         UNCHANGED <<made, pairings, asked>>
  PROVE  AskInv'
<1>1. AskInvIn(conn, pairings, made, phase, asked, actions)
  BY AskInvIs
<1>2. \A p : \A e \in End : Answerable(p, asked, actions, e) => Answerable(p, asked, actions', e)
  BY NotReply DEF AskInv
<1>3. phase' = phase
  BY DEF Now
<1>4. \A k \in DOMAIN pairings : pairings[k].handle \in Link
  BY PairingAt DEF AskInv
<1>5. \A k \in DOMAIN pairings : LivesIn(conn', pairings[k]) => LivesIn(conn, pairings[k])
  BY <1>4 DEF LivesIn, End
<1>6. AskInvIn(conn', pairings, made, phase, asked, actions')
  BY <1>1, <1>2, <1>5 DEF AskInvIn
<1> QED BY <1>3, <1>6, AskInvNext

LEMMA AskConnect == ASSUME AskInv, TypeOK', RouteConnect PROVE AskInv'
<1>1. Now({"connect"}) /\ UNCHANGED <<pairings, asked>>
  BY DEF RouteConnect, hosts
<1>2. CASE UNCHANGED <<made, conn>>
  BY <1>1, <1>2, AskQuiet DEF Replies
<1>3. CASE /\ \A h \in Link : \E e \in End : ~Holds(e, h)
           /\ made' = made + 1 /\ conn' = [e \in End |-> [conn[e] EXCEPT ![made + 1] = Up]]
  <2>1. AskInvIn(conn, pairings, made, phase, asked, actions)
    BY AskInvIs
  <2>2. \A p : \A e \in End : Answerable(p, asked, actions, e) => Answerable(p, asked, actions', e)
    BY <1>1, NotReply DEF AskInv, Replies
  <2>3. conn \in [End -> [Link -> Conn]] /\ made \in Nat
    BY DEF AskInv, TypeOK
  <2>4. \A e \in End, h \in Link : conn'[e][h].up => conn[e][h].up \/ h = made + 1
    BY <1>3, <2>3
  <2>5. \A k \in DOMAIN pairings : pairings[k].handle \in Link /\ pairings[k].handle <= made
    BY <2>1, PairingAt DEF AskInv, AskInvIn
  <2>6. \A k \in DOMAIN pairings : ~LivesIn(conn', pairings[k])
    <3> TAKE k \in DOMAIN pairings
    <3> DEFINE h == pairings[k].handle
    <3>1. h \in Link /\ h # made + 1
      BY <2>3, <2>5 DEF Link
    <3> HIDE DEF h
    <3>2. PICK e \in End : ~conn[e][h].up
      BY <1>3, <3>1 DEF Holds
    <3>3. ~conn'[e][h].up
      BY <2>4, <3>1, <3>2
    <3> QED BY <3>3 DEF LivesIn, End, h
  <2>7. \A g \in Link : (\A e \in End : conn'[e][g].up) => g = made + 1
    BY <1>3, <2>4 DEF Holds
  <2>8. \A e \in End, h \in Link : conn'[e][h].up => h <= made + 1
    <3> TAKE e \in End, h \in Link
    <3>1. conn[e][h].up => h <= made
      BY <2>1 DEF AskInvIn
    <3> QED BY <2>3, <2>4, <3>1 DEF Link
  <2>9. AskInvIn(conn', pairings, made + 1, phase, asked, actions')
    <3>1. \A k \in DOMAIN pairings : pairings[k].handle <= made + 1
      BY <2>3, <2>5 DEF Link
    <3>2. \A k, n \in DOMAIN pairings : pairings[k].handle = pairings[n].handle => k = n
      BY <2>1 DEF AskInvIn
    <3> QED BY <2>6, <2>7, <2>8, <3>1, <3>2 DEF AskInvIn
  <2> QED BY <1>1, <1>3, <2>9, AskInvNext DEF Now
<1> QED BY <1>2, <1>3 DEF RouteConnect

LEMMA AskAuthenticate == ASSUME AskInv, TypeOK', RouteAuthenticate PROVE AskInv'
<1> DEFINE h == Head(actions).handle
           new == [handle |-> h, asker |-> Head(actions).from, stage |-> "LinkKey", model |-> "JustWorks",
                   key |-> [e \in End |-> NoAnswer], io |-> [e \in End |-> NoCaps],
                   decision |-> [e \in End |-> Pending], entered |-> [e \in End |-> "none"]]
<1>1. Now({"authenticate"}) /\ UNCHANGED <<made, conn>>
  BY DEF RouteAuthenticate
<1>2. CASE UNCHANGED <<pairings, asked>>
  BY <1>1, <1>2, AskQuiet DEF Replies
<1>3. CASE /\ Holds(Head(actions).from, h) /\ \A k \in DOMAIN pairings : pairings[k].handle # h
           /\ pairings' = Append(pairings, new)
           /\ asked' = [e \in End |-> asked[e] \cup {"key"}]
  <2>1. AskInvIn(conn, pairings, made, phase, asked, actions)
    BY AskInvIs
  <2>2. \A p : \A e \in End : Answerable(p, asked, actions, e) => Answerable(p, asked, actions', e)
    BY <1>1, NotReply DEF AskInv, Replies
  <2>3. /\ Head(actions).from \in End /\ h \in Link
    BY <1>1, NowType, ActionType DEF AskInv
  <2>4. h <= made
    BY <1>3, <2>1, <2>3 DEF AskInvIn, Holds
  <2>5. new.handle = h /\ new.stage = "LinkKey"
    OBVIOUS
  <2> HIDE DEF h, new
  <2>6. /\ Len(pairings) \in Nat /\ DOMAIN pairings = 1 .. Len(pairings)
        /\ DOMAIN pairings' = 1 .. Len(pairings) + 1
        /\ \A k \in 1 .. Len(pairings) : pairings'[k] = pairings[k]
        /\ pairings'[Len(pairings) + 1] = new
    BY <1>3 DEF AskInv, TypeOK
  <2>7. \A e \in End : "key" \in asked'[e] /\ asked[e] \subseteq asked'[e]
    BY <1>3
  <2>8. \A k \in DOMAIN pairings' : k \in DOMAIN pairings \/ pairings'[k] = new
    BY <2>6
  <2>9. \A k \in DOMAIN pairings', e \in End :
          LivesIn(conn, pairings'[k]) => Answerable(pairings'[k], asked', actions', e)
    <3> SUFFICES ASSUME NEW k \in DOMAIN pairings', NEW e \in End, LivesIn(conn, pairings'[k])
                 PROVE  Answerable(pairings'[k], asked', actions', e)
      OBVIOUS
    <3>1. CASE k \in DOMAIN pairings
      <4>1. Answerable(pairings[k], asked, actions', e)
        BY <2>1, <2>2, <2>6, <3>1 DEF AskInvIn
      <4> QED BY <2>6, <2>7, <3>1, <4>1, AnswerableGrows
    <3>2. CASE pairings'[k] = new
      BY <2>5, <2>7, <3>2, AnswerableKey
    <3> QED BY <2>8, <3>1, <3>2
  <2>10. AskInvIn(conn, pairings', made, phase, asked', actions')
    <3>1. \A k \in DOMAIN pairings' : pairings'[k].handle <= made
      BY <2>1, <2>4, <2>5, <2>6, <2>8 DEF AskInvIn
    <3>2. \A k, n \in DOMAIN pairings' : pairings'[k].handle = pairings'[n].handle => k = n
      <4>1. \A k, n \in DOMAIN pairings : pairings[k].handle = pairings[n].handle => k = n
        BY <2>1 DEF AskInvIn
      <4> QED BY <1>3, <2>5, <2>6, <4>1
    <3>3. \A k \in DOMAIN pairings' : k # 1 /\ LivesIn(conn, pairings'[k]) =>
            pairings'[k].stage = "LinkKey" /\ (phase = "route" => \A e \in End : "key" \in asked'[e])
      BY <2>1, <2>5, <2>6, <2>7, <2>8 DEF AskInvIn
    <3> QED BY <2>1, <2>9, <3>1, <3>2, <3>3 DEF AskInvIn
  <2> QED BY <1>1, <2>10, AskInvNext DEF Now
<1> QED BY <1>2, <1>3 DEF RouteAuthenticate

\* Behind the conversation at the head, a live one has its question still open.
LEMMA LaterOpen ==
  ASSUME AskInv, phase = "route", NEW k \in DOMAIN pairings, k # 1, LivesIn(conn, pairings[k])
  PROVE  pairings[k].stage = "LinkKey" /\ \A e \in End : "key" \in asked[e]
BY AskInvIs DEF AskInvIn

LEMMA AskContinue ==
  ASSUME AskInv, TypeOK', NEW ops, Now(ops), pairings # <<>>, NEW p \in Pairing, Continue(p),
         p.handle = Current.handle, UNCHANGED made, \A e \in End : asked[e] \subseteq asked'[e],
         \A e \in End : LivesIn(conn, Current) => Answerable(p, asked', actions', e)
  PROVE  AskInv'
<1>1. AskInvIn(conn, pairings, made, phase, asked, actions)
  BY AskInvIs
<1>2. phase = "route" /\ phase' = phase /\ conn' = conn /\ made' = made
  BY DEF Now, Continue
<1>3. /\ Len(pairings) \in Nat \ {0} /\ DOMAIN pairings = 1 .. Len(pairings)
      /\ DOMAIN pairings' = DOMAIN pairings /\ Current = pairings[1]
      /\ pairings'[1] = p
      /\ \A k \in DOMAIN pairings : k # 1 => pairings'[k] = pairings[k]
  BY ContinueForm, CurrentType, PairingAt DEF AskInv
<1>4. \A k \in DOMAIN pairings : pairings'[k].handle = pairings[k].handle
  BY <1>3
<1>5. \A k \in DOMAIN pairings : LivesIn(conn, pairings'[k]) <=> LivesIn(conn, pairings[k])
  BY <1>4 DEF LivesIn
<1>6. \A k \in DOMAIN pairings : k # 1 /\ LivesIn(conn, pairings'[k]) =>
        pairings'[k].stage = "LinkKey" /\ \A e \in End : "key" \in asked'[e]
  BY <1>2, <1>3, <1>5, LaterOpen
<1>7. \A k \in DOMAIN pairings, e \in End :
        LivesIn(conn, pairings'[k]) => Answerable(pairings'[k], asked', actions', e)
  <2> SUFFICES ASSUME NEW k \in DOMAIN pairings, NEW e \in End, LivesIn(conn, pairings'[k])
               PROVE  Answerable(pairings'[k], asked', actions', e)
    OBVIOUS
  <2>1. CASE k = 1
    BY <1>3, <1>5, <2>1
  <2>2. CASE k # 1
    BY <1>6, <2>2, AnswerableKey
  <2> QED BY <2>1, <2>2
<1>8. AskInvIn(conn, pairings', made, phase, asked', actions')
  BY <1>1, <1>3, <1>4, <1>6, <1>7 DEF AskInvIn
<1> QED BY <1>2, <1>8, AskInvNext

LEMMA AskFinish ==
  ASSUME AskInv, TypeOK', NEW ops, Now(ops), pairings # <<>>, NEW success \in BOOLEAN,
         Finish(success), UNCHANGED <<made, asked>>
  PROVE  AskInv'
<1>1. AskInvIn(conn, pairings, made, phase, asked, actions)
  BY AskInvIs
<1>2. phase = "route" /\ phase' = phase /\ made' = made /\ asked' = asked
  BY DEF Now
<1>3. /\ Len(pairings) \in Nat \ {0} /\ DOMAIN pairings = 1 .. Len(pairings)
      /\ DOMAIN pairings' = 1 .. Len(pairings) - 1
      /\ \A k \in 1 .. Len(pairings) - 1 : pairings'[k] = pairings[k + 1]
  BY CurrentType, PairingAt DEF AskInv, Finish
<1>4. conn \in [End -> [Link -> Conn]] /\ Current.handle \in Link
  BY CurrentType DEF AskInv, TypeOK, Pairing
<1>5. \A e \in End, h \in Link : conn'[e][h].up = conn[e][h].up
  <2> TAKE e \in End, h \in Link
  <2>1. conn[e][h] \in Conn
    BY <1>4
  <2>2. conn'[e][h] = conn[e][h] \/ conn'[e][h] = [conn[e][h] EXCEPT !.authenticated = TRUE]
    BY <1>4 DEF Finish
  <2> QED BY <2>1, <2>2, ConnFields
<1>6. \A k \in 1 .. Len(pairings) - 1 : k + 1 \in DOMAIN pairings /\ k + 1 # 1
  BY <1>3
<1>7. \A k \in DOMAIN pairings' : LivesIn(conn', pairings'[k]) => LivesIn(conn, pairings[k + 1])
  <2> TAKE k \in DOMAIN pairings'
  <2>1. pairings'[k] = pairings[k + 1] /\ pairings[k + 1].handle \in Link
    BY <1>3, <1>6, PairingAt DEF AskInv
  <2> QED BY <1>5, <2>1 DEF LivesIn, End
<1>8. \A k \in DOMAIN pairings' : LivesIn(conn', pairings'[k]) =>
        pairings'[k].stage = "LinkKey" /\ \A e \in End : "key" \in asked[e]
  BY <1>2, <1>3, <1>6, <1>7, LaterOpen
<1>9. \A k \in DOMAIN pairings', e \in End :
        LivesIn(conn', pairings'[k]) => Answerable(pairings'[k], asked, actions', e)
  BY <1>8, AnswerableKey
<1>10. AskInvIn(conn', pairings', made, phase, asked, actions')
  <2>1. \A k \in DOMAIN pairings' : pairings'[k].handle <= made
    BY <1>1, <1>3, <1>6 DEF AskInvIn
  <2>2. \A k, n \in DOMAIN pairings' : pairings'[k].handle = pairings'[n].handle => k = n
    <3> SUFFICES ASSUME NEW k \in DOMAIN pairings', NEW n \in DOMAIN pairings', pairings'[k].handle = pairings'[n].handle
                 PROVE  k = n
      OBVIOUS
    <3>1. /\ k + 1 \in DOMAIN pairings /\ n + 1 \in DOMAIN pairings
          /\ pairings[k + 1].handle = pairings[n + 1].handle
      BY <1>3, <1>6
    <3>2. k + 1 = n + 1
      BY <1>1, <3>1 DEF AskInvIn
    <3> QED BY <1>3, <3>2
  <2>3. /\ \A e \in End, h \in Link : conn'[e][h].up => h <= made
        /\ \A g, h \in Link : (\A e \in End : conn'[e][g].up /\ conn'[e][h].up) => g = h
    BY <1>1, <1>5 DEF AskInvIn
  <2> QED BY <1>8, <1>9, <2>1, <2>2, <2>3 DEF AskInvIn
<1> QED BY <1>2, <1>10, AskInvNext

\* Pruning leaves at most the one conversation whose link both controllers hold.
LEMMA AskPrune == ASSUME AskInv, TypeOK', DrainDone PROVE AskInv'
<1>1. AskInvIn(conn, pairings, made, phase, asked, actions)
  BY AskInvIs
<1>2. UNCHANGED <<conn, made, asked, actions>> /\ phase = "drain"
  BY DEF DrainDone, hosts
<1>3. CASE pairings' = pairings /\ phase' = "drain"
  <2>1. AskInvIn(conn, pairings, made, "drain", asked, actions)
    BY <1>1, <1>2
  <2> QED BY <1>2, <1>3, <2>1, AskInvNext
<1>4. CASE pairings' = Pruned
  <2> DEFINE I == {k \in DOMAIN pairings : Lives(pairings[k])}
             at(k) == Place(I, k)
  <2>1. pairings' = At(pairings, I) /\ pairings \in Seq(Pairing)
    BY <1>4 DEF Pruned, AskInv, TypeOK
  <2>2. /\ \A k \in DOMAIN pairings' : at(k) \in I /\ pairings'[k] = pairings[at(k)]
        /\ \A k, m \in DOMAIN pairings' : k < m => at(k) < at(m)
    BY <2>1, AtPlaces
  <2>3. \A k \in I : k \in DOMAIN pairings /\ LivesIn(conn, pairings[k]) /\ pairings[k].handle \in Link
    BY LivesIs, PairingAt DEF AskInv
  <2>4. DOMAIN pairings' \subseteq Nat /\ DOMAIN pairings \subseteq Nat
    BY DEF AskInv, TypeOK
  <2> HIDE DEF I
  <2>5. \A i, j \in I : i = j
    <3> SUFFICES ASSUME NEW i \in I, NEW j \in I PROVE i = j
      OBVIOUS
    <3>1. pairings[i].handle = pairings[j].handle
      BY <1>1, <2>3 DEF AskInvIn, LivesIn, End
    <3> QED BY <1>1, <2>3, <3>1 DEF AskInvIn
  <2>6. \A k, m \in DOMAIN pairings' : k = m
    <3> SUFFICES ASSUME NEW k \in DOMAIN pairings', NEW m \in DOMAIN pairings' PROVE k = m
      OBVIOUS
    <3>1. at(k) = at(m) /\ at(k) \in Nat /\ k \in Nat /\ m \in Nat
      BY <2>2, <2>3, <2>4, <2>5
    <3>2. ~(k < m) /\ ~(m < k)
      <4> HIDE DEF at
      <4> QED BY <2>2, <3>1
    <3> QED BY <3>1, <3>2
  <2>7. \A k \in DOMAIN pairings' : k = 1
    <3>1. pairings' \in Seq(Pairing)
      BY DEF TypeOK
    <3>2. \A k \in DOMAIN pairings' : 1 \in DOMAIN pairings'
      BY <3>1
    <3> QED BY <2>6, <3>2
  <2>8. AskInvIn(conn, pairings', made, phase', asked, actions)
    <3>1. \A k \in DOMAIN pairings' : \E i \in DOMAIN pairings : pairings'[k] = pairings[i]
      BY <2>2, <2>3
    <3> QED BY <1>1, <2>6, <2>7, <3>1 DEF AskInvIn
  <2> QED BY <1>2, <2>8, AskInvNext
<1> QED BY <1>3, <1>4 DEF DrainDone

LEMMA AskStale == ASSUME AskInv, TypeOK', RouteStaleReply PROVE AskInv'
<1>1. AskInvIn(conn, pairings, made, phase, asked, actions)
  BY AskInvIs
<1>2. /\ UNCHANGED <<conn, made, asked, pairings, phase>>
      /\ phase = "route" /\ actions \in Seq(Action) /\ actions # <<>> /\ actions' = Tail(actions)
  BY DEF RouteStaleReply, Now, hosts, AskInv, TypeOK
<1>3. \/ Head(actions).op = "keyReply" /\ ~AtStage("LinkKey")
      \/ Head(actions).op = "ioReply" /\ ~AtStage("IoCapability")
      \/ Head(actions).op \in {"confirm", "passkey"} /\ ~AtStage("UserAction")
  BY DEF RouteStaleReply, Now
<1>4. \A k \in DOMAIN pairings, e \in End :
        LivesIn(conn, pairings[k]) => Answerable(pairings[k], asked, actions', e)
  <2> SUFFICES ASSUME NEW k \in DOMAIN pairings, NEW e \in End, LivesIn(conn, pairings[k])
               PROVE  Answerable(pairings[k], asked, actions', e)
    OBVIOUS
  <2>1. CASE k = 1
    <3>1. pairings # <<>> /\ Current = pairings[k]
      BY <2>1 DEF Current, AskInv, TypeOK
    <3>2. Answerable(pairings[k], asked, actions, e)
      BY <1>1 DEF AskInvIn
    <3>3. /\ pairings[k].stage = "LinkKey" => Head(actions).op \notin {"key", "keyReply"}
          /\ pairings[k].stage = "IoCapability" => Head(actions).op \notin {"io", "ioReply"}
          /\ pairings[k].stage = "UserAction" => Head(actions).op \notin {"confirm", "passkey"}
      BY <1>3, <3>1 DEF AtStage
    <3> QED BY <1>2, <3>2, <3>3, AnswerableTail
  <2>2. CASE k # 1
    BY <1>2, <2>2, LaterOpen, AnswerableKey
  <2> QED BY <2>1, <2>2
<1>5. AskInvIn(conn, pairings, made, phase, asked, actions')
  BY <1>1, <1>4 DEF AskInvIn
<1> QED BY <1>2, <1>5, AskInvNext

\* The fields a Continue leaves and sets.
LEMMA PairingFields ==
  ASSUME NEW p \in Pairing
  PROVE  /\ \A key : /\ [p EXCEPT !.key = key].handle = p.handle
                     /\ [p EXCEPT !.key = key].stage = p.stage
                     /\ [p EXCEPT !.key = key].key = key
                     /\ [p EXCEPT !.key = key, !.stage = "IoCapability"].handle = p.handle
                     /\ [p EXCEPT !.key = key, !.stage = "IoCapability"].stage = "IoCapability"
         /\ \A io : /\ [p EXCEPT !.io = io].handle = p.handle
                    /\ [p EXCEPT !.io = io].stage = p.stage
                    /\ [p EXCEPT !.io = io].io = io
         /\ \A d, n : /\ [p EXCEPT !.decision = d, !.entered = n].handle = p.handle
                      /\ [p EXCEPT !.decision = d, !.entered = n].stage = p.stage
                      /\ [p EXCEPT !.decision = d, !.entered = n].model = p.model
                      /\ [p EXCEPT !.decision = d, !.entered = n].decision = d
         /\ \A io, model, d, n :
              LET q == [p EXCEPT !.io = io, !.model = model, !.stage = "UserAction",
                          !.decision = d, !.entered = n]
              IN  q.handle = p.handle /\ q.stage = "UserAction" /\ q.decision = d
BY DEF Pairing

\* A reply leaves the other host's answer outstanding as it was.
LEMMA OtherAnswer ==
  ASSUME AskInv, NEW ops, Now(ops), pairings # <<>>, LivesIn(conn, Current), NEW e \in End,
         e # Head(actions).from
  PROVE  Answerable(Current, asked, actions', e)
<1>1. Answerable(Current, asked, actions, e)
  BY CurrentType, AskInvIs DEF AskInvIn
<1>2. actions \in Seq(Action) /\ actions # <<>> /\ actions' = Tail(actions)
  BY DEF AskInv, TypeOK, Now
<1> QED BY <1>1, <1>2, AnswerableTail

LEMMA AskKeyReply == ASSUME AskInv, TypeOK', RouteLinkKeyReply PROVE AskInv'
<1>1. Replying({"keyReply"}, "LinkKey") /\ KeyOutcome /\ UNCHANGED <<made, ssp, bond>>
  BY KeyReplyOutcome
<1>2. /\ pairings # <<>> /\ Keys \in [End -> Key \cup {NoAnswer}]
      /\ [Current EXCEPT !.key = Keys] \in Pairing /\ AskedIo \in Pairing
  BY <1>1, KeysType DEF AskInv
<1>3. Now({"keyReply"}) /\ Current.stage = "LinkKey"
  BY <1>1 DEF Replying, AtStage
<1>4. Head(actions).from \in End /\ Head(actions).arg \in Key
  BY <1>3, NowType, ActionType DEF AskInv
<1>5. Current \in Pairing /\ Current.key \in [End -> Key \cup {NoAnswer}]
  BY <1>2, CurrentType DEF AskInv, Pairing
<1>6. CASE Continue([Current EXCEPT !.key = Keys]) /\ UNCHANGED asked
  <2> DEFINE p == [Current EXCEPT !.key = Keys]
  <2>1. p \in Pairing /\ p.handle = Current.handle /\ p.stage = "LinkKey" /\ p.key = Keys
    BY <1>2, <1>3, <1>5, PairingFields
  <2>2. Keys[Head(actions).from] # NoAnswer
    BY <1>4, <1>5 DEF Keys, Key, NoAnswer, NoKey, Pending
  <2>3. \A e \in End : e # Head(actions).from => Keys[e] = Current.key[e]
    BY <1>5 DEF Keys
  <2>4. ASSUME NEW e \in End, LivesIn(conn, Current)
        PROVE  Answerable(p, asked', actions', e)
    <3>1. CASE e = Head(actions).from
      BY <2>1, <2>2, <3>1 DEF Answerable
    <3>2. CASE e # Head(actions).from
      <4>1. Answerable(Current, asked, actions', e)
        BY <1>2, <1>3, <2>4, <3>2, OtherAnswer
      <4> HIDE DEF p
      <4> QED BY <1>3, <1>6, <2>1, <2>3, <3>2, <4>1 DEF Answerable
    <3> QED BY <3>1, <3>2
  <2>5. Continue(p) /\ \A e \in End : asked[e] \subseteq asked'[e]
    BY <1>6
  <2> HIDE DEF p
  <2> QED BY <1>1, <1>2, <1>3, <2>1, <2>4, <2>5, AskContinue
<1>7. CASE (\E success \in BOOLEAN : Finish(success)) /\ UNCHANGED asked
  BY <1>1, <1>2, <1>3, <1>7, AskFinish
<1>8. CASE Continue(AskedIo) /\ asked' = [e \in End |-> asked[e] \cup {"io"}]
  <2>1. AskedIo \in Pairing /\ AskedIo.handle = Current.handle /\ AskedIo.stage = "IoCapability"
    BY <1>2, <1>5, PairingFields DEF AskedIo
  <2>2. \A e \in End : asked[e] \subseteq asked'[e] /\ "io" \in asked'[e]
    BY <1>8
  <2>3. \A e \in End : Answerable(AskedIo, asked', actions', e)
    BY <2>1, <2>2 DEF Answerable, Awaited
  <2> QED BY <1>1, <1>2, <1>3, <1>8, <2>1, <2>2, <2>3, AskContinue
<1> QED BY <1>1, <1>6, <1>7, <1>8 DEF KeyOutcome

LEMMA AskIoReply == ASSUME AskInv, TypeOK', RouteIoCapabilityReply PROVE AskInv'
<1>1. Replying({"ioReply"}, "IoCapability") /\ IoOutcome /\ UNCHANGED <<made, ssp, bond>>
  BY IoReplyOutcome DEF AskInv
<1>2. /\ pairings # <<>> /\ Ios \in [End -> Caps \cup {NoCaps}]
      /\ [Current EXCEPT !.io = Ios] \in Pairing /\ AskedUser \in Pairing
  BY <1>1, IosType DEF AskInv
<1>3. Now({"ioReply"}) /\ Current.stage = "IoCapability"
  BY <1>1 DEF Replying, AtStage
<1>4. Head(actions).from \in End
  BY <1>3, NowType, ActionType DEF AskInv
<1>5. Current \in Pairing /\ Current.io \in [End -> Caps \cup {NoCaps}]
  BY <1>2, CurrentType DEF AskInv, Pairing
<1>6. CASE Finish(FALSE) /\ UNCHANGED asked
  BY <1>1, <1>2, <1>3, <1>6, AskFinish
<1>7. CASE /\ Head(actions).arg # NoCaps
           /\ Continue([Current EXCEPT !.io = Ios]) /\ UNCHANGED asked
  <2> DEFINE p == [Current EXCEPT !.io = Ios]
  <2>1. p \in Pairing /\ p.handle = Current.handle /\ p.stage = "IoCapability" /\ p.io = Ios
    BY <1>2, <1>3, <1>5, PairingFields
  <2>2. Ios[Head(actions).from] # NoCaps
    BY <1>4, <1>5, <1>7 DEF Ios
  <2>3. \A e \in End : e # Head(actions).from => Ios[e] = Current.io[e]
    BY <1>5 DEF Ios
  <2>4. ASSUME NEW e \in End, LivesIn(conn, Current)
        PROVE  Answerable(p, asked', actions', e)
    <3>1. CASE e = Head(actions).from
      BY <2>1, <2>2, <3>1 DEF Answerable
    <3>2. CASE e # Head(actions).from
      <4>1. Answerable(Current, asked, actions', e)
        BY <1>2, <1>3, <2>4, <3>2, OtherAnswer
      <4> HIDE DEF p
      <4> QED BY <1>3, <1>7, <2>1, <2>3, <3>2, <4>1 DEF Answerable
    <3> QED BY <3>1, <3>2
  <2>5. Continue(p) /\ \A e \in End : asked[e] \subseteq asked'[e]
    BY <1>7
  <2> HIDE DEF p
  <2> QED BY <1>1, <1>2, <1>3, <2>1, <2>4, <2>5, AskContinue
<1>8. CASE /\ Continue(AskedUser)
           /\ asked' = [e \in End |-> asked[e] \cup Question(NewModel, Ios[e])]
  <2>1. /\ AskedUser \in Pairing /\ AskedUser.handle = Current.handle
        /\ AskedUser.stage = "UserAction"
        /\ AskedUser.decision = [e \in End |-> FirstDecision(NewModel, Ios[e])]
    BY <1>2, <1>5, PairingFields DEF AskedUser
  <2>2. \A e \in End : asked[e] \subseteq asked'[e] /\ Question(NewModel, Ios[e]) \subseteq asked'[e]
    BY <1>8
  <2>3. \A e \in End : FirstDecision(NewModel, Ios[e]) = Pending =>
          Question(NewModel, Ios[e]) \cap {"confirm", "passkey"} # {}
    BY DEF FirstDecision, Question, Pending
  <2>4. \A e \in End : Answerable(AskedUser, asked', actions', e)
    BY <2>1, <2>2, <2>3 DEF Answerable, Awaited
  <2> QED BY <1>1, <1>2, <1>3, <1>8, <2>1, <2>2, <2>4, AskContinue
<1> QED BY <1>1, <1>6, <1>7, <1>8 DEF IoOutcome

LEMMA AskUserReply == ASSUME AskInv, TypeOK', RouteUserReply PROVE AskInv'
<1>1. Replying(User, "UserAction") /\ UserOutcome /\ UNCHANGED <<made, ssp, asked>>
  BY UserReplyOutcome
<1>2. /\ pairings # <<>>
      /\ [Current EXCEPT !.decision = Decisions, !.entered = Digits] \in Pairing
  BY <1>1, DecisionsType DEF AskInv
<1>3. Now(User) /\ Current.stage = "UserAction"
  BY <1>1 DEF Replying, AtStage
<1>4. Head(actions).from \in End /\ Said(Head(actions)) \in {"yes", "no"}
  BY <1>3, NowType, ActionType DEF AskInv
<1>5. Current \in Pairing /\ Current.decision \in [End -> {Pending, "yes", "no"}]
  BY <1>2, CurrentType DEF AskInv, Pairing
<1>6. CASE \E success \in BOOLEAN : Finish(success)
  BY <1>1, <1>2, <1>3, <1>6, AskFinish
<1>7. CASE Continue([Current EXCEPT !.decision = Decisions, !.entered = Digits])
  <2> DEFINE p == [Current EXCEPT !.decision = Decisions, !.entered = Digits]
  <2>1. p \in Pairing /\ p.handle = Current.handle /\ p.stage = "UserAction" /\ p.decision = Decisions
    BY <1>2, <1>3, <1>5, PairingFields
  <2>2. Decisions[Head(actions).from] # Pending
    BY <1>4, <1>5 DEF Decisions, Pending
  <2>3. \A e \in End : e # Head(actions).from => Decisions[e] = Current.decision[e]
    BY <1>5 DEF Decisions
  <2>4. ASSUME NEW e \in End, LivesIn(conn, Current)
        PROVE  Answerable(p, asked', actions', e)
    <3>1. CASE e = Head(actions).from
      BY <2>1, <2>2, <3>1 DEF Answerable
    <3>2. CASE e # Head(actions).from
      <4>1. Answerable(Current, asked, actions', e)
        BY <1>2, <1>3, <2>4, <3>2, OtherAnswer
      <4> HIDE DEF p
      <4> QED BY <1>1, <1>3, <2>1, <2>3, <3>2, <4>1 DEF Answerable
    <3> QED BY <3>1, <3>2
  <2>5. Continue(p) /\ \A e \in End : asked[e] \subseteq asked'[e]
    BY <1>1, <1>7
  <2> HIDE DEF p
  <2> QED BY <1>1, <1>2, <1>3, <2>1, <2>4, <2>5, AskContinue
<1> QED BY <1>1, <1>6, <1>7 DEF UserOutcome

LEMMA AskTick == AskInv /\ TypeOK' /\ Tick => AskInv'
<1> SUFFICES ASSUME AskInv, TypeOK', Tick PROVE AskInv'
  OBVIOUS
<1>0. conn \in [End -> [Link -> Conn]]
  BY DEF AskInv, TypeOK
<1>1. CASE RouteDisconnect
  <2> DEFINE g == Head(actions).handle
  <2>1. /\ Now({"disconnect"}) /\ UNCHANGED <<made, pairings, asked>>
        /\ UNCHANGED conn \/ conn' = [e \in End |-> [conn[e] EXCEPT ![g] = Down]]
    BY <1>1 DEF RouteDisconnect
  <2> HIDE DEF g
  <2>2. ASSUME NEW e \in End, NEW h \in Link, conn'[e][h].up PROVE conn[e][h].up
    <3>1. conn'[e][h] \in {conn[e][h], Down}
      BY <1>0, <2>1
    <3> QED BY <2>2, <3>1, ConnFields, ConnType
  <2> QED BY <2>1, <2>2, AskQuiet DEF Replies
<1>2. CASE RouteSetConnectionEncryption
  <2> DEFINE g == Head(actions).handle
             on == Head(actions).arg
  <2>1. /\ Now({"encrypt"}) /\ UNCHANGED <<made, pairings, asked>>
        /\ \/ UNCHANGED conn
           \/ conn' = [e \in End |-> IF Holds(e, g) THEN [conn[e] EXCEPT ![g].encrypted = on] ELSE conn[e]]
    BY <1>2 DEF RouteSetConnectionEncryption, EncryptedEnds, hosts
  <2> HIDE DEF g, on
  <2>2. ASSUME NEW e \in End, NEW h \in Link, conn'[e][h].up PROVE conn[e][h].up
    <3>1. conn'[e][h] \in {conn[e][h], [conn[e][h] EXCEPT !.encrypted = on]}
      BY <1>0, <2>1
    <3>2. conn[e][h] \in Conn
      BY <1>0
    <3>3. [conn[e][h] EXCEPT !.encrypted = on].up = conn[e][h].up
      BY <3>2, ConnFields
    <3> QED BY <2>2, <3>1, <3>3
  <2> QED BY <2>1, <2>2, AskQuiet DEF Replies
<1>3. CASE RouteChangeConnectionLinkKey
  <2> DEFINE g == Head(actions).handle
             n == conn[Head(actions).from][g].rotations + 1
  <2>1. /\ Now({"changeKey"}) /\ UNCHANGED <<made, pairings, asked>>
        /\ \/ UNCHANGED conn
           \/ conn' = [e \in End |-> IF Holds(e, g) THEN [conn[e] EXCEPT ![g].rotations = n] ELSE conn[e]]
    BY <1>3 DEF RouteChangeConnectionLinkKey
  <2> HIDE DEF g, n
  <2>2. ASSUME NEW e \in End, NEW h \in Link, conn'[e][h].up PROVE conn[e][h].up
    <3>1. conn'[e][h] \in {conn[e][h], [conn[e][h] EXCEPT !.rotations = n]}
      BY <1>0, <2>1
    <3>2. conn[e][h] \in Conn
      BY <1>0
    <3>3. [conn[e][h] EXCEPT !.rotations = n].up = conn[e][h].up
      BY <3>2, ConnFields
    <3> QED BY <2>2, <3>1, <3>3
  <2> QED BY <2>1, <2>2, AskQuiet DEF Replies
<1>4. CASE RouteDone
  <2>1. UNCHANGED <<conn, pairings, made, asked, actions>> /\ phase' = "drain"
    BY <1>4 DEF RouteDone, hosts
  <2>2. AskInvIn(conn, pairings, made, "drain", asked, actions)
    BY AskInvIs DEF AskInvIn
  <2> QED BY <2>1, <2>2, AskInvNext
<1> QED BY <1>1, <1>2, <1>3, <1>4, AskPrune, AskConnect, AskAuthenticate, AskStale, AskKeyReply,
           AskIoReply, AskUserReply DEF Tick

LEMMA AskInit == Init => AskInv
<1> SUFFICES ASSUME Init PROVE AskInv
  OBVIOUS
<1>1. TypeOK
  BY TypeInit
<1>2. \A e \in End, h \in Link : ~conn[e][h].up
  BY ConnFields, ConnType DEF Init
<1>3. DOMAIN pairings = {} /\ 1 \in End
  BY DEF Init, End
<1> QED BY <1>1, <1>2, <1>3, AskInvIs DEF AskInvIn

LEMMA AskStep == AskInv /\ [Next]_vars => AskInv'
<1> SUFFICES ASSUME AskInv, [Next]_vars PROVE AskInv'
  OBVIOUS
<1>0. TypeOK'
  BY TypeStep DEF AskInv
<1>1. CASE HostCommand
  BY <1>0, <1>1, AskCommand
<1>2. CASE \E e \in End : HostReply(e)
  BY <1>0, <1>2, AskReply
<1>3. CASE Tick
  BY <1>0, <1>3, AskTick
<1>4. CASE UNCHANGED vars
  <2>1. UNCHANGED <<conn, pairings, made, asked, actions, phase>>
    BY <1>4 DEF vars, hosts
  <2>2. AskInvIn(conn, pairings, made, phase, asked, actions)
    BY AskInvIs
  <2> QED BY <1>0, <2>1, <2>2, AskInvNext
<1> QED BY <1>1, <1>2, <1>3, <1>4 DEF Next

LEMMA AskCorrect == Spec => []AskInv
BY AskInit, AskStep, PTL DEF Spec

\* Nobody waits for an answer that nobody was asked for, however many links come and
\* go: advance_pairing asks whoever it will wait for, a reply that comes too late for
\* its question is not the one a live conversation waits for, and a conversation opened
\* behind another still has its question out when it becomes the first.
THEOREM AnswersTheorem == Spec => []AnswersAwaited
<1>1. AskInv => AnswersAwaited
  BY DEF AskInv
<1> QED BY <1>1, AskCorrect, PTL

--------------------------------------------------------------------------------
(***************************************************************************)
(* An authenticated key needs the users' consent, while the link stays up. *)
(***************************************************************************)

LEMMA SpokenAppend ==
  ASSUME NEW q \in Seq(Action), NEW a \in Action, NEW e \in End
  PROVE  /\ a.op \notin User \/ a.from # e => Spoken(Append(q, a), e) = Spoken(q, e)
         /\ a.op \in User /\ a.from = e => Spoken(Append(q, a), e) = Spoken(q, e) \cup {Len(q) + 1}
         /\ \A n \in DOMAIN q : n \in DOMAIN Append(q, a) /\ Append(q, a)[n] = q[n]
         /\ Len(q) + 1 \in DOMAIN Append(q, a) /\ Append(q, a)[Len(q) + 1] = a
<1>1. /\ Len(q) \in Nat
      /\ \A n \in 1 .. Len(q) : Append(q, a)[n] = q[n]
      /\ Append(q, a)[Len(q) + 1] = a
      /\ DOMAIN q = 1 .. Len(q) /\ DOMAIN Append(q, a) = 1 .. Len(q) + 1
  OBVIOUS
<1>2. DOMAIN Append(q, a) = DOMAIN q \cup {Len(q) + 1} /\ Len(q) + 1 \notin DOMAIN q
  BY <1>1
<1> QED BY <1>1, <1>2 DEF Spoken

LEMMA SpokenTail ==
  ASSUME NEW q \in Seq(Action), q # <<>>, NEW e \in End
  PROVE  /\ \A n : n \in Spoken(Tail(q), e) <=> n \in Nat \ {0} /\ n + 1 \in Spoken(q, e)
         /\ \A n \in DOMAIN Tail(q) : n + 1 \in DOMAIN q /\ Tail(q)[n] = q[n + 1]
         /\ \A n \in DOMAIN q : n # 1 => n - 1 \in DOMAIN Tail(q)
         /\ Head(q) = q[1] /\ 1 \in DOMAIN q /\ DOMAIN q \subseteq Nat \ {0}
<1>1. /\ Len(q) \in Nat \ {0} /\ Head(q) = q[1]
      /\ \A n \in 1 .. Len(q) - 1 : Tail(q)[n] = q[n + 1]
      /\ DOMAIN q = 1 .. Len(q) /\ DOMAIN Tail(q) = 1 .. Len(q) - 1
  OBVIOUS
<1>2. ASSUME NEW n PROVE n \in Spoken(Tail(q), e) <=> n \in Nat \ {0} /\ n + 1 \in Spoken(q, e)
  <2>1. n \in 1 .. Len(q) - 1 <=> n \in Nat \ {0} /\ n + 1 \in 1 .. Len(q)
    BY <1>1
  <2> QED BY <1>1, <2>1 DEF Spoken
<1> QED BY <1>1, <1>2

\* Queueing what is no reply of this user's, while what he is asked stays the same.
LEMMA StandsAppend ==
  ASSUME NEW P, NEW A, NEW B, NEW q \in Seq(Action), NEW s, NEW e \in End, NEW a \in Action,
         Stands(P, A, q, s, e), a.op \notin User \/ a.from # e, A[e] \cap User = B[e] \cap User
  PROVE  Stands(P, B, Append(q, a), s, e)
<1>1. /\ Spoken(Append(q, a), e) = Spoken(q, e)
      /\ \A n \in DOMAIN q : n \in DOMAIN Append(q, a) /\ Append(q, a)[n] = q[n]
  BY SpokenAppend
<1> QED BY <1>1 DEF Stands

\* Routing what is no reply of this user's.
LEMMA StandsTail ==
  ASSUME NEW P, NEW A, NEW B, NEW q \in Seq(Action), q # <<>>, NEW s, NEW e \in End,
         Stands(P, A, q, s, e), Head(q).op \notin User \/ Head(q).from # e,
         A[e] \cap User = B[e] \cap User
  PROVE  Stands(P, B, Tail(q), s, e)
<1>1. /\ \A n : n \in Spoken(Tail(q), e) <=> n \in Nat \ {0} /\ n + 1 \in Spoken(q, e)
      /\ \A n \in DOMAIN Tail(q) : n + 1 \in DOMAIN q /\ Tail(q)[n] = q[n + 1]
      /\ \A n \in DOMAIN q : n # 1 => n - 1 \in DOMAIN Tail(q)
      /\ Head(q) = q[1] /\ 1 \in DOMAIN q /\ DOMAIN q \subseteq Nat \ {0}
  BY SpokenTail
<1>2. 1 \notin Spoken(q, e)
  BY <1>1 DEF Spoken
<1>3. Spoken(q, e) = {} => Spoken(Tail(q), e) = {}
  BY <1>1
<1>4. ASSUME NEW n \in DOMAIN q, Spoken(q, e) = {n}
      PROVE  n - 1 \in DOMAIN Tail(q) /\ Spoken(Tail(q), e) = {n - 1} /\ Tail(q)[n - 1] = q[n]
  <2>1. n # 1 /\ n \in Nat \ {0}
    BY <1>1, <1>2, <1>4
  <2>2. n - 1 \in DOMAIN Tail(q)
    BY <1>1, <2>1
  <2>3. Tail(q)[n - 1] = q[n - 1 + 1] /\ n - 1 + 1 = n
    BY <1>1, <2>1, <2>2
  <2>4. \A m : m \in Spoken(Tail(q), e) <=> m = n - 1
    <3> TAKE m
    <3>1. m \in Spoken(Tail(q), e) <=> m \in Nat \ {0} /\ m + 1 = n
      BY <1>1, <1>4
    <3> QED BY <2>1, <3>1
  <2> QED BY <2>2, <2>3, <2>4
<1> QED BY <1>3, <1>4 DEF Stands

\* The same standing for conversations that wait for the user alike.
LEMMA StandsSame ==
  ASSUME NEW P, NEW Q, NEW A, NEW q, NEW s, NEW e \in End, Stands(P, A, q, s, e),
         \/ /\ P # <<>> /\ Q # <<>> /\ P[1].stage = Q[1].stage
            /\ P[1].decision[e] = Q[1].decision[e]
         \/ ~(P # <<>> /\ P[1].stage = "UserAction") /\ ~(Q # <<>> /\ Q[1].stage = "UserAction")
  PROVE  Stands(Q, A, q, s, e)
BY DEF Stands

\* A host's step that leaves the links and the conversations alone.
LEMMA ConsentNext ==
  ASSUME AskInv', \A h \in Link : conn'[1][h].up = conn'[2][h].up,
         \A k \in DOMAIN pairings' : k = 1 /\ LivesIn(conn', pairings'[k]),
         \A n \in DOMAIN actions' : actions'[n].op # "disconnect",
         \A e \in End : Stands(pairings', asked', actions', said', e)
  PROVE  ConsentInv'
BY DEF ConsentInv, LinkStays, Lives, LivesIn, End

LEMMA ConsentIs ==
  ASSUME ConsentInv
  PROVE  /\ AskInv /\ TypeOK
         /\ \A h \in Link : conn[1][h].up = conn[2][h].up
         /\ \A k \in DOMAIN pairings : k = 1 /\ LivesIn(conn, pairings[k])
         /\ \A n \in DOMAIN actions : actions[n].op # "disconnect"
         /\ \A e \in End : Stands(pairings, asked, actions, said, e)
BY LivesIs DEF ConsentInv, LinkStays, AskInv

\* Of the queue, what is added by a host that does not disconnect.
LEMMA NoDrop ==
  ASSUME NEW q \in Seq(Action), \A n \in DOMAIN q : q[n].op # "disconnect"
  PROVE  /\ \A a \in Action : a.op # "disconnect" =>
              \A n \in DOMAIN Append(q, a) : Append(q, a)[n].op # "disconnect"
         /\ q # <<>> => \A n \in DOMAIN Tail(q) : Tail(q)[n].op # "disconnect"
         /\ q # <<>> => Head(q).op # "disconnect"
<1>1. ASSUME NEW a \in Action, a.op # "disconnect", NEW n \in DOMAIN Append(q, a)
      PROVE  Append(q, a)[n].op # "disconnect"
  <2>1. n \in DOMAIN q \/ Append(q, a)[n] = a
    OBVIOUS
  <2>2. n \in DOMAIN q => Append(q, a)[n] = q[n]
    OBVIOUS
  <2> QED BY <1>1, <2>1, <2>2
<1>2. ASSUME q # <<>>, NEW n \in DOMAIN Tail(q)
      PROVE  Tail(q)[n].op # "disconnect"
  <2>1. n + 1 \in DOMAIN q /\ Tail(q)[n] = q[n + 1]
    BY <1>2
  <2> QED BY <2>1
<1>3. q # <<>> => Head(q) = q[1] /\ 1 \in DOMAIN q
  OBVIOUS
<1> QED BY <1>1, <1>2, <1>3

LEMMA ConsentQueued ==
  ASSUME ConsentInv, AskInv', NEW e \in End, NEW op, NEW handle, NEW arg,
         [op |-> op, from |-> e, handle |-> handle, arg |-> arg] \in Action,
         op # "disconnect", op \notin User, Queue(e, op, handle, arg), UNCHANGED said,
         \A f \in End : asked[f] \cap User = asked'[f] \cap User
  PROVE  ConsentInv'
<1> DEFINE a == [op |-> op, from |-> e, handle |-> handle, arg |-> arg]
<1>1. /\ actions \in Seq(Action) /\ actions' = Append(actions, a) /\ a \in Action /\ a.op = op
      /\ UNCHANGED <<conn, pairings, said>>
  BY ConsentIs DEF Queue, TypeOK
<1> HIDE DEF a
<1>2. \A n \in DOMAIN actions' : actions'[n].op # "disconnect"
  BY <1>1, ConsentIs, NoDrop
<1>3. \A f \in End : Stands(pairings, asked', actions', said, f)
  BY <1>1, ConsentIs, StandsAppend
<1> QED BY <1>1, <1>2, <1>3, ConsentIs, ConsentNext

\* A user's reply: he was asked and silent, and now says what his reply says.
LEMMA ConsentAnswered ==
  ASSUME ConsentInv, AskInv', NEW e \in End, NEW op \in User, NEW arg,
         [op |-> op, from |-> e, handle |-> 0, arg |-> arg] \in Action,
         Answer(e, op, op, arg),
         said' = [said EXCEPT ![e] = Said([op |-> op, from |-> e, handle |-> 0, arg |-> arg])]
  PROVE  ConsentInv'
<1> DEFINE a == [op |-> op, from |-> e, handle |-> 0, arg |-> arg]
<1>1. /\ actions \in Seq(Action) /\ actions' = Append(actions, a) /\ a \in Action
      /\ a.op = op /\ a.from = e /\ UNCHANGED <<conn, pairings>>
      /\ op \in asked[e] /\ asked' = [asked EXCEPT ![e] = @ \ {op}]
      /\ said' = [said EXCEPT ![e] = Said(a)]
      /\ asked \in [End -> SUBSET {"key", "io", "confirm", "passkey"}]
      /\ said \in [End -> {"nothing", "yes", "no"}]
  BY ConsentIs DEF Answer, Queue, TypeOK
<1> HIDE DEF a
<1>2. \A n \in DOMAIN actions' : actions'[n].op # "disconnect"
  BY <1>1, ConsentIs, NoDrop DEF User
<1>3. ASSUME NEW f \in End, f # e
      PROVE  Stands(pairings, asked', actions', said', f)
  <2>1. Stands(pairings, asked', actions', said, f)
    <3>1. asked'[f] = asked[f]
      BY <1>1, <1>3
    <3> QED BY <1>1, <1>3, <3>1, ConsentIs, StandsAppend
  <2>2. said'[f] = said[f]
    BY <1>1, <1>3
  <2> QED BY <2>1, <2>2 DEF Stands
<1>4. Stands(pairings, asked', actions', said', e)
  <2>1. Stands(pairings, asked, actions, said, e) /\ op \in asked[e] \cap User
    BY <1>1, ConsentIs
  <2>2. /\ pairings # <<>> /\ pairings[1].stage = "UserAction" /\ pairings[1].decision[e] = Pending
        /\ Spoken(actions, e) = {} /\ asked[e] \cap User \in {{"confirm"}, {"passkey"}}
    BY <2>1 DEF Stands
  <2>3. asked'[e] \cap User = {}
    BY <1>1, <2>1, <2>2
  <2>4. /\ Spoken(actions', e) = {Len(actions) + 1} /\ Len(actions) + 1 \in DOMAIN actions'
        /\ actions'[Len(actions) + 1] = a
    BY <1>1, <2>2, SpokenAppend
  <2>5. said'[e] = Said(a)
    BY <1>1
  <2> QED BY <2>2, <2>3, <2>4, <2>5 DEF Stands
<1> QED BY <1>1, <1>2, <1>3, <1>4, ConsentIs, ConsentNext

LEMMA ConsentHost ==
  ASSUME "disconnect" \notin Ops, "reset" \notin Ops, ConsentInv, AskInv',
         HostCommand \/ \E e \in End : HostReply(e)
  PROVE  ConsentInv'
<1>1. ASSUME NEW e \in End, Connect(e)
      PROVE  ConsentInv'
  BY <1>1, ConsentQueued, QueuedAction DEF Connect, Send, User
<1>2. ASSUME NEW e \in End, NEW h \in Link, AuthenticationRequested(e, h)
      PROVE  ConsentInv'
  BY <1>2, ConsentQueued, QueuedAction DEF AuthenticationRequested, Send, User
<1>3. ASSUME NEW e \in End, NEW h \in Link, NEW on \in BOOLEAN, SetConnectionEncryption(e, h, on)
      PROVE  ConsentInv'
  BY <1>3, ConsentQueued, QueuedAction DEF SetConnectionEncryption, Send, User
<1>4. ASSUME NEW e \in End, NEW h \in Link, ChangeConnectionLinkKey(e, h)
      PROVE  ConsentInv'
  BY <1>4, ConsentQueued, QueuedAction DEF ChangeConnectionLinkKey, Send, User
<1>5. ASSUME NEW e \in End, NEW h \in Link, Disconnect(e, h) \/ Reset(e)
      PROVE  FALSE
  BY <1>5 DEF Disconnect, Send, Queue, Reset
<1>6. ASSUME NEW e \in End, WriteSimplePairingMode(e) \/ Forget(e)
      PROVE  ConsentInv'
  <2>1. UNCHANGED <<conn, pairings, asked, actions, said>>
    BY <1>6 DEF WriteSimplePairingMode, Forget, hosts
  <2> QED BY <2>1, ConsentIs, ConsentNext
<1>7. ASSUME NEW e \in End, HostReply(e)
      PROVE  ConsentInv'
  <2>0. /\ \A f \in End : asked[f] \in SUBSET {"key", "io", "confirm", "passkey"}
        /\ asked \in [End -> SUBSET {"key", "io", "confirm", "passkey"}]
    BY ConsentIs DEF TypeOK
  <2>1. CASE LinkKeyReply(e)
    <3>1. Answer(e, "key", "keyReply", bond[e]) /\ bond[e] \in Key /\ UNCHANGED said
      BY <2>1, ConsentIs DEF LinkKeyReply, TypeOK
    <3>2. \A f \in End : asked[f] \cap User = asked'[f] \cap User
      BY <2>0, <3>1 DEF Answer, User
    <3>3. Queue(e, "keyReply", 0, bond[e])
      BY <3>1 DEF Answer
    <3>4. [op |-> "keyReply", from |-> e, handle |-> 0, arg |-> bond[e]] \in Action
      BY <3>1, QueuedAction
    <3>5. "keyReply" # "disconnect" /\ "keyReply" \notin User
      BY DEF User
    <3> QED BY <3>1, <3>2, <3>3, <3>4, <3>5, ConsentQueued
  <2>2. CASE (\E caps \in Caps : IoCapabilityReply(e, caps)) \/ IoCapabilityNegativeReply(e)
    <3> PICK caps \in Caps \cup {NoCaps} : Answer(e, "io", "ioReply", caps) /\ UNCHANGED said
      BY <2>2 DEF IoCapabilityReply, IoCapabilityNegativeReply
    <3>2. \A f \in End : asked[f] \cap User = asked'[f] \cap User
      BY <2>0 DEF Answer, User
    <3> QED BY <3>2, ConsentQueued, QueuedAction DEF Answer, User
  <2>3. CASE \E accept \in {"yes", "no"} : UserConfirmationReply(e, accept)
    <3> PICK accept \in {"yes", "no"} : UserConfirmationReply(e, accept)
      BY <2>3
    <3> DEFINE a == [op |-> "confirm", from |-> e, handle |-> 0, arg |-> accept]
    <3>1. a \in Action /\ Said(a) = accept
      BY QueuedAction DEF Said
    <3> QED BY <3>1, ConsentAnswered DEF UserConfirmationReply, User
  <2>4. CASE \E digits \in {"right", "other", "none"} : UserPasskeyReply(e, digits)
    <3> PICK digits \in {"right", "other", "none"} : UserPasskeyReply(e, digits)
      BY <2>4
    <3> DEFINE a == [op |-> "passkey", from |-> e, handle |-> 0, arg |-> digits]
    <3>1. a \in Action /\ Said(a) = IF digits = "none" THEN "no" ELSE "yes"
      BY QueuedAction DEF Said
    <3> QED BY <3>1, ConsentAnswered DEF UserPasskeyReply, User
  <2> QED BY <1>7, <2>1, <2>2, <2>3, <2>4 DEF HostReply
<1>8. ASSUME NEW e \in End, Reset(e)
      PROVE  FALSE
  BY <1>8 DEF Reset
<1> QED BY <1>1, <1>2, <1>3, <1>4, <1>5, <1>6, <1>7, <1>8 DEF HostCommand

\* What routing does to the queue, for whoever's reply is not routed.
LEMMA RouteStands ==
  ASSUME ConsentInv, NEW ops, Now(ops)
  PROVE  /\ actions \in Seq(Action) /\ actions # <<>> /\ Head(actions) \in Action
         /\ Head(actions).op \in ops /\ Head(actions).from \in End /\ actions' = Tail(actions)
         /\ \A n \in DOMAIN actions' : actions'[n].op # "disconnect"
         /\ Head(actions).op # "disconnect"
         /\ \A e \in End : Head(actions).op \notin User \/ Head(actions).from # e =>
              Stands(pairings, asked, actions', said, e)
<1>1. /\ actions \in Seq(Action) /\ actions # <<>> /\ Head(actions) \in Action
      /\ Head(actions).op \in ops /\ actions' = Tail(actions)
  BY NowType, ConsentIs DEF TypeOK
<1>2. Head(actions).from \in End
  BY <1>1, ActionType
<1>3. /\ \A n \in DOMAIN actions' : actions'[n].op # "disconnect"
      /\ Head(actions).op # "disconnect"
  BY <1>1, NoDrop, ConsentIs
<1>4. \A e \in End : Head(actions).op \notin User \/ Head(actions).from # e =>
              Stands(pairings, asked, actions', said, e)
  BY <1>1, StandsTail, ConsentIs
<1> QED BY <1>1, <1>2, <1>3, <1>4

\* Routing that leaves the conversations alone, and the links held alike.
LEMMA ConsentQuiet ==
  ASSUME ConsentInv, AskInv', NEW ops, Now(ops), ops \cap User = {},
         \A h \in Link : conn'[1][h].up = conn'[2][h].up,
         \A e \in End, h \in Link : conn[e][h].up => conn'[e][h].up,
         UNCHANGED <<pairings, asked, said>>
  PROVE  ConsentInv'
<1>1. \A e \in End : Stands(pairings, asked, actions', said, e)
  BY RouteStands
<1>2. \A k \in DOMAIN pairings : k = 1 /\ LivesIn(conn', pairings[k])
  <2> TAKE k \in DOMAIN pairings
  <2>1. k = 1 /\ LivesIn(conn, pairings[k]) /\ pairings[k].handle \in Link
    BY ConsentIs, PairingAt
  <2> QED BY <2>1 DEF LivesIn, End
<1> QED BY <1>1, <1>2, RouteStands, ConsentNext

\* Pruning finds nothing to prune.
LEMMA ConsentDrained == ASSUME ConsentInv, AskInv', DrainDone PROVE ConsentInv'
<1>1. UNCHANGED <<conn, asked, actions, said>>
  BY DEF DrainDone, hosts
<1>2. /\ pairings \in Seq(Pairing) /\ pairings' \in Seq(Pairing)
      /\ \A k \in DOMAIN pairings : k = 1 /\ LivesIn(conn, pairings[k])
  BY ConsentIs, AskInvIs DEF AskInv, TypeOK
<1>3. CASE pairings' = pairings
  BY <1>1, <1>3, ConsentIs, ConsentNext
<1>4. CASE pairings' = Pruned
  <2> DEFINE I == {k \in DOMAIN pairings : Lives(pairings[k])}
  <2>1. pairings' = At(pairings, I) /\ I = DOMAIN pairings
    BY <1>2, <1>4, LivesIs DEF Pruned
  <2> HIDE DEF I
  <2>2. /\ \A k \in DOMAIN pairings' : Place(I, k) \in I /\ pairings'[k] = pairings[Place(I, k)]
        /\ \A i \in I : Rank(I, i) \in DOMAIN pairings'
        /\ \A k, m \in DOMAIN pairings' : k < m => Place(I, k) < Place(I, m)
    BY <1>2, <2>1, AtPlaces
  <2>3. \A k \in DOMAIN pairings' : Place(I, k) = 1
    BY <1>2, <2>1, <2>2
  <2>4. \A k, m \in DOMAIN pairings' : ~(k < m)
    BY <2>2, <2>3
  <2>5. \A k \in DOMAIN pairings' : 1 \in DOMAIN pairings' /\ k \in Nat \ {0}
    BY <1>2
  <2>6. \A k \in DOMAIN pairings' : k = 1
    BY <2>4, <2>5
  <2>7. \A k \in DOMAIN pairings' : k = 1 /\ 1 \in DOMAIN pairings /\ pairings'[k] = pairings[1]
    BY <2>1, <2>2, <2>3, <2>6
  <2>8. pairings # <<>> <=> pairings' # <<>>
    <3>1. pairings # <<>> => 1 \in DOMAIN pairings
      BY <1>2
    <3>2. pairings # <<>> => DOMAIN pairings' # {}
      BY <2>1, <2>2, <3>1
    <3>3. pairings' # <<>> => 1 \in DOMAIN pairings'
      BY <1>2
    <3> QED BY <2>7, <3>2, <3>3
  <2>9. pairings' # <<>> => pairings'[1] = pairings[1]
    <3>1. pairings' # <<>> => 1 \in DOMAIN pairings'
      BY <1>2
    <3> QED BY <2>7, <3>1
  <2>10. \A e \in End : Stands(pairings', asked, actions, said, e)
    BY <2>8, <2>9, ConsentIs, StandsSame
  <2>11. \A k \in DOMAIN pairings' : k = 1 /\ LivesIn(conn, pairings'[k])
    BY <1>2, <2>7
  <2> QED BY <1>1, <2>10, <2>11, ConsentIs, ConsentNext
<1> QED BY <1>3, <1>4 DEF DrainDone

LEMMA ConsentAuthenticate == ASSUME ConsentInv, AskInv', RouteAuthenticate PROVE ConsentInv'
<1> DEFINE h == Head(actions).handle
           new == [handle |-> h, asker |-> Head(actions).from, stage |-> "LinkKey", model |-> "JustWorks",
                   key |-> [e \in End |-> NoAnswer], io |-> [e \in End |-> NoCaps],
                   decision |-> [e \in End |-> Pending], entered |-> [e \in End |-> "none"]]
<1>1. Now({"authenticate"}) /\ UNCHANGED <<conn, said>>
  BY DEF RouteAuthenticate
<1>2. CASE UNCHANGED <<pairings, asked>>
  BY <1>1, <1>2, ConsentQuiet, ConsentIs DEF User
<1>3. CASE /\ Holds(Head(actions).from, h) /\ \A k \in DOMAIN pairings : pairings[k].handle # h
           /\ pairings' = Append(pairings, new)
           /\ asked' = [e \in End |-> asked[e] \cup {"key"}]
  <2>1. Head(actions).from \in End /\ h \in Link
    BY <1>1, NowType, ActionType, ConsentIs
  <2>2. \A e \in End : conn[e][h].up
    BY <1>3, <2>1, ConsentIs DEF Holds, End
  <2>3. \A k \in DOMAIN pairings : FALSE
    <3> SUFFICES ASSUME NEW k \in DOMAIN pairings PROVE FALSE
      OBVIOUS
    <3>1. pairings[k].handle \in Link /\ LivesIn(conn, pairings[k])
      BY PairingAt, ConsentIs
    <3>2. \A g \in Link : (\A e \in End : conn[e][g].up) => g = h
      BY <2>1, <2>2, ConsentIs, AskInvIs DEF AskInvIn
    <3> QED BY <1>3, <3>1, <3>2 DEF LivesIn, End
  <2>4. pairings = <<>>
    BY <2>3, ConsentIs, CurrentType
  <2>5. new.stage = "LinkKey" /\ new.handle = h
    OBVIOUS
  <2> HIDE DEF h, new
  <2>6. pairings' # <<>> /\ DOMAIN pairings' = {1} /\ pairings'[1] = new
    BY <1>3, <2>4
  <2>7. \A e \in End : Stands(pairings', asked', actions', said, e)
    <3> TAKE e \in End
    <3>1. Stands(pairings, asked, actions', said, e)
      BY <1>1, RouteStands DEF User
    <3>2. asked'[e] \cap User = asked[e] \cap User
      BY <1>3 DEF User
    <3> QED BY <2>4, <2>5, <2>6, <3>1, <3>2 DEF Stands
  <2>8. \A k \in DOMAIN pairings' : k = 1 /\ LivesIn(conn, pairings'[k])
    BY <2>2, <2>5, <2>6 DEF LivesIn, End
  <2> QED BY <1>1, <2>7, <2>8, RouteStands, ConsentIs, ConsentNext
<1> QED BY <1>2, <1>3 DEF RouteAuthenticate

LEMMA ConsentContinue ==
  ASSUME ConsentInv, AskInv', NEW ops, Now(ops), pairings # <<>>, NEW p \in Pairing, Continue(p),
         p.handle = Current.handle, \A e \in End : Stands(<<p>>, asked', actions', said, e)
  PROVE  ConsentInv'
<1>1. UNCHANGED <<conn, said>>
  BY DEF Continue
<1>2. /\ Len(pairings) \in Nat \ {0} /\ DOMAIN pairings = 1 .. Len(pairings)
      /\ DOMAIN pairings' = DOMAIN pairings /\ Current = pairings[1]
      /\ pairings'[1] = p /\ pairings' \in Seq(Pairing)
  BY ContinueForm, CurrentType, PairingAt, ConsentIs
<1>3. pairings' # <<>> /\ <<p>> # <<>> /\ <<p>>[1] = p
  BY <1>2
<1>4. \A e \in End : Stands(pairings', asked', actions', said, e)
  BY <1>2, <1>3, StandsSame
<1>5. \A k \in DOMAIN pairings' : k = 1 /\ LivesIn(conn, pairings'[k])
  BY <1>2, ConsentIs DEF LivesIn
<1> QED BY <1>1, <1>4, <1>5, RouteStands, ConsentIs, ConsentNext

\* A conversation ends when no user's reply is outstanding.
LEMMA ConsentFinish ==
  ASSUME ConsentInv, AskInv', NEW ops, Now(ops), pairings # <<>>, NEW success \in BOOLEAN,
         Finish(success),
         \A e \in End : asked'[e] \cap User = {} /\ Spoken(actions', e) = {}
  PROVE  ConsentInv'
<1>1. /\ Len(pairings) \in Nat \ {0} /\ DOMAIN pairings = 1 .. Len(pairings)
      /\ DOMAIN pairings' = 1 .. Len(pairings) - 1
  BY CurrentType, PairingAt, ConsentIs DEF Finish
<1>2. Len(pairings) = 1
  BY <1>1, ConsentIs
<1>3. pairings' \in Seq(Pairing) /\ DOMAIN pairings' = {}
  BY <1>1, <1>2 DEF AskInv, TypeOK
<1>4. pairings' = <<>>
  BY <1>3
<1>5. \A e \in End : said'[e] = "nothing"
  BY DEF Finish
<1>6. \A e \in End : Stands(pairings', asked', actions', said', e)
  BY <1>4, <1>5 DEF Stands
<1>7. conn \in [End -> [Link -> Conn]] /\ Current.handle \in Link
  BY CurrentType, ConsentIs DEF TypeOK, Pairing
<1>8. \A e \in End, h \in Link : conn'[e][h].up = conn[e][h].up
  <2> TAKE e \in End, h \in Link
  <2>1. conn[e][h] \in Conn
    BY <1>7
  <2>2. conn'[e][h] = conn[e][h] \/ conn'[e][h] = [conn[e][h] EXCEPT !.authenticated = TRUE]
    BY <1>7 DEF Finish
  <2> QED BY <2>1, <2>2, ConnFields
<1>9. \A h \in Link : conn'[1][h].up = conn'[2][h].up
  BY <1>8, ConsentIs DEF End
<1> QED BY <1>3, <1>6, <1>9, RouteStands, ConsentNext

LEMMA ConsentKeyReply == ASSUME ConsentInv, AskInv', RouteLinkKeyReply PROVE ConsentInv'
<1>1. Replying({"keyReply"}, "LinkKey") /\ KeyOutcome
  BY KeyReplyOutcome
<1>2. /\ pairings # <<>>
      /\ [Current EXCEPT !.key = Keys] \in Pairing /\ AskedIo \in Pairing
  BY <1>1, KeysType, ConsentIs
<1>3. Now({"keyReply"}) /\ Current.stage = "LinkKey" /\ Current \in Pairing /\ Current = pairings[1]
  BY <1>1, <1>2, CurrentType, ConsentIs DEF Replying, AtStage
<1>4. \A e \in End : Stands(pairings, asked, actions', said, e)
  BY <1>3, RouteStands DEF User
<1>5. \A e \in End : asked[e] \cap User = {} /\ Spoken(actions', e) = {} /\ said[e] = "nothing"
  BY <1>3, <1>4 DEF Stands
<1>6. CASE Continue([Current EXCEPT !.key = Keys]) /\ UNCHANGED asked
  <2> DEFINE p == [Current EXCEPT !.key = Keys]
  <2>1. p \in Pairing /\ p.handle = Current.handle /\ p.stage = "LinkKey"
    BY <1>2, <1>3, PairingFields
  <2>2. Continue(p)
    BY <1>6
  <2> HIDE DEF p
  <2>3. \A e \in End : Stands(<<p>>, asked', actions', said, e)
    BY <1>5, <1>6, <2>1 DEF Stands
  <2> QED BY <1>2, <1>3, <2>1, <2>2, <2>3, ConsentContinue
<1>7. CASE (\E success \in BOOLEAN : Finish(success)) /\ UNCHANGED asked
  BY <1>2, <1>3, <1>5, <1>7, ConsentFinish
<1>8. CASE Continue(AskedIo) /\ asked' = [e \in End |-> asked[e] \cup {"io"}]
  <2>1. AskedIo \in Pairing /\ AskedIo.handle = Current.handle /\ AskedIo.stage = "IoCapability"
    BY <1>2, <1>3, PairingFields DEF AskedIo
  <2>2. \A e \in End : asked'[e] \cap User = {}
    BY <1>5, <1>8 DEF User
  <2>3. \A e \in End : Stands(<<AskedIo>>, asked', actions', said, e)
    BY <1>5, <2>1, <2>2 DEF Stands
  <2> QED BY <1>2, <1>3, <1>8, <2>1, <2>3, ConsentContinue
<1> QED BY <1>1, <1>6, <1>7, <1>8 DEF KeyOutcome

LEMMA ConsentIoReply == ASSUME ConsentInv, AskInv', RouteIoCapabilityReply PROVE ConsentInv'
<1>1. Replying({"ioReply"}, "IoCapability") /\ IoOutcome
  BY IoReplyOutcome, ConsentIs
<1>2. /\ pairings # <<>>
      /\ [Current EXCEPT !.io = Ios] \in Pairing /\ AskedUser \in Pairing
  BY <1>1, IosType, ConsentIs
<1>3. Now({"ioReply"}) /\ Current.stage = "IoCapability" /\ Current \in Pairing /\ Current = pairings[1]
  BY <1>1, <1>2, CurrentType, ConsentIs DEF Replying, AtStage
<1>4. \A e \in End : Stands(pairings, asked, actions', said, e)
  BY <1>3, RouteStands DEF User
<1>5. \A e \in End : asked[e] \cap User = {} /\ Spoken(actions', e) = {} /\ said[e] = "nothing"
  BY <1>3, <1>4 DEF Stands
<1>6. CASE Finish(FALSE) /\ UNCHANGED asked
  BY <1>2, <1>3, <1>5, <1>6, ConsentFinish
<1>7. CASE Continue([Current EXCEPT !.io = Ios]) /\ UNCHANGED asked
  <2> DEFINE p == [Current EXCEPT !.io = Ios]
  <2>1. p \in Pairing /\ p.handle = Current.handle /\ p.stage = "IoCapability"
    BY <1>2, <1>3, PairingFields
  <2>2. Continue(p)
    BY <1>7
  <2> HIDE DEF p
  <2>3. \A e \in End : Stands(<<p>>, asked', actions', said, e)
    BY <1>5, <1>7, <2>1 DEF Stands
  <2> QED BY <1>2, <1>3, <2>1, <2>2, <2>3, ConsentContinue
<1>8. CASE /\ Continue(AskedUser)
           /\ asked' = [e \in End |-> asked[e] \cup Question(NewModel, Ios[e])]
  <2>1. /\ AskedUser \in Pairing /\ AskedUser.handle = Current.handle
        /\ AskedUser.stage = "UserAction"
        /\ AskedUser.decision = [e \in End |-> FirstDecision(NewModel, Ios[e])]
    BY <1>2, <1>3, PairingFields DEF AskedUser
  <2>2. ASSUME NEW e \in End PROVE Stands(<<AskedUser>>, asked', actions', said, e)
    <3>1. asked'[e] \cap User = Question(NewModel, Ios[e]) \cap User
      BY <1>5, <1>8
    <3>2. \/ /\ AskedUser.decision[e] = Pending
             /\ asked'[e] \cap User \in {{"confirm"}, {"passkey"}}
          \/ AskedUser.decision[e] = "yes" /\ asked'[e] \cap User = {}
      <4>1. CASE Notified(NewModel, Ios[e])
        BY <2>1, <3>1, <4>1 DEF FirstDecision, Question
      <4>2. CASE ~Notified(NewModel, Ios[e])
        <5>1. Question(NewModel, Ios[e]) \in {{"confirm"}, {"passkey"}}
          BY <4>2 DEF Question
        <5>2. \A Q \in {{"confirm"}, {"passkey"}} : Q \cap User = Q
          BY DEF User
        <5> QED BY <2>1, <3>1, <4>2, <5>1, <5>2 DEF FirstDecision
      <4> QED BY <4>1, <4>2
    <3>3. Pending # "yes"
      BY DEF Pending
    <3>4. <<AskedUser>> # <<>> /\ <<AskedUser>>[1] = AskedUser
      OBVIOUS
    <3> QED BY <1>5, <2>1, <3>2, <3>3, <3>4 DEF Stands
  <2> QED BY <1>2, <1>3, <1>8, <2>1, <2>2, ConsentContinue
<1> QED BY <1>1, <1>6, <1>7, <1>8 DEF IoOutcome

\* The reply being routed is the one its user gave, and his only one.
LEMMA RoutedReply ==
  ASSUME ConsentInv, Replying(User, "UserAction")
  PROVE  /\ Now(User) /\ pairings # <<>> /\ Current.stage = "UserAction"
         /\ Current \in Pairing /\ Current = pairings[1]
         /\ Head(actions).from \in End
         /\ said[Head(actions).from] = Said(Head(actions))
         /\ Said(Head(actions)) \in {"yes", "no"}
         /\ Current.decision[Head(actions).from] = Pending
         /\ asked[Head(actions).from] \cap User = {}
         /\ Spoken(actions', Head(actions).from) = {}
<1> DEFINE e == Head(actions).from
<1>1. Now(User) /\ pairings # <<>> /\ Current.stage = "UserAction"
  BY DEF Replying, AtStage
<1>2. Current \in Pairing /\ Current = pairings[1]
  BY <1>1, CurrentType, ConsentIs
<1>3. /\ actions \in Seq(Action) /\ actions # <<>> /\ Head(actions) \in Action
      /\ Head(actions).op \in User /\ e \in End /\ actions' = Tail(actions)
  BY <1>1, RouteStands
<1>4. Said(Head(actions)) \in {"yes", "no"}
  BY <1>3, ActionType
<1>5. /\ \A n : n \in Spoken(Tail(actions), e) <=> n \in Nat \ {0} /\ n + 1 \in Spoken(actions, e)
      /\ Head(actions) = actions[1] /\ 1 \in DOMAIN actions /\ DOMAIN actions \subseteq Nat \ {0}
  BY <1>3, SpokenTail
<1>6. 1 \in Spoken(actions, e)
  BY <1>3, <1>5 DEF Spoken
<1>7. Stands(pairings, asked, actions, said, e)
  BY <1>3, ConsentIs
<1> HIDE DEF e
<1>8. /\ pairings[1].decision[e] = Pending /\ asked[e] \cap User = {}
      /\ \E n \in DOMAIN actions : Spoken(actions, e) = {n} /\ said[e] = Said(actions[n])
  BY <1>1, <1>2, <1>6, <1>7 DEF Stands
<1>9. Spoken(actions, e) = {1} /\ said[e] = Said(Head(actions))
  BY <1>5, <1>6, <1>8
<1>10. Spoken(actions', e) = {}
  <2>1. \A n \in Nat \ {0} : n + 1 # 1
    OBVIOUS
  <2> QED BY <1>3, <1>5, <1>9, <2>1
<1> QED BY <1>1, <1>2, <1>3, <1>4, <1>8, <1>9, <1>10 DEF e

LEMMA ConsentUserReply == ASSUME ConsentInv, AskInv', RouteUserReply PROVE ConsentInv'
<1> DEFINE e == Head(actions).from
<1>1. Replying(User, "UserAction") /\ UserOutcome /\ UNCHANGED asked
  BY UserReplyOutcome
<1>2. /\ Now(User) /\ pairings # <<>> /\ Current.stage = "UserAction"
      /\ Current \in Pairing /\ Current = pairings[1] /\ e \in End
      /\ said[e] = Said(Head(actions)) /\ Said(Head(actions)) \in {"yes", "no"}
      /\ asked[e] \cap User = {} /\ Spoken(actions', e) = {}
  BY <1>1, RoutedReply
<1>3. [Current EXCEPT !.decision = Decisions, !.entered = Digits] \in Pairing
  BY <1>1, DecisionsType, ConsentIs
<1>4. Current.decision \in [End -> {Pending, "yes", "no"}]
  BY <1>2 DEF Pairing
<1>5. Decisions[e] = said[e] /\ said[e] # Pending
  BY <1>2, <1>4 DEF Decisions, Pending
<1>6. \A f \in End : f # e => Decisions[f] = Current.decision[f]
  BY <1>4 DEF Decisions
<1>7. \A f \in End : f # e => Stands(pairings, asked, actions', said, f)
  BY <1>2, RouteStands
<1> HIDE DEF e
<1>8. CASE Continue([Current EXCEPT !.decision = Decisions, !.entered = Digits])
  <2> DEFINE p == [Current EXCEPT !.decision = Decisions, !.entered = Digits]
  <2>1. p \in Pairing /\ p.handle = Current.handle /\ p.stage = "UserAction" /\ p.decision = Decisions
    BY <1>2, <1>3, PairingFields
  <2>2. Continue(p)
    BY <1>8
  <2> HIDE DEF p
  <2>3. ASSUME NEW f \in End PROVE Stands(<<p>>, asked', actions', said, f)
    <3>0. <<p>> # <<>> /\ <<p>>[1] = p
      OBVIOUS
    <3>1. CASE f = e
      BY <1>1, <1>2, <1>5, <2>1, <3>0, <3>1 DEF Stands
    <3>2. CASE f # e
      <4>1. Stands(pairings, asked, actions', said, f) /\ Decisions[f] = Current.decision[f]
        BY <1>6, <1>7, <3>2
      <4>2. Stands(<<p>>, asked, actions', said, f)
        BY <1>2, <2>1, <3>0, <4>1, StandsSame
      <4> QED BY <1>1, <4>2
    <3> QED BY <3>1, <3>2
  <2> QED BY <1>2, <2>1, <2>2, <2>3, ConsentContinue
<1>9. CASE /\ \A f \in End : Decisions[f] # Pending
           /\ \E success \in BOOLEAN : Finish(success)
  <2>1. ASSUME NEW f \in End PROVE asked'[f] \cap User = {} /\ Spoken(actions', f) = {}
    <3>1. CASE f = e
      BY <1>1, <1>2, <3>1
    <3>2. CASE f # e
      <4>1. Stands(pairings, asked, actions', said, f) /\ Current.decision[f] # Pending
        BY <1>6, <1>7, <1>9, <3>2
      <4> QED BY <1>1, <1>2, <4>1 DEF Stands
    <3> QED BY <3>1, <3>2
  <2> QED BY <1>2, <1>9, <2>1, ConsentFinish
<1> QED BY <1>1, <1>8, <1>9 DEF UserOutcome

LEMMA ConsentStale == ASSUME ConsentInv, AskInv', RouteStaleReply PROVE ConsentInv'
<1>1. UNCHANGED <<conn, pairings, asked, said>>
  BY DEF RouteStaleReply, hosts
<1>2. CASE Now({"keyReply"}) \/ Now({"ioReply"})
  BY <1>1, <1>2, ConsentQuiet, ConsentIs DEF User
<1>3. CASE Now(User) /\ ~AtStage("UserAction")
  <2> DEFINE e == Head(actions).from
  <2>1. /\ actions \in Seq(Action) /\ actions # <<>> /\ Head(actions).op \in User /\ e \in End
    BY <1>3, RouteStands
  <2>2. 1 \in Spoken(actions, e)
    BY <2>1, SpokenTail DEF Spoken
  <2>3. Stands(pairings, asked, actions, said, e)
    BY <2>1, ConsentIs
  <2>4. pairings # <<>> => Current = pairings[1]
    BY CurrentType, ConsentIs
  <2> HIDE DEF e
  <2>5. FALSE
    BY <1>3, <2>2, <2>3, <2>4 DEF Stands, AtStage
  <2> QED BY <2>5
<1> QED BY <1>2, <1>3 DEF RouteStaleReply, User

LEMMA ConsentTick == ConsentInv /\ AskInv' /\ Tick => ConsentInv'
<1> SUFFICES ASSUME ConsentInv, AskInv', Tick PROVE ConsentInv'
  OBVIOUS
<1>0. /\ conn \in [End -> [Link -> Conn]] /\ \A h \in Link : conn[1][h].up = conn[2][h].up
      /\ 1 \in End /\ 2 \in End
  BY ConsentIs DEF TypeOK, End
<1>1. CASE RouteConnect
  <2>1. Now({"connect"}) /\ UNCHANGED <<pairings, asked, said>>
    BY <1>1 DEF RouteConnect, hosts
  <2>2. UNCHANGED conn \/ conn' = [e \in End |-> [conn[e] EXCEPT ![made + 1] = Up]]
    BY <1>1 DEF RouteConnect
  <2>3. ASSUME NEW e \in End, NEW h \in Link
        PROVE  conn'[e][h].up = (conn[e][h].up \/ (conn' # conn /\ h = made + 1))
    <3>1. CASE UNCHANGED conn
      <4>1. conn[e][h].up \in BOOLEAN
        BY <1>0 DEF Conn
      <4> QED BY <3>1, <4>1
    <3>2. CASE conn' # conn
      <4>1. conn'[e][h] = IF h = made + 1 THEN Up ELSE conn[e][h]
        BY <1>0, <2>2, <3>2
      <4>2. conn[e][h].up \in BOOLEAN
        BY <1>0 DEF Conn
      <4> QED BY <3>2, <4>1, <4>2, ConnFields, ConnType
    <3> QED BY <3>1, <3>2
  <2>4. {"connect"} \cap User = {}
    BY DEF User
  <2>5. ASSUME NEW h \in Link PROVE conn'[1][h].up = conn'[2][h].up
    <3>1. conn[1][h].up = conn[2][h].up
      BY <1>0
    <3>2. /\ conn'[1][h].up = (conn[1][h].up \/ (conn' # conn /\ h = made + 1))
          /\ conn'[2][h].up = (conn[2][h].up \/ (conn' # conn /\ h = made + 1))
      BY <1>0, <2>3
    <3> QED BY <3>1, <3>2
  <2>6. \A e \in End, h \in Link : conn[e][h].up => conn'[e][h].up
    BY <2>3, Zenon
  <2> QED BY <2>1, <2>4, <2>5, <2>6, ConsentQuiet, Zenon
<1>2. CASE RouteDisconnect
  <2>1. Now({"disconnect"})
    BY <1>2 DEF RouteDisconnect
  <2> QED BY <2>1, RouteStands
<1>3. CASE RouteSetConnectionEncryption
  <2> DEFINE g == Head(actions).handle
             on == Head(actions).arg
  <2>1. /\ Now({"encrypt"}) /\ UNCHANGED <<pairings, asked, said>>
        /\ \/ UNCHANGED conn
           \/ conn' = [e \in End |-> IF Holds(e, g) THEN [conn[e] EXCEPT ![g].encrypted = on] ELSE conn[e]]
    BY <1>3 DEF RouteSetConnectionEncryption, EncryptedEnds, hosts
  <2> HIDE DEF g, on
  <2>2. ASSUME NEW e \in End, NEW h \in Link PROVE conn'[e][h].up = conn[e][h].up
    <3>1. conn'[e][h] \in {conn[e][h], [conn[e][h] EXCEPT !.encrypted = on]}
      BY <1>0, <2>1
    <3>2. conn[e][h] \in Conn
      BY <1>0
    <3>3. [conn[e][h] EXCEPT !.encrypted = on].up = conn[e][h].up
      BY <3>2, ConnFields
    <3> QED BY <3>1, <3>3
  <2>3. {"encrypt"} \cap User = {}
    BY DEF User
  <2>4. \A h \in Link : conn'[1][h].up = conn'[2][h].up
    BY <1>0, <2>2, Zenon
  <2>5. \A e \in End, h \in Link : conn[e][h].up => conn'[e][h].up
    BY <2>2, Zenon
  <2> QED BY <2>1, <2>3, <2>4, <2>5, ConsentQuiet, Zenon
<1>4. CASE RouteChangeConnectionLinkKey
  <2> DEFINE g == Head(actions).handle
             n == conn[Head(actions).from][g].rotations + 1
  <2>1. /\ Now({"changeKey"}) /\ UNCHANGED <<pairings, asked, said>>
        /\ \/ UNCHANGED conn
           \/ conn' = [e \in End |-> IF Holds(e, g) THEN [conn[e] EXCEPT ![g].rotations = n] ELSE conn[e]]
    BY <1>4 DEF RouteChangeConnectionLinkKey
  <2> HIDE DEF g, n
  <2>2. ASSUME NEW e \in End, NEW h \in Link PROVE conn'[e][h].up = conn[e][h].up
    <3>1. conn'[e][h] \in {conn[e][h], [conn[e][h] EXCEPT !.rotations = n]}
      BY <1>0, <2>1
    <3>2. conn[e][h] \in Conn
      BY <1>0
    <3>3. [conn[e][h] EXCEPT !.rotations = n].up = conn[e][h].up
      BY <3>2, ConnFields
    <3> QED BY <3>1, <3>3
  <2>3. {"changeKey"} \cap User = {}
    BY DEF User
  <2>4. \A h \in Link : conn'[1][h].up = conn'[2][h].up
    BY <1>0, <2>2, Zenon
  <2>5. \A e \in End, h \in Link : conn[e][h].up => conn'[e][h].up
    BY <2>2, Zenon
  <2> QED BY <2>1, <2>3, <2>4, <2>5, ConsentQuiet, Zenon
<1>5. CASE RouteDone
  <2>1. UNCHANGED <<conn, pairings, asked, actions, said>>
    BY <1>5 DEF RouteDone, hosts
  <2> QED BY <2>1, ConsentIs, ConsentNext
<1> QED BY <1>1, <1>2, <1>3, <1>4, <1>5, ConsentDrained, ConsentAuthenticate, ConsentStale,
           ConsentKeyReply, ConsentIoReply, ConsentUserReply DEF Tick

LEMMA ConsentInit == Init => ConsentInv
<1> SUFFICES ASSUME Init PROVE ConsentInv
  OBVIOUS
<1>1. AskInv
  BY AskInit
<1>2. \A h \in Link : conn[1][h].up = conn[2][h].up
  BY DEF Init, End
<1>3. pairings = <<>> /\ actions = <<>> /\ \A e \in End : asked[e] = {} /\ said[e] = "nothing"
  BY DEF Init
<1>4. \A e \in End : Spoken(actions, e) = {}
  BY <1>3 DEF Spoken
<1>5. \A e \in End : Stands(pairings, asked, actions, said, e)
  BY <1>3, <1>4 DEF Stands
<1> QED BY <1>1, <1>2, <1>3, <1>5 DEF ConsentInv, LinkStays

LEMMA ConsentStep ==
  ASSUME "disconnect" \notin Ops, "reset" \notin Ops
  PROVE  ConsentInv /\ [Next]_vars => ConsentInv'
<1> SUFFICES ASSUME ConsentInv, [Next]_vars PROVE ConsentInv'
  OBVIOUS
<1>0. AskInv'
  BY AskStep, ConsentIs
<1>1. CASE HostCommand \/ \E e \in End : HostReply(e)
  BY <1>0, <1>1, ConsentHost
<1>2. CASE Tick
  BY <1>0, <1>2, ConsentTick
<1>3. CASE UNCHANGED vars
  <2>1. UNCHANGED <<conn, pairings, asked, actions, said>>
    BY <1>3 DEF vars, hosts
  <2> QED BY <1>0, <2>1, ConsentIs, ConsentNext
<1> QED BY <1>1, <1>2, <1>3 DEF Next

\* A key becomes authenticated only with a routed reply that ends the conversation in
\* agreement.
LEMMA Authenticates ==
  ASSUME TypeOK, [Next]_vars, NEW e \in End,
         bond'[e].type = "authenticated", bond[e].type # "authenticated"
  PROVE  /\ Replying(User, "UserAction")
         /\ Decisions[1] = "yes" /\ Decisions[2] = "yes"
<1>0. bond \in [End -> Key] /\ NoKey.type = "none"
  BY DEF TypeOK, NoKey
<1>1. CASE UNCHANGED bond
  BY <1>1
<1>2. CASE RouteUserReply
  BY <1>1, <1>2, UserReplyOutcome DEF UserOutcome, Agreed
<1>3. CASE RouteChangeConnectionLinkKey
  <2>1. UNCHANGED bond \/ bond'[e].type = "unauthenticated"
    BY <1>3 DEF RouteChangeConnectionLinkKey, KeyNotified
  <2> QED BY <1>1, <2>1
<1>4. CASE \E f \in End : Forget(f)
  <2> PICK f \in End : Forget(f)
    BY <1>4
  <2>1. bond'[e] = bond[e] \/ bond'[e] = NoKey
    BY <1>0 DEF Forget
  <2> QED BY <1>0, <2>1
<1>5. CASE RouteLinkKeyReply \/ RouteIoCapabilityReply
  BY <1>1, <1>5, KeyReplyOutcome, IoReplyOutcome
<1>6. CASE DrainDone \/ RouteConnect \/ RouteDisconnect \/ RouteAuthenticate
             \/ RouteSetConnectionEncryption \/ RouteStaleReply \/ RouteDone
  BY <1>1, <1>6 DEF DrainDone, RouteConnect, RouteDisconnect, RouteAuthenticate,
       RouteSetConnectionEncryption, RouteStaleReply, RouteDone, hosts
<1>7. CASE UNCHANGED vars
  BY <1>1, <1>7 DEF vars, hosts
<1>8. CASE (HostCommand \/ \E f \in End : HostReply(f)) /\ ~\E f \in End : Forget(f)
  <2>1. UNCHANGED bond
    BY <1>8 DEF HostCommand, HostReply, Connect, AuthenticationRequested, SetConnectionEncryption,
       ChangeConnectionLinkKey, Disconnect, WriteSimplePairingMode, Reset, Send, LinkKeyReply,
       IoCapabilityReply, IoCapabilityNegativeReply, UserConfirmationReply, UserPasskeyReply,
       Answer, Queue, hosts
  <2> QED BY <1>1, <2>1
<1> QED BY <1>2, <1>3, <1>4, <1>5, <1>6, <1>7, <1>8 DEF Next, Tick

\* The two users consented to what is decided.
LEMMA Consents ==
  ASSUME ConsentInv, Replying(User, "UserAction"), Decisions[1] = "yes", Decisions[2] = "yes"
  PROVE  (\A f \in End : said[f] # "no") /\ \E f \in End : said[f] = "yes"
<1> DEFINE e == Head(actions).from
<1>1. /\ pairings # <<>> /\ Current.stage = "UserAction"
      /\ Current \in Pairing /\ Current = pairings[1] /\ e \in End /\ said[e] = Said(Head(actions))
  BY RoutedReply
<1>2. Current.decision \in [End -> {Pending, "yes", "no"}]
  BY <1>1 DEF Pairing
<1>3. /\ Decisions[e] = said[e]
      /\ \A f \in End : f # e => Decisions[f] = Current.decision[f]
  BY <1>1, <1>2 DEF Decisions
<1>4. \A f \in End : Decisions[f] = "yes"
  BY DEF End
<1> HIDE DEF e
<1>5. \A f \in End : f # e => said[f] # "no"
  <2> SUFFICES ASSUME NEW f \in End, f # e PROVE said[f] # "no"
    OBVIOUS
  <2>1. pairings[1].decision[f] = "yes" /\ "yes" # Pending
    BY <1>1, <1>3, <1>4 DEF Pending
  <2>2. Stands(pairings, asked, actions, said, f)
    BY ConsentIs
  <2> QED BY <1>1, <2>1, <2>2 DEF Stands
<1> QED BY <1>1, <1>3, <1>4, <1>5

\* "Only a model a person actually took part in produces an authenticated key"
\* (advance_pairing): while links stay up, no host stores an authenticated key unless
\* a user said yes in this conversation and no user said no, whatever the hosts'
\* capabilities and in whatever order their replies are routed.  A link that goes takes
\* its conversation with it and not the replies under way, and pairing_index finds the
\* next conversation of the same two controllers for them: hence the hypothesis.
THEOREM ConsentTheorem ==
  ASSUME "disconnect" \notin Ops, "reset" \notin Ops
  PROVE  Spec => KeyNeedsConsent
<1>1. ConsentInv /\ [Next]_vars =>
        [ \A e \in End :
            bond'[e].type = "authenticated" /\ bond[e].type # "authenticated" =>
              /\ \A f \in End : said[f] # "no"
              /\ \E f \in End : said[f] = "yes" ]_vars
  BY ConsentIs, Authenticates, Consents
<1>2. ConsentInv /\ [Next]_vars => ConsentInv'
  BY ConsentStep
<1> QED BY <1>1, <1>2, ConsentInit, PTL DEF Spec, KeyNeedsConsent

================================================================================
