---------------------------------- MODULE Ancs ----------------------------------
(***************************************************************************)
(* The Apple Notification Center Service (profiles/ancs.rs): a phone that  *)
(* keeps notifications and tells of every change, and a client that asks   *)
(* for their attributes.  An answer may be longer than a notification, so  *)
(* its octets arrive in pieces, cut anywhere, and the client puts them     *)
(* together.  A text is a short sequence of octets; the owner of the       *)
(* service sends each event as it is made.                                 *)
(***************************************************************************)
EXTENDS Naturals, Sequences, SequencesExt, FiniteSets, Functions

CONSTANTS
  Contents,  \* notifications: [category, flags, text], a text for each attribute but the message's size
  Apps,      \* applications: identifier -> display name
  Requests,  \* what the client asks: [op, ...]
  MaxUid, MaxOps, \* bounds: notifications posted, steps of phone and user
  Serial     \* whether the client waits for an answer before it asks again

VARIABLES
  notes, nextUid, apps, \* AncsState
  events,    \* Notification Source packets under way
  answers,   \* Data Source octets under way, with what they answer
  client,    \* AncsClient: what it expects, its buffer, and the last answer it took
  known,     \* the notifications as the events told of them, and whether every event made sense
  ops

vars == <<notes, nextUid, apps, events, answers, client, known, ops>>

\* NotificationAttributeId, has_max_length.
Attributes == 0 .. 7
Title == 1
Message == 3
MessageSize == 4
HasMaxLength == {Title, 2, Message}
\* event_flags.
Positive == 8
Negative == 16

Nothing == [cmd |-> "none"]

Init ==
  /\ notes = <<>> /\ nextUid = 0 /\ apps = {}
  /\ events = <<>> /\ answers = <<>>
  /\ client = [expected |-> Nothing, buffer |-> <<>>, took |-> Nothing, due |-> Nothing]
  /\ known = [notes |-> <<>>, sound |-> TRUE]
  /\ ops = 0

--------------------------------------------------------------------------------
\* attribute_value: the size of the message is said in digits.
AttributeValue(c, id) == IF id = MessageSize THEN <<48 + Len(c.text[Message])>> ELSE c.text[id]

\* effective_flags: a label makes its action possible.
EffectiveFlags(c) ==
  c.flags \cup (IF c.text[6] # <<>> THEN {Positive} ELSE {}) \cup (IF c.text[7] # <<>> THEN {Negative} ELSE {})

CategoryCount(n, category) == Cardinality({u \in DOMAIN n : n[u].category = category})

\* emit_event, with the notifications as they are after the change.
Event(id, u, c, n) ==
  <<[event |-> id, flags |-> EffectiveFlags(c), category |-> c.category, count |-> CategoryCount(n, c.category), uid |-> u]>>

Without(n, u) == Restrict(n, DOMAIN n \ {u})
With(n, u, c) == [x \in DOMAIN n \cup {u} |-> IF x = u THEN c ELSE n[x]]

\* register_app.
RegisterApp(a) ==
  /\ ops < MaxOps /\ ops' = ops + 1
  /\ a \notin apps /\ apps' = apps \cup {a}
  /\ UNCHANGED <<notes, nextUid, events, answers, client, known>>

\* post_notification, modify_notification, remove_notification.
Change(id, u, c, n) ==
  /\ ops < MaxOps /\ ops' = ops + 1
  /\ notes' = n /\ events' = events \o Event(id, u, c, n)
  /\ UNCHANGED <<apps, answers, client, known>>
PostNotification(c) == nextUid < MaxUid /\ nextUid' = nextUid + 1 /\ Change("Added", nextUid, c, With(notes, nextUid, c))
ModifyNotification(u, c) == u \in DOMAIN notes /\ Change("Modified", u, c, With(notes, u, c)) /\ UNCHANGED nextUid
RemoveNotification(u) == u \in DOMAIN notes /\ Change("Removed", u, notes[u], Without(notes, u)) /\ UNCHANGED nextUid

--------------------------------------------------------------------------------
Cut(text, want) == IF want.id \in HasMaxLength THEN SubSeq(text, 1, IF Len(text) < want.max THEN Len(text) ELSE want.max) ELSE text
Tuple(id, text) == <<id, Len(text), 0>> \o text
Octets(u) == <<u, 0, 0, 0>>

\* get_notification_attributes: the answer, or the error the write ends with.
GetNotificationAttributes(q) ==
  IF q.short THEN [error |-> "InvalidCommand"]
  ELSE IF q.uid \notin DOMAIN notes \/ \E i \in DOMAIN q.wants : q.wants[i].id \notin Attributes THEN [error |-> "InvalidParameter"]
  ELSE LET values == [i \in DOMAIN q.wants |-> <<q.wants[i].id, Cut(AttributeValue(notes[q.uid], q.wants[i].id), q.wants[i])>>]
       IN [error |-> "", values |-> values, octets |-> <<0>> \o Octets(q.uid) \o FlattenSeq([i \in DOMAIN values |-> Tuple(values[i][1], values[i][2])])]

\* get_app_attributes: the only attribute is the display name.
GetAppAttributes(q) ==
  IF q.short THEN [error |-> "InvalidCommand"]
  ELSE IF q.app \notin apps \/ \E i \in DOMAIN q.wants : q.wants[i].id # 0 THEN [error |-> "InvalidParameter"]
  ELSE LET values == [i \in DOMAIN q.wants |-> <<0, Apps[q.app]>>]
       IN [error |-> "", values |-> values, octets |-> <<1, q.app, 0>> \o FlattenSeq([i \in DOMAIN values |-> Tuple(0, Apps[q.app])])]

\* create_get_notification_attributes_command, create_get_app_attributes_command.
Expect(q) == [client EXCEPT !.expected = q, !.buffer = <<>>]

\* ControlPointHandler::on_write of a question, and the answer's way to the client.
Ask(q) ==
  /\ ops < MaxOps /\ ops' = ops + 1
  /\ q.op \in {"attributes", "app"} /\ (Serial => answers = <<>>)
  /\ LET a == IF q.op = "app" THEN GetAppAttributes(q) ELSE GetNotificationAttributes(q)
         asked == Expect([cmd |-> q.op, q |-> q])
     IN IF a.error # "" THEN client' = [asked EXCEPT !.took = Nothing, !.due = Nothing] /\ UNCHANGED answers
        ELSE /\ client' = [asked EXCEPT !.took = Nothing, !.due = [cmd |-> q.op, values |-> a.values]]
             /\ answers' = Append(answers, a.octets)
  /\ UNCHANGED <<notes, nextUid, apps, events, known>>

\* perform_notification_action: an action it offers, which also removes it.
Perform(q) ==
  /\ q.op = "perform" /\ ~q.short
  /\ q.uid \in DOMAIN notes /\ q.flag \in EffectiveFlags(notes[q.uid])
  /\ Change("Removed", q.uid, notes[q.uid], Without(notes, q.uid)) /\ UNCHANGED nextUid

--------------------------------------------------------------------------------
\* parse_attribute_tuples: the first `count` tuples, or <<>> when they are not all there.
RECURSIVE Tuples(_, _)
Tuples(data, count) ==
  IF count = 0 THEN [whole |-> TRUE, tuples |-> <<>>]
  ELSE IF Len(data) < 3 \/ Len(data) < 3 + data[2] + 256 * data[3] THEN [whole |-> FALSE]
  ELSE LET n == data[2] + 256 * data[3]
           rest == Tuples(SubSeq(data, 4 + n, Len(data)), count - 1)
       IN IF rest.whole THEN [whole |-> TRUE, tuples |-> <<<<data[1], SubSeq(data, 4, 3 + n)>>>> \o rest.tuples] ELSE rest

Taken(t, ids) == IF ~t.whole THEN "Incomplete" ELSE IF \E i \in DOMAIN t.tuples : t.tuples[i][1] \notin ids THEN "Mismatch" ELSE "Complete"

\* try_parse_notification_attributes.
ParseNotification(b, q) ==
  LET t == Tuples(SubSeq(b, 6, Len(b)), Len(q.wants))
  IN IF Len(b) < 5 THEN [outcome |-> "Incomplete"]
     ELSE IF b[1] # 0 \/ SubSeq(b, 2, 5) # Octets(q.uid) THEN [outcome |-> "Mismatch"]
     ELSE [outcome |-> Taken(t, Attributes), t |-> t]

\* try_parse_app_attributes.
ParseApp(b, q) ==
  LET nul == SelectInSeq(Tail(b), LAMBDA x : x = 0)
      t == Tuples(SubSeq(b, nul + 2, Len(b)), Len(q.wants))
  IN IF Len(b) < 2 THEN [outcome |-> "Incomplete"]
     ELSE IF b[1] # 1 THEN [outcome |-> "Mismatch"]
     ELSE IF nul = 0 THEN [outcome |-> "Incomplete"]
     ELSE IF SubSeq(b, 2, nul) # <<q.app>> THEN [outcome |-> "Mismatch"]
     ELSE [outcome |-> Taken(t, {0}), t |-> t]

\* on_data_source_notification: any piece of the answer, cut anywhere.
OnDataSource(n) ==
  /\ answers # <<>> /\ n \in 1 .. Len(Head(answers))
  /\ answers' = IF n = Len(Head(answers)) THEN Tail(answers) ELSE [answers EXCEPT ![1] = SubSeq(@, n + 1, Len(@))]
  /\ LET b == client.buffer \o SubSeq(Head(answers), 1, n)
         e == client.expected
         p == IF e.cmd = "app" THEN ParseApp(b, e.q) ELSE ParseNotification(b, e.q)
     IN client' = IF e = Nothing THEN client
                  ELSE CASE p.outcome = "Incomplete" -> [client EXCEPT !.buffer = b]
                         [] p.outcome = "Mismatch" -> [client EXCEPT !.expected = Nothing, !.buffer = <<>>]
                         [] p.outcome = "Complete" ->
                              [client EXCEPT !.expected = Nothing, !.buffer = <<>>, !.took = [cmd |-> e.cmd, values |-> p.t.tuples]]
  /\ UNCHANGED <<notes, nextUid, apps, events, known, ops>>

\* What the events say, told apart: an added one is new, the others are known, and the count is right.
OnEvent ==
  /\ events # <<>> /\ events' = Tail(events)
  /\ LET e == Head(events)
         c == [category |-> e.category, flags |-> e.flags]
         n == IF e.event = "Removed" THEN Without(known.notes, e.uid) ELSE With(known.notes, e.uid, c)
     IN known' = [notes |-> n,
                  sound |-> /\ known.sound
                            /\ (e.event = "Added") = (e.uid \notin DOMAIN known.notes)
                            /\ e.count = CategoryCount(n, e.category)]
  /\ UNCHANGED <<notes, nextUid, apps, answers, client, ops>>

Next ==
  \/ \E a \in DOMAIN Apps : RegisterApp(a)
  \/ \E c \in Contents : PostNotification(c) \/ \E u \in 0 .. MaxUid - 1 : ModifyNotification(u, c)
  \/ \E u \in 0 .. MaxUid - 1 : RemoveNotification(u)
  \/ \E q \in Requests : Ask(q) \/ Perform(q)
  \/ \E n \in 1 .. 20 : OnDataSource(n)
  \/ OnEvent

Spec == Init /\ [][Next]_vars

--------------------------------------------------------------------------------
\* A client that folds the events has exactly the phone's notifications, with their categories and
\* flags, once every event is in, and no event on the way contradicts what it has (emit_event).
EventsTellAll ==
  /\ known.sound
  /\ events = <<>> => known.notes = [u \in DOMAIN notes |-> [category |-> notes[u].category, flags |-> EffectiveFlags(notes[u])]]

\* An answer is taken once it is whole, wherever it was cut, and is the answer to what was asked:
\* each attribute asked for, in order, no longer than asked (on_data_source_notification).
AnswersWhole ==
  /\ client.took # Nothing => client.took = client.due
  /\ answers = <<>> => client.took = client.due
================================================================================
