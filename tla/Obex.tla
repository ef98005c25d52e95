--------------------------------- MODULE Obex ---------------------------------
(***************************************************************************)
(* Object push: an ObexClient and an ObexServer that answers every packet  *)
(* with one response.  A body too long for a packet goes in several, each  *)
(* sent when the one before was answered; the client may abort at any      *)
(* time, the server may refuse, and the channel may go in the middle, which *)
(* gives the server a fresh client and leaves it what it had.              *)
(*                                                                         *)
(* The octets of a body are runs: octets `from` to `to` of object `of`.    *)
(***************************************************************************)
EXTENDS Integers, Sequences, SequencesExt, FiniteSetsExt

CONSTANTS
  Cases  \* [policy, maxObject, packet, objects, connects, ops, maxOps, losses]

VARIABLES
  case,
  server,    \* [connected, inProgress, completed, peerMax]
  client,    \* [state, queued, awaitingConnect]
  toServer, toClient,
  putting,   \* the object the client was last told to put, if any
  accepted,  \* the objects it was told have arrived
  ops, losses

vars == <<case, server, client, toServer, toClient, putting, accepted, ops, losses>>

Run(o, from, to) == IF from > to THEN <<>> ELSE <<[of |-> o.id, from |-> from, to |-> to]>>
Joined(body, run) ==
  IF body # <<>> /\ run # <<>> /\ Last(body).of = run[1].of /\ Last(body).to + 1 = run[1].from
  THEN Front(body) \o <<[Last(body) EXCEPT !.to = run[1].to]>> ELSE body \o run
Octets(body) == FoldSeq(LAMBDA r, n : r.to - r.from + 1 + n, 0, body)

NoObject == [name |-> {}, mime |-> {}, declared |-> {}, body |-> <<>>]
NewClient == [state |-> "Idle", queued |-> <<>>, awaitingConnect |-> FALSE]

Init ==
  /\ case \in Cases
  /\ server = [connected |-> FALSE, inProgress |-> {}, completed |-> <<>>, peerMax |-> {}]
  /\ client = NewClient
  /\ toServer = <<>> /\ toClient = <<>>
  /\ putting = {} /\ accepted = <<>>
  /\ ops = 0 /\ losses = 0

--------------------------------------------------------------------------------
\* The packets of a PUT: what describes the object goes first, each packet has three
\* octets of its own and three for the header of the body.
put_packets(o) ==
  LET leading == (IF o.name = {} THEN <<>> ELSE <<[h |-> "Name", v |-> o.id]>>)
                   \o (IF o.mime = {} THEN <<>> ELSE <<[h |-> "Type", v |-> o.id]>>) \o <<[h |-> "Length", len |-> o.len]>>
      leadingLen == SumSet({5 + 2 * n : n \in o.name}) + SumSet({3 + n : n \in o.mime}) + 5
      first == Max({0, case.packet - (3 + leadingLen + 3)})
      later == Max({0, case.packet - (3 + 3)})
      part(final, headers) == [op |-> "Put", final |-> final, headers |-> headers]
      body(h, from, to) == <<[h |-> h, run |-> Run(o, from, to)]>>
      more == (o.len - first + later - 1) \div later
  IN IF first = 0 \/ later = 0 THEN <<part(TRUE, leading)>>
     ELSE IF o.len <= first THEN <<part(TRUE, leading \o body("EndOfBody", 1, o.len))>>
     ELSE <<part(FALSE, leading \o body("Body", 1, first))>>
            \o [i \in 1 .. more |->
                  IF i < more THEN part(FALSE, body("Body", first + (i - 1) * later + 1, first + i * later))
                  ELSE part(TRUE, body("EndOfBody", first + (i - 1) * later + 1, o.len))]

\* What a client may be told to do: connect, once and before anything else where it does;
\* put or get when nothing is under way; abort; disconnect.
Quiet == toServer = <<>> /\ toClient = <<>>
Ready == Quiet /\ client.queued = <<>>

Send(packet, op) ==
  /\ op \in case.ops
  /\ ops < case.maxOps
  /\ ops' = ops + 1
  /\ toServer' = Append(toServer, packet)
  /\ UNCHANGED <<case, server, toClient, accepted, losses>>

connect ==
  /\ Ready
  /\ Send([op |-> "Connect", max |-> case.packet], "connect")
  /\ client' = [client EXCEPT !.awaitingConnect = TRUE]
  /\ putting' = {}

disconnect ==
  /\ Ready
  /\ Send([op |-> "Disconnect"], "disconnect")
  /\ client' = [client EXCEPT !.awaitingConnect = FALSE]
  /\ putting' = {}

put(o) ==
  /\ Ready
  /\ case.connects => client.state # "Idle"
  /\ LET packets == put_packets(o)
     IN /\ Send(Head(packets), "put")
        /\ client' = [client EXCEPT !.queued = Tail(packets), !.awaitingConnect = FALSE, !.state = "Putting"]
        /\ putting' = {o}

get ==
  /\ Ready
  /\ Send([op |-> "Get"], "get")
  /\ client' = [client EXCEPT !.awaitingConnect = FALSE]
  /\ putting' = {}

abort ==
  /\ Send([op |-> "Abort"], "abort")
  /\ client' = [client EXCEPT !.queued = <<>>]
  /\ putting' = {}

\* A packet that cannot be read.
Garble ==
  /\ Ready
  /\ Send([op |-> "garbled"], "garble")
  /\ putting' = {}
  /\ UNCHANGED client

--------------------------------------------------------------------------------
\* The server.
Response(code) == [code |-> code, connect |-> FALSE]
\* Mutant of Reject: a refused object keeps what came of it.
RejectKeeping(s, code) == [s |-> s, response |-> Response(code)]

Reject(s, code) == [s |-> [s EXCEPT !.inProgress = {}], response |-> Response(code)]
Done(s) == [s |-> s, response |-> Response("Success")]

on_connect(q) ==
  [s |-> [server EXCEPT !.connected = TRUE, !.inProgress = {}, !.peerMax = {q.max}], response |-> [code |-> "Success", connect |-> TRUE]]

\* One header after another, into the object in progress.
Header(o, h) ==
  CASE h.h = "Name" -> [o EXCEPT !.name = {h.v}]
    [] h.h = "Type" -> [o EXCEPT !.mime = {h.v}]
    [] h.h = "Length" -> [o EXCEPT !.declared = {h.len}]
    [] OTHER -> [o EXCEPT !.body = Joined(@, h.run)]

on_put(q) ==
  LET begun == IF server.inProgress = {} THEN NoObject ELSE CHOOSE o \in server.inProgress : TRUE
      object == FoldLeft(Header, begun, q.headers)
  IN IF Octets(object.body) > case.maxObject THEN Reject(server, "EntityTooLarge")
     ELSE IF q.final THEN Done([server EXCEPT !.inProgress = {}, !.completed = Append(@, object)])
     ELSE [s |-> [server EXCEPT !.inProgress = {object}], response |-> Response("Continue")]

handle_packet(q) ==
  CASE q.op = "garbled" -> [s |-> server, response |-> Response("BadRequest")]
    [] q.op # "garbled" /\ case.policy = "Required" /\ ~server.connected /\ q.op \notin {"Connect", "Abort"} ->
         Reject(server, "ServiceUnavailable")
    [] OTHER ->
         CASE q.op = "Connect" -> on_connect(q)
           [] q.op = "Disconnect" -> Done([server EXCEPT !.connected = FALSE, !.inProgress = {}])
           [] q.op = "Put" -> on_put(q)
           [] q.op = "Abort" -> Done([server EXCEPT !.inProgress = {}])
           [] OTHER -> Reject(server, "NotImplemented")

Serve ==
  /\ toServer # <<>>
  /\ LET handled == handle_packet(Head(toServer))
     IN server' = handled.s /\ toClient' = Append(toClient, handled.response)
  /\ toServer' = Tail(toServer)
  /\ UNCHANGED <<case, client, putting, accepted, ops, losses>>

\* The client's side of a response; a success in the middle of a transfer is a failure.
handle_response ==
  /\ toClient # <<>>
  /\ toClient' = Tail(toClient)
  /\ LET r == Head(toClient)
         c == [client EXCEPT !.awaitingConnect = FALSE]
         over(state) == client' = [c EXCEPT !.queued = <<>>, !.state = state]
     IN \/ /\ r.code = "Continue"
           /\ client' = [c EXCEPT !.queued = IF @ = <<>> THEN @ ELSE Tail(@)]
           /\ toServer' = IF client.queued = <<>> THEN toServer ELSE Append(toServer, Head(client.queued))
           /\ UNCHANGED accepted
        \/ /\ r.code = "Success"
           /\ over(IF client.queued # <<>> THEN "Failed" ELSE IF r.connect THEN "Connected" ELSE "Done")
           /\ accepted' = IF client.queued = <<>> /\ client.state = "Putting" THEN accepted \o SetToSeq(putting) ELSE accepted
           /\ UNCHANGED toServer
        \/ /\ r.code \notin {"Continue", "Success"}
           /\ over("Failed")
           /\ UNCHANGED <<toServer, accepted>>
  /\ UNCHANGED <<case, server, putting, ops, losses>>

\* The channel goes; the next client starts afresh, the server as it was left.
Lose ==
  /\ losses < case.losses
  /\ losses' = losses + 1
  /\ client' = NewClient
  /\ toServer' = <<>> /\ toClient' = <<>>
  /\ putting' = {}
  /\ UNCHANGED <<case, server, accepted, ops>>

Next ==
  \/ connect \/ disconnect \/ get \/ abort \/ Garble
  \/ \E o \in case.objects : put(o)
  \/ Serve \/ handle_response \/ Lose

Spec == Init /\ [][Next]_vars

--------------------------------------------------------------------------------
Received(o) ==
  [name |-> IF o.name = {} THEN {} ELSE {o.id}, mime |-> IF o.mime = {} THEN {} ELSE {o.id}, declared |-> {o.len}, body |-> Run(o, 1, o.len)]

\* Every object a server holds is one that was put, whole and with its own name, type and
\* length, also after transfers that were aborted, refused or lost in the middle; and what
\* a client was told has arrived is there.
ObjectsWhole ==
  /\ \A i \in DOMAIN server.completed : \E o \in case.objects : server.completed[i] = Received(o)
  /\ \A o \in case.objects :
       Len(SelectSeq(accepted, LAMBDA a : a = o)) <= Len(SelectSeq(server.completed, LAMBDA c : c = Received(o)))

\* No packet is longer than the server said it takes: a header of octets has three of its
\* own, a name two for each character and two for its end, a length five in all.
PacketsFit ==
  \A i \in DOMAIN toServer :
    toServer[i].op = "Put" =>
      LET of(v) == CHOOSE o \in case.objects : o.id = v
          len(h) ==
            CASE h.h = "Name" -> 3 + 2 * (Max(of(h.v).name) + 1) [] h.h = "Type" -> 3 + Max(of(h.v).mime) [] h.h = "Length" -> 5
              [] OTHER -> 3 + Octets(h.run)
      IN 3 + FoldSeq(LAMBDA h, n : len(h) + n, 0, toServer[i].headers) <= case.packet

\* A transfer the client gave up on leaves nothing behind that the next could be added to.
NothingLeftOver == Ready /\ client.state \in {"Connected", "Done", "Failed"} => server.inProgress = {}
================================================================================
