------------------------------- MODULE RfcommMux -------------------------------
(***************************************************************************)
(* Two RFCOMM multiplexers (classic/rfcomm.rs) over one L2CAP channel:     *)
(* starting the session, opening and closing data link connections from    *)
(* either end, refusing them, and ending the session.                      *)
(*                                                                         *)
(* Each multiplexer is a state machine driven by its host's calls and by   *)
(* the frames that arrive, in order; calls of both hosts cross on the      *)
(* wire.  Frames are well formed, and the data a connection carries is     *)
(* RfcommDlc's subject.  Modem status commands (MSC), and the NSC that     *)
(* answers an unknown command, change no state and are left out.  Both     *)
(* ends are this code, so a PN always asks for credit flow control.        *)
(***************************************************************************)
EXTENDS Naturals, Sequences

CONSTANTS Channels,  \* server channel numbers; a connection's DLCI is twice that
          Listened,  \* Listened[e]: the channels end e listens on
          MaxWire,   \* bound: frames under way when a host makes a call
          Ops        \* <<e, call>>: the calls the hosts of this instance make

End == {1, 2}  \* the initiator and the responder

Other(e) == 3 - e

None == 0  \* no channel

VARIABLES
  state,    \* state[e]: MultiplexerState
  dlcs,     \* dlcs[e][c]: DlcState, "none" for a connection not in the map
  pending,  \* pending[e]: the channel of the PN command awaiting its response
  wire,     \* wire[e]: frames end e sent that have not arrived
  told,     \* told[e]: channels host e was told are open and not told are closed
  openDue   \* openDue[e]: open_dlc calls of host e without DlcOpened or DlcOpenRejected

vars == <<state, dlcs, pending, wire, told, openDue>>

Closed == [c \in Channels |-> "none"]

Init ==
  /\ state = [e \in End |-> "Init"]
  /\ dlcs = [e \in End |-> Closed]
  /\ pending = [e \in End |-> None]
  /\ wire = [e \in End |-> <<>>]
  /\ told = [e \in End |-> {}]
  /\ openDue = [e \in End |-> {}]

Frame(type, c) == [type |-> type, channel |-> c]

--------------------------------------------------------------------------------
(* The hosts' calls. *)

Call(e, call, type, c) ==
  /\ <<e, call>> \in Ops
  /\ Len(wire[e]) < MaxWire
  /\ wire' = [wire EXCEPT ![e] = Append(@, Frame(type, c))]

Start ==
  /\ state[1] = "Init"
  /\ Call(1, "start", "SABM", None)
  /\ state' = [state EXCEPT ![1] = "Connecting"]
  /\ UNCHANGED <<dlcs, pending, told, openDue>>

\* A host opens a channel it does not have open.
OpenDlc(e, c) ==
  /\ state[e] = "Connected"
  /\ c \notin told[e]
  /\ Call(e, "open", "PN", c)
  /\ pending' = [pending EXCEPT ![e] = c]
  /\ state' = [state EXCEPT ![e] = "Opening"]
  /\ openDue' = [openDue EXCEPT ![e] = @ \cup {c}]
  /\ UNCHANGED <<dlcs, told>>

CloseDlc(e, c) ==
  /\ dlcs[e][c] = "Connected"
  /\ Call(e, "close", "DISC", c)
  /\ dlcs' = [dlcs EXCEPT ![e][c] = "Disconnecting"]
  /\ UNCHANGED <<state, pending, told, openDue>>

Disconnect(e) ==
  /\ state[e] = "Connected"
  /\ Call(e, "disconnect", "DISC", None)
  /\ state' = [state EXCEPT ![e] = "Disconnecting"]
  /\ UNCHANGED <<dlcs, pending, told, openDue>>

--------------------------------------------------------------------------------
(* Multiplexer::receive, one action per kind of frame.  Each takes the frame *)
(* at the head of the other end's wire and sends its replies.                *)

Arriving(e, type) ==
  /\ wire[Other(e)] # <<>>
  /\ Head(wire[Other(e)]).type = type

At(e) == Head(wire[Other(e)]).channel

Reply(e, frames) ==
  wire' = [wire EXCEPT ![Other(e)] = Tail(@), ![e] = @ \o frames]

Quiet(e) == Reply(e, <<>>) /\ UNCHANGED <<state, dlcs, pending, told, openDue>>

OnSabm(e) ==
  /\ Arriving(e, "SABM") /\ At(e) = None
  /\ IF state[e] = "Init"
     THEN /\ state' = [state EXCEPT ![e] = "Connected"]
          /\ Reply(e, <<Frame("UA", None)>>)
          /\ UNCHANGED <<dlcs, pending, told, openDue>>
     ELSE Quiet(e)

\* Mutant of CloseAllDlcs: the connections stay.
KeepDlcs(e) == UNCHANGED <<dlcs, told, openDue>>

\* close_all_dlcs: every connection goes, and its host is told.
CloseAllDlcs(e) ==
  /\ dlcs' = [dlcs EXCEPT ![e] = Closed]
  /\ told' = [told EXCEPT ![e] = {}]
  /\ openDue' = [openDue EXCEPT ![e] = {}]

OnUa(e) ==
  /\ Arriving(e, "UA") /\ At(e) = None
  /\ CASE state[e] = "Connecting" ->
            /\ state' = [state EXCEPT ![e] = "Connected"]
            /\ Reply(e, <<>>)
            /\ UNCHANGED <<dlcs, pending, told, openDue>>
       [] state[e] = "Disconnecting" ->
            /\ state' = [state EXCEPT ![e] = "Disconnected"]
            /\ CloseAllDlcs(e)
            /\ Reply(e, <<>>)
            /\ UNCHANGED pending
       [] OTHER -> Quiet(e)

OnDisc(e) ==
  /\ Arriving(e, "DISC") /\ At(e) = None
  /\ state' = [state EXCEPT ![e] = "Disconnected"]
  /\ CloseAllDlcs(e)
  /\ Reply(e, <<Frame("UA", None)>>)
  /\ UNCHANGED pending

\* Mutant of OnDm: a refusal is left to the connection, which does not exist yet.
DmForDlc(e) == Arriving(e, "DM") /\ Quiet(e)

\* A refusal answers whatever open is in progress.
OnDm(e) ==
  /\ Arriving(e, "DM")
  /\ IF state[e] = "Opening"
     THEN /\ state' = [state EXCEPT ![e] = "Connected"]
          /\ pending' = [pending EXCEPT ![e] = None]
          /\ openDue' = [openDue EXCEPT ![e] = @ \ {At(e)}]
          /\ Reply(e, <<>>)
          /\ UNCHANGED <<dlcs, told>>
     ELSE Quiet(e)

OnPnCommand(e) ==
  /\ Arriving(e, "PN")
  /\ IF At(e) \in Listened[e]
     THEN /\ dlcs' = [dlcs EXCEPT ![e][At(e)] = "Connecting"]
          /\ Reply(e, <<Frame("PNR", At(e))>>)
     ELSE /\ Reply(e, <<Frame("DM", At(e))>>)
          /\ UNCHANGED dlcs
  /\ UNCHANGED <<state, pending, told, openDue>>

OnPnResponse(e) ==
  /\ Arriving(e, "PNR")
  /\ IF state[e] = "Opening" /\ pending[e] # None
     THEN /\ pending' = [pending EXCEPT ![e] = None]
          /\ dlcs' = [dlcs EXCEPT ![e][At(e)] = "Connecting"]
          /\ Reply(e, <<Frame("SABM", At(e))>>)
          /\ UNCHANGED <<state, told, openDue>>
     ELSE Quiet(e)

\* The connection is open: the host hears of it, and the session is Connected.
Opened(e, c, frames) ==
  /\ dlcs' = [dlcs EXCEPT ![e][c] = "Connected"]
  /\ state' = [state EXCEPT ![e] = "Connected"]
  /\ told' = [told EXCEPT ![e] = @ \cup {c}]
  /\ openDue' = [openDue EXCEPT ![e] = @ \ {c}]
  /\ Reply(e, frames)
  /\ UNCHANGED pending

OnDlcSabm(e) ==
  /\ Arriving(e, "SABM") /\ At(e) # None
  /\ CASE dlcs[e][At(e)] = "Connecting"
            \/ (dlcs[e][At(e)] = "none" /\ At(e) \in Listened[e]) ->
            Opened(e, At(e), <<Frame("UA", At(e))>>)
       [] dlcs[e][At(e)] = "none" /\ At(e) \notin Listened[e] ->
            /\ Reply(e, <<Frame("DM", At(e))>>)
            /\ UNCHANGED <<state, dlcs, pending, told, openDue>>
       [] OTHER -> Quiet(e)

DlcGone(e, c, frames) ==
  /\ dlcs' = [dlcs EXCEPT ![e][c] = "none"]
  /\ told' = [told EXCEPT ![e] = @ \ {c}]
  /\ Reply(e, frames)
  /\ UNCHANGED <<state, pending, openDue>>

OnDlcUa(e) ==
  /\ Arriving(e, "UA") /\ At(e) # None
  /\ CASE dlcs[e][At(e)] = "Connecting" -> Opened(e, At(e), <<>>)
       [] dlcs[e][At(e)] = "Disconnecting" -> DlcGone(e, At(e), <<>>)
       [] OTHER -> Quiet(e)

\* A DISC closes the connection in whatever state it is.
OnDlcDisc(e) ==
  /\ Arriving(e, "DISC") /\ At(e) # None
  /\ IF dlcs[e][At(e)] # "none"
     THEN DlcGone(e, At(e), <<Frame("UA", At(e))>>)
     ELSE /\ Reply(e, <<Frame("DM", At(e))>>)
          /\ UNCHANGED <<state, dlcs, pending, told, openDue>>

Receive(e) ==
  \/ OnSabm(e)
  \/ OnUa(e)
  \/ OnDisc(e)
  \/ OnDm(e)
  \/ OnPnCommand(e)
  \/ OnPnResponse(e)
  \/ OnDlcSabm(e)
  \/ OnDlcUa(e)
  \/ OnDlcDisc(e)

Next ==
  \/ Start
  \/ \E e \in End :
       \/ \E c \in Channels : OpenDlc(e, c) \/ CloseDlc(e, c)
       \/ Disconnect(e)
       \/ Receive(e)

Spec == Init /\ [][Next]_vars

\* L2CAP delivers what is sent; hosts may call or not.
FairSpec == Spec /\ \A e \in End : WF_vars(Receive(e))

--------------------------------------------------------------------------------
(***************************************************************************)
(* Properties.                                                             *)
(***************************************************************************)

Settled == \A e \in End : wire[e] = <<>>

\* When nothing is under way, both ends have the same connections and both hosts
\* know exactly those, and the session is over at both ends or at neither, and then
\* no connection is left, after any crossing of opens, refusals, closes and a
\* disconnect: "A DLC cannot outlive its session" (close_all_dlcs).  Holds while only
\* the initiator ends the session and opens connections; a disconnect of the
\* responder that crosses the SABM of a connection leaves the responder connected to
\* a session that is gone.
SessionsAgree ==
  Settled =>
    /\ (state[1] = "Disconnected") = (state[2] = "Disconnected")
    /\ \A e \in End : state[e] = "Disconnected" => dlcs[e] = Closed
    /\ \A c \in Channels :
         /\ dlcs[1][c] = dlcs[2][c]
         /\ \A e \in End : c \in told[e] <=> dlcs[e][c] = "Connected"

\* Every open_dlc is answered, with the open connection, a refusal or the end of the
\* session.  Holds while only the initiator opens; "Either role may call this once
\* connected" (open_dlc), but a connection the other end opens meanwhile resets the
\* multiplexer from Opening to Connected, and the response is then ignored.
OpenAnswered ==
  \A e \in End, c \in Channels : c \in openDue[e] ~> c \notin openDue[e]

================================================================================
