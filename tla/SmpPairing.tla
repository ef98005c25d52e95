------------------------------ MODULE SmpPairing ------------------------------
(***************************************************************************)
(* The Security Manager (smp/pairing.rs) at both ends of one LE link, with *)
(* the connection record and the bond store its device keeps               *)
(* (device/virtual_device.rs): feature exchange, legacy and Secure         *)
(* Connections key agreement, key distribution, the 30 second timer, and   *)
(* starting again on the same link or on a new one.                        *)
(*                                                                         *)
(* PDUs are well formed and arrive in order; each handler drains what it   *)
(* queued (host.rs, drain_smp).  Nonces and public keys are fresh numbers  *)
(* and a derived value is the tuple of what it is derived from, so two     *)
(* values are equal exactly when their inputs are.  MITM protection and IO *)
(* capabilities change nothing in this code but bits of the requests.      *)
(***************************************************************************)
EXTENDS Naturals, Sequences, SequencesExt

CONSTANTS Configs,    \* the PairingConfigs an initiator may start with
          Starters,   \* the ends whose hosts call start_pairing
          Defers,     \* the ends that hold back their keys until Encryption Change
          MaxStarts,  \* bound: start_pairing calls
          MaxLinks,   \* bound: physical links, one after the other
          Restart     \* whether a host starts pairing on a link that has a session

End == {1, 2}
Other(e) == 3 - e
None == <<>>

VARIABLES
  conn,    \* conn[e]: the ConnectionState of end e
  bond,    \* bond[e]: the key end e's bond store holds for the other
  wire,    \* wire[e]: PDUs on their way to end e
  fresh,   \* the next random value
  starts,  \* start_pairing calls so far
  links    \* physical links so far

vars == <<conn, bond, wire, fresh, starts, links>>

NoConn == [session |-> None, encrypted |-> FALSE, ltk |-> None]

Init ==
  /\ conn = [e \in End |-> NoConn]
  /\ bond = [e \in End |-> None]
  /\ wire = [e \in End |-> <<>>]
  /\ fresh = 1
  /\ starts = 0
  /\ links = 1

\* PairingSession::new; id stands for its key pair and r for r_local.
NewSession(role, config, id) ==
  [role |-> role, phase |-> "Idle", sc |-> config.sc, bonding |-> config.bonding,
   defer |-> config.defer, initKeys |-> config.initKeys, respKeys |-> config.respKeys,
   preq |-> None, pres |-> None, id |-> id, r |-> 0, confirm |-> None, dhKey |-> None,
   stk |-> None, ltk |-> None, ea |-> None, eb |-> None, localLtk |-> None, peerLtk |-> None,
   expected |-> {}, keysSent |-> FALSE, linkEncrypted |-> FALSE,
   isEncrypted |-> FALSE, complete |-> FALSE, failed |-> FALSE, timedOut |-> FALSE,
   timer |-> FALSE, pending |-> <<>>]

Pdu(op, value) == [op |-> op, value |-> value]

\* ltk(): the key that secures the link.
Key(s) == IF s.sc THEN s.ltk ELSE s.stk

\* Mutant of PairingKeys: both roles file their own key under the same name.
KeysUnswapped(s) == IF s.sc THEN <<s.ltk>> ELSE <<s.localLtk, s.peerLtk>>

\* pairing_keys: what a bond keeps; a legacy bond has one key per direction.
PairingKeys(s) ==
  IF s.sc THEN <<s.ltk>>
  ELSE IF s.role = "Initiator" THEN <<s.peerLtk, s.localLtk>> ELSE <<s.localLtk, s.peerLtk>>

--------------------------------------------------------------------------------
(* The session's own steps: each takes a session and returns the next one. *)

Queue(s, pdu) == [s EXCEPT !.pending = Append(@, pdu), !.timer = TRUE]

StopTimer(s) == [s EXCEPT !.timer = FALSE]

Failing(s) ==
  [s EXCEPT !.phase = "Failed", !.failed = TRUE, !.confirm = None, !.dhKey = None,
            !.stk = None, !.ltk = None, !.ea = None, !.eb = None]

Fail(s) == StopTimer(Queue(Failing(s), Pdu("failed", None)))

OnPairingFailed(s) == StopTimer(Failing(s))

\* tick, when it finds the timer expired.
TimedOut(s) == [StopTimer(Failing(s)) EXCEPT !.timedOut = TRUE, !.pending = <<>>]

Features(s) == [sc |-> s.sc, bonding |-> s.bonding, initKeys |-> s.initKeys, respKeys |-> s.respKeys]

\* compute_peer_expected: the PDUs that carry the keys in flags.
KeyPdus(s, flags) ==
  (IF s.sc \/ "ENC" \notin flags THEN {} ELSE {"encryptionInfo", "masterIdentification"})
    \cup (IF "ID" \in flags THEN {"identityInfo", "identityAddrInfo"} ELSE {})
    \cup (IF "SIGN" \in flags THEN {"signingInfo"} ELSE {})

KeyOrder == <<"encryptionInfo", "masterIdentification", "identityInfo", "identityAddrInfo", "signingInfo">>

Started(s) == [s EXCEPT !.phase = "WaitPairingResponse", !.preq = Features(s), !.timer = TRUE]

Negotiated(s, peer) ==
  [s EXCEPT !.sc = @ /\ peer.sc, !.bonding = @ /\ peer.bonding,
            !.initKeys = @ \cap peer.initKeys, !.respKeys = @ \cap peer.respKeys]

OnPairingRequest(s, req) ==
  IF s.role # "Responder" THEN Fail(s)
  ELSE LET n == Negotiated(s, req)
           answered == [n EXCEPT !.preq = req, !.pres = Features(n), !.expected = KeyPdus(n, n.initKeys)]
       IN [Queue(answered, Pdu("response", Features(n)))
             EXCEPT !.phase = IF n.sc THEN "WaitPeerPublicKey" ELSE "WaitPeerConfirm"]

\* c1 over the random value and both feature PDUs, with an all-zero TK.
C1(s, r) == <<"c1", r, s.preq, s.pres>>

SendConfirmLegacy(s, r) == Queue([s EXCEPT !.r = r], Pdu("confirm", C1([s EXCEPT !.r = r], r)))

OnPairingResponse(s, resp, r) ==
  IF s.role # "Initiator" THEN Fail(s)
  ELSE LET got == [s EXCEPT !.pres = resp, !.sc = @ /\ resp.sc, !.bonding = @ /\ resp.bonding]
           n == [got EXCEPT !.initKeys = resp.initKeys, !.respKeys = resp.respKeys,
                            !.expected = KeyPdus(got, resp.respKeys)]
       IN IF ~(resp.initKeys \subseteq s.initKeys /\ resp.respKeys \subseteq s.respKeys) THEN Fail(got)
          ELSE IF n.sc THEN [Queue(n, Pdu("publicKey", n.id)) EXCEPT !.phase = "WaitPeerPublicKey"]
          ELSE [SendConfirmLegacy(n, r) EXCEPT !.phase = "WaitPeerConfirm"]

--------------------------------------------------------------------------------
(* Key distribution. *)

DistributeKeys(s) ==
  LET flags == IF s.role = "Initiator" THEN s.initKeys ELSE s.respKeys
      mine == SelectSeq(KeyOrder, LAMBDA op : op \in KeyPdus(s, flags))
  IN IF s.keysSent THEN s
     ELSE FoldLeft(LAMBDA t, op : Queue(t, Pdu(op, s.localLtk)), [s EXCEPT !.keysSent = TRUE], mine)

OnPeerDistributionComplete(s) ==
  StopTimer([(IF s.role = "Initiator" THEN DistributeKeys(s) ELSE s) EXCEPT !.complete = TRUE])

\* Mutant of OnEncrypted: the timer stops before the keys are distributed.
EncryptedStops(s) ==
  LET done == [s EXCEPT !.isEncrypted = TRUE, !.phase = "Complete"]
      sent == IF s.role = "Responder" /\ (~s.defer \/ s.linkEncrypted) THEN DistributeKeys(done) ELSE done
  IN StopTimer(IF s.expected = {} THEN OnPeerDistributionComplete(sent) ELSE sent)

OnEncrypted(s) ==
  LET done == [s EXCEPT !.isEncrypted = TRUE, !.phase = "Complete"]
      sent == IF s.role = "Responder" /\ (~s.defer \/ s.linkEncrypted) THEN DistributeKeys(done) ELSE done
  IN IF s.expected = {} THEN OnPeerDistributionComplete(sent) ELSE sent

OnLinkEncrypted(s) ==
  LET up == [s EXCEPT !.linkEncrypted = TRUE]
  IN IF s.phase = "Complete" /\ s.role = "Responder" THEN DistributeKeys(up) ELSE up

\* The handlers of the key PDUs; only the peer's long term key is kept here.
CheckDistribution(s, pdu) ==
  LET got == [s EXCEPT !.expected = @ \ {pdu.op},
                       !.peerLtk = IF pdu.op = "encryptionInfo" THEN pdu.value ELSE @]
  IN IF ~s.isEncrypted \/ pdu.op \notin s.expected THEN Fail(got)
     ELSE IF got.expected = {} THEN OnPeerDistributionComplete(got) ELSE got

--------------------------------------------------------------------------------
(* Confirm, random, public key and DHKey check. *)

\* f4 over the sender's and the receiver's public keys.
F4(from, to, r) == <<"f4", from, to, r>>

OnPairingConfirm(s, value, r) ==
  LET got == [s EXCEPT !.confirm = value]
      next == IF s.sc THEN Queue([got EXCEPT !.r = r], Pdu("random", r))
              ELSE IF s.role = "Initiator" THEN Queue(got, Pdu("random", s.r))
              ELSE SendConfirmLegacy(got, r)
  IN IF s.sc /\ s.role = "Responder" THEN Fail(got) ELSE [next EXCEPT !.phase = "WaitPeerRandom"]

\* Mutant of Ordered: each end puts its own value first.
OwnFirst(s, peerRandom) == <<s.r, peerRandom>>

\* The two random values, the initiator's first.
Ordered(s, peerRandom) == IF s.role = "Initiator" THEN <<s.r, peerRandom>> ELSE <<peerRandom, s.r>>

OnRandomLegacy(s, value) ==
  IF s.confirm = None \/ C1(s, value) # s.confirm THEN Fail(s)
  ELSE LET keyed == [s EXCEPT !.stk = <<"stk">> \o Ordered(s, value), !.localLtk = <<"bonded", s.r>>]
       IN OnEncrypted(IF s.role = "Responder" THEN Queue(keyed, Pdu("random", s.r)) ELSE keyed)

\* finish_sc_random_exchange: f5 and, over the features of either end, f6.
FinishRandomExchange(s, value) ==
  LET ltk == <<"ltk", s.dhKey>> \o Ordered(s, value)
  IN [s EXCEPT !.ltk = ltk, !.ea = <<"ea", ltk, s.preq>>, !.eb = <<"eb", ltk, s.pres>>]

OnRandomSc(s, value) ==
  IF s.dhKey = None THEN Fail(s)
  ELSE IF s.role = "Responder"
       THEN [FinishRandomExchange(Queue(s, Pdu("random", s.r)), value) EXCEPT !.phase = "WaitPeerDhKeyCheck"]
  ELSE IF s.confirm = None \/ F4(s.dhKey[2], s.id, value) # s.confirm THEN Fail(s)
  ELSE LET t == FinishRandomExchange(s, value)
       IN [Queue(t, Pdu("dhkeyCheck", t.ea)) EXCEPT !.phase = "WaitPeerDhKeyCheck"]

\* The Diffie-Hellman key is the pair of public keys, the initiator's first.
OnPublicKey(s, id, r) ==
  IF s.role = "Initiator" THEN [s EXCEPT !.dhKey = <<s.id, id>>, !.phase = "WaitPeerConfirm"]
  ELSE LET t == [s EXCEPT !.dhKey = <<id, s.id>>, !.r = r, !.phase = "WaitPeerRandom"]
       IN Queue(Queue(t, Pdu("publicKey", s.id)), Pdu("confirm", F4(s.id, id, r)))

OnDhkeyCheck(s, value) ==
  IF value # (IF s.role = "Initiator" THEN s.eb ELSE s.ea) THEN Fail(s)
  ELSE OnEncrypted(IF s.role = "Responder" THEN Queue(s, Pdu("dhkeyCheck", s.eb)) ELSE s)

\* step: a failed session drops everything.
Step(s, pdu, r) ==
  CASE s.failed -> s
    [] ~s.failed /\ pdu.op = "request" -> OnPairingRequest(s, pdu.value)
    [] ~s.failed /\ pdu.op = "response" -> OnPairingResponse(s, pdu.value, r)
    [] ~s.failed /\ pdu.op = "confirm" -> OnPairingConfirm(s, pdu.value, r)
    [] ~s.failed /\ pdu.op = "random" -> IF s.sc THEN OnRandomSc(s, pdu.value) ELSE OnRandomLegacy(s, pdu.value)
    [] ~s.failed /\ pdu.op = "failed" -> OnPairingFailed(s)
    [] ~s.failed /\ pdu.op = "publicKey" -> OnPublicKey(s, pdu.value, r)
    [] ~s.failed /\ pdu.op = "dhkeyCheck" -> OnDhkeyCheck(s, pdu.value)
    [] OTHER -> CheckDistribution(s, pdu)

--------------------------------------------------------------------------------
(* The device around the session. *)

\* The connection after its session ran, with the queue drained to the peer.
Applied(e, s) ==
  /\ conn' = [conn EXCEPT ![e] = [session |-> [s EXCEPT !.pending = <<>>],
                                  encrypted |-> s.isEncrypted, ltk |-> Key(s)]]
  /\ wire' = [wire EXCEPT ![Other(e)] = @ \o s.pending]

\* maybe_record_bond
RecordBond(e, s) ==
  bond' = IF s.complete /\ s.bonding THEN [bond EXCEPT ![e] = PairingKeys(s)] ELSE bond

DefaultConfig(e) ==
  [sc |-> TRUE, bonding |-> TRUE, defer |-> e \in Defers,
   initKeys |-> {"ENC", "ID"}, respKeys |-> {"ENC", "ID"}]

\* process_smp_packet: a Pairing Request makes a session where there is none.
Receive(e) ==
  /\ wire[e] # <<>>
  /\ LET pdu == Head(wire[e])
         known == conn[e].session # None
         s == IF known THEN conn[e].session ELSE NewSession("Responder", DefaultConfig(e), fresh)
         t == Step(s, pdu, fresh + 1)
     IN IF known \/ pdu.op = "request"
        THEN /\ conn' = [conn EXCEPT ![e] = [session |-> [t EXCEPT !.pending = <<>>],
                                             encrypted |-> t.isEncrypted, ltk |-> Key(t)]]
             /\ wire' = [wire EXCEPT ![e] = Tail(@), ![Other(e)] = @ \o t.pending]
             /\ RecordBond(e, t)
             /\ fresh' = fresh + 2
        ELSE /\ wire' = [wire EXCEPT ![e] = Tail(@)]
             /\ UNCHANGED <<conn, bond, fresh>>
  /\ UNCHANGED <<starts, links>>

\* start_pairing_with_config: the old session is replaced unless it timed out.
StartPairing(e, config) ==
  /\ e \in Starters
  /\ starts < MaxStarts
  /\ conn[e].session # None => Restart /\ ~conn[e].session.timedOut
  /\ LET s == Started(NewSession("Initiator", config, fresh))
     IN /\ conn' = [conn EXCEPT ![e].session = s]
        /\ wire' = [wire EXCEPT ![Other(e)] = Append(@, Pdu("request", s.preq))]
  /\ fresh' = fresh + 1
  /\ starts' = starts + 1
  /\ UNCHANGED <<bond, links>>

\* tick_smp, 30 seconds after the session last queued a PDU.
Expire(e) ==
  /\ conn[e].session # None
  /\ conn[e].session.timer
  /\ conn' = [conn EXCEPT ![e] = [session |-> TimedOut(conn[e].session), encrypted |-> FALSE, ltk |-> None]]
  /\ UNCHANGED <<bond, wire, fresh, starts, links>>

\* The controllers of both ends were given the same key, and e was not told yet.
Encrypting(e) ==
  /\ \A d \in End : conn[d].encrypted /\ conn[d].ltk = conn[e].ltk
  /\ ~conn[e].session.linkEncrypted

\* on_encryption_changed
EncryptionChanged(e) ==
  /\ Encrypting(e)
  /\ LET s == OnLinkEncrypted(conn[e].session)
     IN Applied(e, s) /\ RecordBond(e, s)
  /\ UNCHANGED <<fresh, starts, links>>

\* on_disconnected at both ends, then on_connected_with_role: what was under way is lost.
NewLink ==
  /\ links < MaxLinks
  /\ links' = links + 1
  /\ conn' = [e \in End |-> NoConn]
  /\ wire' = [e \in End |-> <<>>]
  /\ UNCHANGED <<bond, fresh, starts>>

Next ==
  \/ \E e \in End, config \in Configs : StartPairing(e, config)
  \/ \E e \in End : Receive(e) \/ Expire(e) \/ EncryptionChanged(e)
  \/ NewLink

Spec == Init /\ [][Next]_vars

\* The engine delivers and ticks for ever, and an encrypted link tells both hosts.
FairSpec == Spec /\ \A e \in End : WF_vars(Receive(e)) /\ WF_vars(Expire(e)) /\ WF_vars(EncryptionChanged(e))
--------------------------------------------------------------------------------
(* Properties. *)

InProgress(e) ==
  conn[e].session # None /\ ~conn[e].session.complete /\ ~conn[e].session.failed

\* Two ends whose pairing stands and who both hold the link for encrypted hold it
\* with the same key, whichever of them started or restarted (process_smp_packet).
KeysAgree ==
  (\A e \in End : conn[e].encrypted /\ conn[e].session # None /\ ~conn[e].session.failed)
    => conn[1].ltk = conn[2].ltk

\* Once both ends have finished a pairing, what they stored of it opens the same
\* link again: the SC key, or for a legacy bond the key of each direction
\* (pairing_keys, maybe_record_bond).
BondsAgree ==
  (\A e \in End : /\ conn[e].session # None /\ conn[e].session.complete /\ ~conn[e].session.failed
                  /\ conn[e].session.bonding
                  /\ conn[e].session.sc \/ "ENC" \in conn[e].session.initKeys \cap conn[e].session.respKeys)
    => bond[1] = bond[2]

\* A session that failed leaves its link neither encrypted nor keyed
\* (tick_smp: "unkeyed and unencrypted, exactly as if the pairing had never happened").
FailedUnkeyed ==
  \A e \in End : conn[e].session # None /\ conn[e].session.failed => ~conn[e].encrypted /\ conn[e].ltk = None

\* No pairing hangs: whatever is lost to a failed or replaced session at the other
\* end, the timer of this end runs until its own session completes or fails.
PairingSettles == \A e \in End : InProgress(e) ~> ~InProgress(e)

\* A pairing nobody gives up on completes at both ends with its keys
\* distributed, deferred or not: when nothing is under way, on the wire or in
\* the controllers, no session is still in progress but one that waits for a
\* session that timed out (on_encrypted, on_link_encrypted, check_distribution).
PairingCompletes ==
  (\A e \in End : /\ wire[e] = <<>>
                  /\ ~Encrypting(e)
                  /\ conn[e].session # None => ~conn[e].session.timedOut)
    => \A e \in End : ~InProgress(e)

\* A completed session keeps its key for as long as the link lasts
\* (on_peer_distribution_complete: stopping the timer "keeps a long-lived bonded
\* connection from timing out its own completed session").
CompletedStays ==
  [][\A e \in End : conn[e].session # None /\ conn[e].session.complete /\ links' = links
        => conn'[e].session.complete /\ ~conn'[e].session.timedOut]_vars
================================================================================
