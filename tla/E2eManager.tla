----------------------------- MODULE E2eManager -----------------------------
(***************************************************************************)
(* One client's end-to-end encryption controller for one conversation      *)
(* (src/e2e/manager.rs over src/e2e/keyring.rs): its keyring tables, the   *)
(* in-memory handshake state, and one action per handler or /e2e command.  *)
(*                                                                         *)
(* An ident@host string is a member of Handles, the fingerprint of a       *)
(* long-term identity key a member of Fps.  Session keys and handshake     *)
(* ephemerals are random in the code; the n-th one a client draws is the   *)
(* number n here, and 0 is the zero-filled placeholder (or no key).        *)
(* Signature, AEAD and ECDH are perfect: a message is taken only from the  *)
(* identity that made it and opened only by the identity it was wrapped    *)
(* for.  The module has no Next: E2eClient closes it with an environment,  *)
(* E2eConversation composes two copies over a network.                     *)
(***************************************************************************)
EXTENDS Naturals, Sequences, FiniteSets

CONSTANTS Handles,   \* ident@host values other users can have
          Fps,       \* fingerprints of their identities
          NoHandle,  \* no ident@host
          NoFp       \* no fingerprint

ASSUME NoHandleAssumption == NoHandle \notin Handles
ASSUME NoFpAssumption == NoFp \notin Fps

VARIABLES
  peers,       \* e2e_peers: fingerprint -> [handle, status], NoHandle = no row
  incoming,    \* e2e_incoming_sessions: handle -> [fp, key, status]
  outgoing,    \* e2e_outgoing_sessions: our key and its pending_rotation flag
  recipients,  \* e2e_outgoing_recipients: handle -> fingerprint, or NoFp
  mode,        \* e2e_channel_config: "disabled" or the ChannelMode
  autotrust,   \* handles that some e2e_autotrust pattern matches
  pending,     \* E2eManager.pending: our KEYREQs still awaiting a KEYRSP
  lastEph,     \* number of ephemerals drawn so far
  inbound,     \* E2eManager.pending_inbound: handle -> [fp, eph]
  rekeys,      \* E2eManager.pending_rekey_sends, per target handle
  lane         \* what we have sent, per handle it is relayed to, in order

keyring  == <<peers, incoming, outgoing, recipients, mode, autotrust>>
volatile == <<pending, inbound, rekeys>>
managerVars == <<peers, incoming, outgoing, recipients, mode, autotrust,
                 pending, lastEph, inbound, rekeys, lane>>

Modes == {"auto", "normal", "quiet"}
NoPeer    == [handle |-> NoHandle, status |-> "none"]
NoSession == [fp |-> NoFp, key |-> 0, status |-> "none"]
NoRequest == [fp |-> NoFp, eph |-> 0]

MsgTypes == {"KEYREQ", "KEYRSP", "REKEY", "RPE2E01", "PLAIN"}
Msg(type, eph, key, fp) == [type |-> type, eph |-> eph, key |-> key, for |-> fp]
Msgs == [type : MsgTypes, eph : Nat, key : Nat, for : Fps \cup {NoFp}]

Statuses == {"none", "pending", "trusted", "revoked"}
PeerRows == [handle : Handles \cup {NoHandle}, status : Statuses]
Sessions == [fp : Fps \cup {NoFp}, key : Nat, status : Statuses]
KeyRows  == [key : Nat, rotate : BOOLEAN]
Requests == [fp : Fps \cup {NoFp}, eph : Nat]
Asks     == [eph : Nat, to : Handles \cup {NoHandle}]
Wraps    == [fp : Fps, key : Nat]

(* Types of the tables; every reachable state satisfies it. *)
ManagerTypeOK ==
  /\ peers \in [Fps -> PeerRows]
  /\ incoming \in [Handles -> Sessions]
  /\ outgoing \in KeyRows
  /\ recipients \in [Handles -> Fps \cup {NoFp}]
  /\ mode \in Modes \cup {"disabled"}
  /\ autotrust \in SUBSET Handles
  /\ pending \in SUBSET Asks
  /\ lastEph \in Nat
  /\ inbound \in [Handles -> Requests]
  /\ rekeys \in [Handles -> Seq(Wraps)]
  /\ lane \in [Handles -> Seq(Msgs)]

ManagerInit ==
  /\ peers = [fp \in Fps |-> NoPeer]
  /\ incoming = [h \in Handles |-> NoSession]
  /\ outgoing = [key |-> 0, rotate |-> FALSE]
  /\ recipients = [h \in Handles |-> NoFp]
  /\ mode = "disabled"
  /\ autotrust = {}
  /\ pending = {}
  /\ lastEph = 0
  /\ inbound = [h \in Handles |-> NoRequest]
  /\ rekeys = [h \in Handles |-> <<>>]
  /\ lane = [h \in Handles |-> <<>>]

-----------------------------------------------------------------------------
(* Reads of the keyring.                                                   *)

Pinned(fp) == peers[fp].handle # NoHandle
Trusted(h) == incoming[h].status = "trusted"
HasSession(h) == incoming[h].fp # NoFp
EffectiveMode(h) ==
  IF mode # "disabled" /\ h \in autotrust THEN "auto" ELSE mode

(* Mutant of Classify: an identity that is not pinned yet is new whether   *)
(* or not another one is pinned at the handle.                             *)
ClassifyIgnoringHandle(fp, h) ==
  CASE Pinned(fp) /\ peers[fp].status = "revoked" -> "Revoked"
    [] Pinned(fp) /\ peers[fp].status # "revoked"
         /\ peers[fp].handle # h                  -> "HandleChanged"
    [] Pinned(fp) /\ peers[fp].status # "revoked"
         /\ peers[fp].handle = h                  -> "Known"
    [] OTHER                                      -> "New"

(* TOFU: what the keyring makes of identity fp speaking from handle h.     *)
Classify(fp, h) ==
  CASE Pinned(fp) /\ peers[fp].status = "revoked"      -> "Revoked"
    [] Pinned(fp) /\ peers[fp].status # "revoked"
         /\ peers[fp].handle # h                       -> "HandleChanged"
    [] Pinned(fp) /\ peers[fp].status # "revoked"
         /\ peers[fp].handle = h                       -> "Known"
    [] ~Pinned(fp) /\ (\E g \in Fps : peers[g].handle = h)
                                                       -> "FingerprintChanged"
    [] OTHER                                           -> "New"

(* Mutant of Acceptable: an identity seen for the first time is refused.   *)
AcceptableKnownOnly(fp, h) == Classify(fp, h) = "Known"
Acceptable(fp, h) == Classify(fp, h) \in {"New", "Known"}

(* install_incoming_session_strict: the row of h is never taken over by    *)
(* another fingerprint.                                                    *)
InstallStrict(h, sess) ==
  IF incoming[h].fp \in {NoFp, sess.fp}
  THEN [incoming EXCEPT ![h] = sess] ELSE incoming

(* update_incoming_status is an UPDATE: it never creates a row.            *)
WithStatus(h, status) ==
  IF HasSession(h) THEN [incoming EXCEPT ![h].status = status] ELSE incoming

-----------------------------------------------------------------------------
(* get_or_generate_outgoing_key: the key in use, or a fresh one when there *)
(* is none or the current one is flagged; a rotation queues a REKEY for    *)
(* every recipient that has a row in the peer table pt.                    *)
(* Mutants of the next three: the rotation flag is not looked at; the key  *)
(* is regenerated for every line; no REKEY for a peer answered in auto     *)
(* mode whose row is still pending.                                        *)
NeedsFreshKeyIgnoringRotation == outgoing.key = 0
KeyToUseAlwaysFresh == outgoing.key + 1
NeedsFreshKey == outgoing.key = 0 \/ outgoing.rotate
KeyToUse == IF NeedsFreshKey THEN outgoing.key + 1 ELSE outgoing.key
QueuedRekeysTrustedOnly(pt) ==
  [h \in Handles |->
     IF /\ outgoing.key # 0 /\ outgoing.rotate
        /\ recipients[h] # NoFp
        /\ pt[recipients[h]].status = "trusted"
     THEN Append(rekeys[h], [fp |-> recipients[h], key |-> KeyToUse])
     ELSE rekeys[h]]
QueuedRekeys(pt) ==
  [h \in Handles |->
     IF /\ outgoing.key # 0 /\ outgoing.rotate
        /\ recipients[h] # NoFp
        /\ pt[recipients[h]].handle # NoHandle
     THEN Append(rekeys[h], [fp |-> recipients[h], key |-> KeyToUse])
     ELSE rekeys[h]]
TakeKey(pt) ==
  /\ outgoing' = [key |-> KeyToUse, rotate |-> FALSE]
  /\ rekeys' = QueuedRekeys(pt)

(* build_keyreq_for_peer.                                                  *)
NewRequest(to) ==
  /\ pending' = pending \cup {[eph |-> lastEph + 1, to |-> to]}
  /\ lastEph' = lastEph + 1

(* Answer the KEYREQ of fp at h with our key and, when we hold no trusted  *)
(* session for h and the limiter allows it, a KEYREQ of our own behind it. *)
Serve(h, fp, eph, allowOut, pt) ==
  LET rsp == Msg("KEYRSP", eph, KeyToUse, fp) IN
  /\ TakeKey(pt)
  /\ recipients' = [recipients EXCEPT ![h] = fp]
  /\ \/ /\ ~Trusted(h) /\ allowOut
        /\ NewRequest(h)
        /\ lane' = [lane EXCEPT ![h] =
                      @ \o <<rsp, Msg("KEYREQ", lastEph + 1, 0, NoFp)>>]
     \/ /\ Trusted(h) \/ ~allowOut
        /\ lane' = [lane EXCEPT ![h] = Append(@, rsp)]
        /\ UNCHANGED <<pending, lastEph>>

-----------------------------------------------------------------------------
(* Handshake traffic.                                                      *)

WithPeer(fp, h, status) ==
  [peers EXCEPT ![fp] = [handle |-> h, status |-> status]]
SeenPeer(fp, h) ==
  WithPeer(fp, h, IF Pinned(fp) THEN peers[fp].status ELSE "pending")

(* A KEYREQ that the policy answers at once.                               *)
ServeKeyReq(h, fp, eph, allowOut) ==
  /\ mode # "disabled" /\ Acceptable(fp, h)
  /\ EffectiveMode(h) = "auto" \/ Trusted(h)
  /\ peers' = SeenPeer(fp, h)
  /\ Serve(h, fp, eph, allowOut, peers')
  /\ UNCHANGED <<incoming, mode, autotrust, inbound>>

(* Normal mode, peer not trusted here: a placeholder row with a zero key,  *)
(* and the request kept for /e2e accept.                                   *)
CacheKeyReq(h, fp, eph) ==
  /\ Acceptable(fp, h)
  /\ EffectiveMode(h) = "normal" /\ ~Trusted(h)
  /\ peers' = SeenPeer(fp, h)
  /\ incoming' = InstallStrict(h, [fp |-> fp, key |-> 0, status |-> "pending"])
  /\ inbound' = [inbound EXCEPT ![h] = [fp |-> fp, eph |-> eph]]
  /\ UNCHANGED <<outgoing, recipients, mode, autotrust, pending, lastEph,
                 rekeys, lane>>

(* Quiet mode, peer not trusted here: only the peer row is touched.        *)
IgnoreKeyReq(h, fp) ==
  /\ Acceptable(fp, h)
  /\ EffectiveMode(h) = "quiet" /\ ~Trusted(h)
  /\ peers' = SeenPeer(fp, h)
  /\ UNCHANGED <<incoming, outgoing, recipients, mode, autotrust, pending,
                 lastEph, inbound, rekeys, lane>>

(* A KEYRSP from fp at h with its key, wrapped to our ephemeral eph.  The  *)
(* pending entry is consumed before the identity is classified.            *)
ReceiveKeyRsp(h, fp, eph, key) ==
  /\ \E p \in pending : p.eph = eph
  /\ pending' = {p \in pending : p.eph # eph}
  /\ \/ /\ Acceptable(fp, h)
        /\ peers' = WithPeer(fp, h, "trusted")
        /\ incoming' = InstallStrict(h, [fp |-> fp, key |-> key,
                                         status |-> "trusted"])
     \/ ~Acceptable(fp, h) /\ UNCHANGED <<peers, incoming>>
  /\ UNCHANGED <<outgoing, recipients, mode, autotrust, lastEph, inbound,
                 rekeys, lane>>

(* A REKEY from fp at h with its new key, wrapped to our identity.         *)
ReceiveRekey(h, fp, key) ==
  /\ Classify(fp, h) = "Known"
  /\ incoming' = InstallStrict(h, [fp |-> fp, key |-> key,
                                   status |-> "trusted"])
  /\ UNCHANGED <<peers, outgoing, recipients, mode, autotrust, pending,
                 lastEph, inbound, rekeys, lane>>

(* What decrypt_incoming makes of a chunk sent from h under key.           *)
DecryptOutcome(h, key) ==
  CASE ~HasSession(h)                         -> "MissingKey"
    [] HasSession(h) /\ ~Trusted(h)           -> "Rejected"
    [] Trusted(h) /\ incoming[h].key # key    -> "Rejected"
    [] OTHER                                  -> "Plaintext"

(* The only chunk that changes state: no session row, so ask for the key,  *)
(* whatever the conversation's mode is.                                    *)
RequestMissingKey(h, key) ==
  /\ DecryptOutcome(h, key) = "MissingKey"
  /\ NewRequest(h)
  /\ lane' = [lane EXCEPT ![h] = Append(@, Msg("KEYREQ", lastEph + 1, 0, NoFp))]
  /\ UNCHANGED <<peers, incoming, outgoing, recipients, mode, autotrust,
                 inbound, rekeys>>

-----------------------------------------------------------------------------
(* Sending a line.  The encrypted line goes to everyone present; then the  *)
(* queued REKEYs follow, each to the user whose ident@host it names, and   *)
(* the ones no user of the buffer matches are dropped.                     *)
RekeyMsgs(queue) ==
  [i \in 1 .. Len(queue) |-> Msg("REKEY", 0, queue[i].key, queue[i].fp)]
Sent(present, line, queues, resolved) ==
  [h \in Handles |->
     (IF h \in present THEN Append(lane[h], line) ELSE lane[h]) \o
     (IF h \in resolved THEN RekeyMsgs(queues[h]) ELSE <<>>)]
SendLine(present, resolved, line) ==
  /\ lane' = Sent(present, line, QueuedRekeys(peers), resolved)
  /\ rekeys' = [h \in Handles |-> <<>>]
  /\ outgoing' = [key |-> KeyToUse, rotate |-> FALSE]
  /\ UNCHANGED <<peers, incoming, recipients, mode, autotrust, pending,
                 lastEph, inbound>>

EncryptLine(present, resolved) ==
  /\ mode # "disabled"
  /\ SendLine(present, resolved, Msg("RPE2E01", 0, KeyToUse, NoFp))

(* A line of more than MAX_CHUNKS chunks: the key is taken (and rotated)   *)
(* first, then splitting fails and the line goes out unencrypted.          *)
EncryptOversizeLine(present, resolved) ==
  /\ mode # "disabled"
  /\ SendLine(present, resolved, Msg("PLAIN", 0, 0, NoFp))

(* A line in another encrypted conversation drains the same queue, against *)
(* the users of that buffer.                                               *)
EncryptElsewhere(resolved) ==
  /\ lane' = Sent({}, Msg("RPE2E01", 0, 0, NoFp), rekeys, resolved)
  /\ rekeys' = [h \in Handles |-> <<>>]
  /\ UNCHANGED <<peers, incoming, outgoing, recipients, mode, autotrust,
                 pending, lastEph, inbound>>

-----------------------------------------------------------------------------
(* /e2e commands, h being the handle the nick argument resolves to.        *)

AcceptCached(h, allowOut) ==
  /\ inbound[h].fp # NoFp
  /\ inbound' = [inbound EXCEPT ![h] = NoRequest]
  /\ peers' = WithPeer(inbound[h].fp, h, "trusted")
  /\ Serve(h, inbound[h].fp, inbound[h].eph, allowOut, peers')
  /\ UNCHANGED <<incoming, mode, autotrust>>

(* accept with nothing cached, unrevoke, decline: the row's status only.   *)
FlipStatus(h, status) ==
  /\ incoming' = WithStatus(h, status)
  /\ UNCHANGED <<peers, outgoing, recipients, mode, autotrust, pending,
                 lastEph, inbound, rekeys, lane>>
AcceptWithoutRequest(h) == inbound[h].fp = NoFp /\ FlipStatus(h, "trusted")
Decline(h)  == FlipStatus(h, "revoked")
Unrevoke(h) == FlipStatus(h, "trusted")

MarkRotation == [outgoing EXCEPT !.rotate = (outgoing.key # 0)]

(* Mutant of Revoke: the revoked peer keeps a key that stays in use.       *)
RevokeWithoutRotation(h) ==
  /\ incoming' = WithStatus(h, "revoked")
  /\ recipients' = [recipients EXCEPT ![h] = NoFp]
  /\ UNCHANGED <<peers, outgoing, mode, autotrust, pending, lastEph, inbound,
                 rekeys, lane>>
Revoke(h) ==
  /\ incoming' = WithStatus(h, "revoked")
  /\ recipients' = [recipients EXCEPT ![h] = NoFp]
  /\ outgoing' = MarkRotation
  /\ UNCHANGED <<peers, mode, autotrust, pending, lastEph, inbound, rekeys, lane>>

Rotate ==
  /\ outgoing' = MarkRotation
  /\ UNCHANGED <<peers, incoming, recipients, mode, autotrust, pending,
                 lastEph, inbound, rekeys, lane>>

ForgetHere(h) ==
  /\ incoming' = [incoming EXCEPT ![h] = NoSession]
  /\ inbound' = [inbound EXCEPT ![h] = NoRequest]
  /\ pending' = {p \in pending : p.to # h}
  /\ UNCHANGED <<peers, outgoing, recipients, mode, autotrust, lastEph,
                 rekeys, lane>>

(* forget -all and reverify: every row and in-memory entry of h goes.      *)
Purge(h) ==
  /\ peers' = [fp \in Fps |-> IF peers[fp].handle = h THEN NoPeer ELSE peers[fp]]
  /\ incoming' = [incoming EXCEPT ![h] = NoSession]
  /\ recipients' = [recipients EXCEPT ![h] = NoFp]
  /\ inbound' = [inbound EXCEPT ![h] = NoRequest]
  /\ pending' = {p \in pending : p.to # h}
  /\ UNCHANGED <<outgoing, mode, autotrust, lastEph, rekeys, lane>>

Handshake(h) ==
  /\ NewRequest(NoHandle)
  /\ lane' = [lane EXCEPT ![h] = Append(@, Msg("KEYREQ", lastEph + 1, 0, NoFp))]
  /\ UNCHANGED <<peers, incoming, outgoing, recipients, mode, autotrust,
                 inbound, rekeys>>

SetMode(m) ==
  /\ mode' = m
  /\ UNCHANGED <<peers, incoming, outgoing, recipients, autotrust, pending,
                 lastEph, inbound, rekeys, lane>>

SetAutotrust(hs) ==
  /\ autotrust' = hs
  /\ UNCHANGED <<peers, incoming, outgoing, recipients, mode, pending,
                 lastEph, inbound, rekeys, lane>>

(* The process ends and starts again: only the keyring file survives, and  *)
(* what was on the connection is gone.                                     *)
Restart ==
  /\ pending' = {}
  /\ inbound' = [h \in Handles |-> NoRequest]
  /\ rekeys' = [h \in Handles |-> <<>>]
  /\ lane' = [h \in Handles |-> <<>>]
  /\ UNCHANGED <<peers, incoming, outgoing, recipients, mode, autotrust, lastEph>>
=============================================================================
