--------------------------- MODULE E2eConversation ---------------------------
(***************************************************************************)
(* Two copies of E2eManager, A and B, in one conversation: the network     *)
(* relays each client's lane to the other in order (one TCP connection     *)
(* each to the server), and either client may restart, losing what was on  *)
(* its connection.  Each user keeps one ident@host and one identity.       *)
(* Commands, lines, deliveries and restarts of the two sides interleave.   *)
(* The proofs behind the model are about any bounds.                       *)
(***************************************************************************)
EXTENDS Naturals, Sequences, FiniteSets, TLAPS, SequenceTheorems

CONSTANTS HA, HB,      \* the ident@host of A and of B
          FA, FB,      \* the fingerprints of A and of B
          NoHandle, NoFp,
          MaxEph,      \* bound on the KEYREQs a side builds
          MaxLane,     \* bound on the messages on a lane when a line is sent
          MaxUserSteps \* bound on the commands and restarts of both sides

ASSUME ConversationAssumption ==
  /\ HA # HB /\ FA # FB /\ NoHandle \notin {HA, HB} /\ NoFp \notin {FA, FB}
  /\ {MaxEph, MaxLane, MaxUserSteps} \subseteq Nat

VARIABLES
  aPeers, aIncoming, aOutgoing, aRecipients, aMode, aAutotrust, aPending,
  aLastEph, aInbound, aRekeys, aLane,
  bPeers, bIncoming, bOutgoing, bRecipients, bMode, bAutotrust, bPending,
  bLastEph, bInbound, bRekeys, bLane,
  disturbed,  \* history: what has cut a key exchange short so far
  undelivered,\* history: keys of A whose REKEY to B was dropped
  userSteps   \* commands and restarts so far

A == INSTANCE E2eManager WITH
       Handles <- {HB}, Fps <- {FB},
       peers <- aPeers, incoming <- aIncoming, outgoing <- aOutgoing,
       recipients <- aRecipients, mode <- aMode, autotrust <- aAutotrust,
       pending <- aPending, lastEph <- aLastEph, inbound <- aInbound,
       rekeys <- aRekeys, lane <- aLane
B == INSTANCE E2eManager WITH
       Handles <- {HA}, Fps <- {FA},
       peers <- bPeers, incoming <- bIncoming, outgoing <- bOutgoing,
       recipients <- bRecipients, mode <- bMode, autotrust <- bAutotrust,
       pending <- bPending, lastEph <- bLastEph, inbound <- bInbound,
       rekeys <- bRekeys, lane <- bLane

aButLane == <<aPeers, aIncoming, aOutgoing, aRecipients, aMode, aAutotrust,
              aPending, aLastEph, aInbound, aRekeys>>
bButLane == <<bPeers, bIncoming, bOutgoing, bRecipients, bMode, bAutotrust,
              bPending, bLastEph, bInbound, bRekeys>>
aVars    == <<aButLane, aLane>>
bVars    == <<bButLane, bLane>>
history  == <<disturbed, undelivered, userSteps>>
vars     == <<aVars, bVars, history>>

ToB == aLane[HB]
ToA == bLane[HA]
Disturbances == {"dropped", "restart", "forget", "abandoned", "revoked"}

(* Types of every variable; a side draws a key, then at most one more for *)
(* each command that asks for a rotation.                                  *)
TypeOK ==
  /\ A!ManagerTypeOK /\ B!ManagerTypeOK
  /\ disturbed \subseteq Disturbances
  /\ undelivered \subseteq 1 .. aOutgoing.key
  /\ {aOutgoing.key, bOutgoing.key} \subseteq 0 .. userSteps + 1
  /\ {aLastEph, bLastEph} \subseteq 0 .. MaxEph
  /\ userSteps \in 0 .. MaxUserSteps

Init ==
  /\ A!ManagerInit /\ B!ManagerInit
  /\ disturbed = {} /\ undelivered = {} /\ userSteps = 0

-----------------------------------------------------------------------------
(* One message reaches its addressee.  A refused request, an unwanted      *)
(* response and a readable or rejected line change nothing.                *)
AReceives(m) ==
  \/ /\ m.type = "KEYREQ"
     /\ \/ \E allowOut \in BOOLEAN :
             /\ allowOut => aLastEph < MaxEph
             /\ A!ServeKeyReq(HB, FB, m.eph, allowOut)
        \/ A!CacheKeyReq(HB, FB, m.eph)
        \/ A!IgnoreKeyReq(HB, FB)
        \/ aMode = "disabled" /\ UNCHANGED aVars
  \/ /\ m.type = "KEYRSP"
     /\ \/ A!ReceiveKeyRsp(HB, FB, m.eph, m.key)
        \/ (\A p \in aPending : p.eph # m.eph) /\ UNCHANGED aVars
  \/ /\ m.type = "REKEY"
     /\ \/ A!ReceiveRekey(HB, FB, m.key)
        \/ A!Classify(FB, HB) # "Known" /\ UNCHANGED aVars
  \/ /\ m.type = "RPE2E01"
     /\ aLastEph < MaxEph /\ A!RequestMissingKey(HB, m.key)
  \/ m.type \in {"RPE2E01", "PLAIN"} /\ UNCHANGED aVars

BReceives(m) ==
  \/ /\ m.type = "KEYREQ"
     /\ \/ \E allowOut \in BOOLEAN :
             /\ allowOut => bLastEph < MaxEph
             /\ B!ServeKeyReq(HA, FA, m.eph, allowOut)
        \/ B!CacheKeyReq(HA, FA, m.eph)
        \/ B!IgnoreKeyReq(HA, FA)
        \/ bMode = "disabled" /\ UNCHANGED bVars
  \/ /\ m.type = "KEYRSP"
     /\ \/ B!ReceiveKeyRsp(HA, FA, m.eph, m.key)
        \/ (\A p \in bPending : p.eph # m.eph) /\ UNCHANGED bVars
  \/ /\ m.type = "REKEY"
     /\ \/ B!ReceiveRekey(HA, FA, m.key)
        \/ B!Classify(FA, HA) # "Known" /\ UNCHANGED bVars
  \/ /\ m.type = "RPE2E01"
     /\ bLastEph < MaxEph /\ B!RequestMissingKey(HA, m.key)
  \/ m.type \in {"RPE2E01", "PLAIN"} /\ UNCHANGED bVars

DeliverToA ==
  /\ ToA # <<>>
  /\ AReceives(Head(ToA))
  /\ bLane' = [bLane EXCEPT ![HA] = Tail(@)]
  /\ UNCHANGED <<bButLane, history>>

DeliverToB ==
  /\ ToB # <<>>
  /\ BReceives(Head(ToB))
  /\ aLane' = [aLane EXCEPT ![HB] = Tail(@)]
  /\ UNCHANGED <<aButLane, history>>

-----------------------------------------------------------------------------
(* A line goes out, and the queued REKEYs with it if the user list of the  *)
(* buffer names the peer's ident@host; otherwise they are dropped.         *)
Disturb(kind, condition) ==
  disturbed' = IF condition THEN disturbed \cup {kind} ELSE disturbed

KeysIn(queue) == {queue[i].key : i \in 1 .. Len(queue)}

ASpeaks ==
  /\ Len(ToB) < MaxLane
  /\ \E resolved \in SUBSET {HB} :
       /\ \/ A!EncryptLine({HB}, resolved)
          \/ A!EncryptOversizeLine({HB}, resolved)
       /\ Disturb("dropped", resolved = {} /\ A!QueuedRekeys(aPeers)[HB] # <<>>)
       /\ undelivered' = IF resolved = {}
                         THEN undelivered \cup KeysIn(A!QueuedRekeys(aPeers)[HB])
                         ELSE undelivered
  /\ UNCHANGED <<bVars, userSteps>>

AElsewhere ==
  /\ aRekeys[HB] # <<>>
  /\ A!EncryptElsewhere({})
  /\ Disturb("dropped", TRUE)
  /\ undelivered' = undelivered \cup KeysIn(aRekeys[HB])
  /\ UNCHANGED <<bVars, userSteps>>

BSpeaks ==
  /\ Len(ToA) < MaxLane
  /\ \E resolved \in SUBSET {HA} :
       /\ B!EncryptLine({HA}, resolved)
       /\ Disturb("dropped", resolved = {} /\ B!QueuedRekeys(bPeers)[HA] # <<>>)
  /\ UNCHANGED <<aVars, undelivered, userSteps>>

(* What a user may type; forgetting while a REKEY is queued is noted, and   *)
(* forgetting while a request is out, which drops what would answer it.    *)
(* Revoking while a REKEY is queued leaves the REKEY in the queue: it      *)
(* follows a later line, behind the key of a handshake made meanwhile.     *)
ACommand ==
  \/ /\ \E allowOut \in BOOLEAN : /\ allowOut => aLastEph < MaxEph
                                  /\ A!AcceptCached(HB, allowOut)
     /\ UNCHANGED disturbed
  \/ aLastEph < MaxEph /\ A!Handshake(HB) /\ UNCHANGED disturbed
  \/ /\ \/ \E m \in {"auto", "normal"} : A!SetMode(m)
        \/ A!Decline(HB) \/ A!Unrevoke(HB) \/ A!Rotate
     /\ UNCHANGED disturbed
  \/ A!Revoke(HB) /\ Disturb("revoked", aRekeys[HB] # <<>>)
  \/ A!ForgetHere(HB) /\ Disturb("abandoned", aPending # {})
  \/ /\ A!Purge(HB)
     /\ disturbed' = disturbed
          \cup (IF aRekeys[HB] # <<>> THEN {"forget"} ELSE {})
          \cup (IF aPending # {} THEN {"abandoned"} ELSE {})

BCommand ==
  \/ /\ \E allowOut \in BOOLEAN : /\ allowOut => bLastEph < MaxEph
                                  /\ B!AcceptCached(HA, allowOut)
     /\ UNCHANGED disturbed
  \/ bLastEph < MaxEph /\ B!Handshake(HA) /\ UNCHANGED disturbed
  \/ /\ \/ \E m \in {"auto", "normal"} : B!SetMode(m)
        \/ B!Decline(HA) \/ B!Unrevoke(HA) \/ B!Revoke(HA) \/ B!Rotate
     /\ UNCHANGED disturbed
  \/ B!ForgetHere(HA) /\ Disturb("abandoned", bPending # {})
  \/ /\ B!Purge(HA)
     /\ disturbed' = disturbed
          \cup (IF bRekeys[HA] # <<>> THEN {"forget"} ELSE {})
          \cup (IF bPending # {} THEN {"abandoned"} ELSE {})

(* A restart loses its side's memory and everything on its connection.     *)
InFlight == ToA # <<>> \/ ToB # <<>>
ARestarts ==
  /\ A!Restart
  /\ bLane' = [bLane EXCEPT ![HA] = <<>>]
  /\ Disturb("restart", InFlight \/ aRekeys[HB] # <<>> \/ aPending # {})
  /\ UNCHANGED bButLane
BRestarts ==
  /\ B!Restart
  /\ aLane' = [aLane EXCEPT ![HB] = <<>>]
  /\ Disturb("restart", InFlight \/ bRekeys[HA] # <<>> \/ bPending # {})
  /\ UNCHANGED aButLane

UserStep ==
  /\ userSteps < MaxUserSteps
  /\ userSteps' = userSteps + 1
  /\ \/ ACommand /\ UNCHANGED bVars
     \/ BCommand /\ UNCHANGED aVars
     \/ ARestarts \/ BRestarts
  /\ UNCHANGED undelivered

Next == DeliverToA \/ DeliverToB \/ ASpeaks \/ AElsewhere \/ BSpeaks \/ UserStep
Spec == Init /\ [][Next]_vars

(* The main loop handles every message that arrives; nobody has to write,  *)
(* type a command or stay up.                                              *)
FairSpec == Spec /\ WF_vars(DeliverToA) /\ WF_vars(DeliverToB)

-----------------------------------------------------------------------------
(* A recipient keeps up: once nothing is queued or on its way, no rotation *)
(* is due and nothing has cut an exchange short, a trusted session of a    *)
(* recipient holds the key the sender uses now, whatever was accepted,     *)
(* declined, revoked, forgotten, rotated and spoken in between.            *)
Settled == ~InFlight /\ aRekeys[HB] = <<>>
RecipientKeepsUp ==
  (/\ disturbed = {} /\ Settled
   /\ ~aOutgoing.rotate /\ aRecipients[HB] = FB /\ B!Trusted(HA))
     => bIncoming[HA].key \in {0, aOutgoing.key}

(* A REKEY is "Drained [..] right after encrypt_outgoing triggers a lazy    *)
(* rotation": none waits in the queue while its peer is revoked and        *)
(* answered again, so a revocation cuts no exchange short.                 *)
RevokedPeerCatchesUp ==
  (/\ disturbed \subseteq {"revoked"} /\ Settled
   /\ ~aOutgoing.rotate /\ aRecipients[HB] = FB /\ B!Trusted(HA))
     => bIncoming[HA].key \in {0, aOutgoing.key}

(* "the fresh session key reaches the peers before their next decrypt      *)
(* attempt": no line overtakes the REKEY that carries its key.             *)
RekeyBeforeLine ==
  \A i, j \in 1 .. Len(ToB) :
    i < j /\ ToB[i].type = "RPE2E01" /\ ToB[j].type = "REKEY" =>
      ToB[i].key # ToB[j].key

(* "the peer will re-handshake on next ciphertext": a line under a key     *)
(* whose REKEY was dropped is never just rejected.                         *)
DroppedRekeyRecovers ==
  ToB # <<>> /\ Head(ToB).type = "RPE2E01" /\ Head(ToB).key \in undelivered =>
    B!DecryptOutcome(HA, Head(ToB).key) # "Rejected" \/ bIncoming[HA].status = "revoked"

(* A request of B that reaches A in auto mode is answered, and B trusts a  *)
(* session of A in the end, unless a user or a restart intervenes.         *)
Asked(e) == /\ \E i \in 1 .. Len(ToA) : ToA[i].type = "KEYREQ" /\ ToA[i].eph = e
            /\ \E p \in bPending : p.eph = e
AutoAnswers ==
  \A e \in 1 .. MaxEph, n \in 0 .. MaxUserSteps :
    (Asked(e) /\ aMode = "auto" /\ userSteps = n) ~> (B!Trusted(HA) \/ userSteps > n)
-----------------------------------------------------------------------------
(* The inductive invariant, for any bounds.  A rotation that is asked for   *)
(* leaves room for its key, and no queued REKEY is from the future.        *)
KeyBound(out) == IF out.key = 0 THEN ~out.rotate
                 ELSE out.key + (IF out.rotate THEN 1 ELSE 0) <= userSteps + 1
QueueBound == \A i \in 1 .. Len(aRekeys[HB]) : aRekeys[HB][i].key \in 1 .. aOutgoing.key
ConvTyped == TypeOK /\ KeyBound(aOutgoing) /\ KeyBound(bOutgoing) /\ QueueBound

(* B has pinned A at its one ident@host or not at all, and holds no key of *)
(* somebody it has not pinned; A's recipient is pinned and was given a key. *)
BPeersAreTrue ==
  /\ bPeers[FA].handle \in {NoHandle, HA} /\ bPeers[FA].status # "revoked"
  /\ bIncoming[HA].fp \in {NoFp, FA}
  /\ ~B!Pinned(FA) => bIncoming[HA].key = 0
ARecipientIsTrue ==
  /\ aRecipients[HB] = FB => aOutgoing.key # 0 /\ A!Pinned(FB)
  /\ aRecipients[HB] = NoFp => aRekeys[HB] = <<>>

(* The requests of B that A has not answered, or whose answer is on its    *)
(* way, are different ones, and B waits for each.                          *)
EphsOf(q, type) == {q[i].eph : i \in {j \in 1 .. Len(q) : q[j].type = type}}
EachOnce(q, type) ==
  \A i, j \in 1 .. Len(q) :
    q[i].type = type /\ q[j].type = type /\ q[i].eph = q[j].eph => i = j
Cached == IF aInbound[HB].fp = FB THEN {aInbound[HB].eph} ELSE {}
Awaited == {p.eph : p \in bPending}
AnswersAreAwaited ==
  /\ EachOnce(ToA, "KEYREQ") /\ EachOnce(ToB, "KEYRSP")
  /\ EphsOf(ToA, "KEYREQ") \cap EphsOf(ToB, "KEYRSP") = {}
  /\ Cached \cap (EphsOf(ToA, "KEYREQ") \cup EphsOf(ToB, "KEYRSP")) = {}
  /\ EphsOf(ToA, "KEYREQ") \cup EphsOf(ToB, "KEYRSP") \cup Cached \subseteq Awaited
  /\ Awaited \subseteq 1 .. bLastEph

(* The last key on its way to B is the key c, or none is and B's k is.     *)
Carries(m) == m.type \in {"KEYRSP", "REKEY"}
LastKey(q, k, c) ==
  \/ \E i \in 1 .. Len(q) :
       Carries(q[i]) /\ q[i].key = c /\ \A j \in i + 1 .. Len(q) : ~Carries(q[j])
  \/ (\A i \in 1 .. Len(q) : ~Carries(q[i])) /\ k \in {0, c}
KeyIsComing ==
  aRecipients[HB] = FB /\ ~aOutgoing.rotate =>
    IF aRekeys[HB] = <<>>
    THEN LastKey(ToB, bIncoming[HA].key, aOutgoing.key)
    ELSE aRekeys[HB][Len(aRekeys[HB])].key = aOutgoing.key

Undisturbed == BPeersAreTrue /\ ARecipientIsTrue /\ AnswersAreAwaited /\ KeyIsComing
ConvInv == ConvTyped /\ BPeersAreTrue /\ (disturbed = {} => Undisturbed)
-----------------------------------------------------------------------------
(* The types of A's tables, action by action.                              *)
(* The strict install and the status update keep the table's type.         *)
LEMMA AInstallType ==
  ASSUME aIncoming \in [{HB} -> A!Sessions], NEW h \in {HB}, NEW s \in A!Sessions
  PROVE  A!InstallStrict(h, s) \in [{HB} -> A!Sessions]
  BY DEF A!InstallStrict

LEMMA AStatusType ==
  ASSUME aIncoming \in [{HB} -> A!Sessions], NEW h \in {HB}, NEW st \in A!Statuses
  PROVE  A!WithStatus(h, st) \in [{HB} -> A!Sessions]
  BY DEF A!WithStatus, A!Sessions

LEMMA APeerType ==
  ASSUME aPeers \in [{FB} -> A!PeerRows], NEW h \in {HB}, NEW fp \in {FB},
         NEW st \in A!Statuses
  PROVE  /\ A!WithPeer(fp, h, st) \in [{FB} -> A!PeerRows]
         /\ A!SeenPeer(fp, h) \in [{FB} -> A!PeerRows]
  BY DEF A!WithPeer, A!SeenPeer, A!PeerRows, A!Statuses

LEMMA ASessionType ==
  ASSUME NEW fp \in {FB}, NEW key \in Nat, NEW st \in A!Statuses
  PROVE  [fp |-> fp, key |-> key, status |-> st] \in A!Sessions
  BY DEF A!Sessions

(* The empty rows are rows.                                                *)
LEMMA AEmptyRowTypes ==
  A!NoSession \in A!Sessions /\ A!NoRequest \in A!Requests /\ A!NoPeer \in A!PeerRows
  BY DEF A!NoSession, A!NoRequest, A!NoPeer, A!Sessions, A!Requests, A!PeerRows, A!Statuses

(* Taking our key leaves a well-typed key row and REKEY queues.            *)
LEMMA ATakeKeyType ==
  ASSUME A!ManagerTypeOK, NEW pt
  PROVE  /\ A!KeyToUse \in Nat
         /\ [key |-> A!KeyToUse, rotate |-> FALSE] \in A!KeyRows
         /\ A!QueuedRekeys(pt) \in [{HB} -> Seq(A!Wraps)]
  <1>1. A!KeyToUse \in Nat
    BY DEF A!ManagerTypeOK, A!KeyToUse, A!KeyRows
  <1>2. ASSUME NEW h \in {HB}, aRecipients[h] # NoFp
        PROVE  Append(aRekeys[h], [fp |-> aRecipients[h], key |-> A!KeyToUse]) \in Seq(A!Wraps)
    <2>1. aRecipients[h] \in {FB}
      BY <1>2 DEF A!ManagerTypeOK
    <2>2. [fp |-> aRecipients[h], key |-> A!KeyToUse] \in A!Wraps
      BY <1>1, <2>1 DEF A!Wraps
    <2>3. aRekeys[h] \in Seq(A!Wraps)
      BY DEF A!ManagerTypeOK
    <2> QED BY <2>2, <2>3, AppendProperties
  <1> QED BY <1>1, <1>2 DEF A!ManagerTypeOK, A!QueuedRekeys, A!KeyRows

LEMMA AMsgType ==
  ASSUME NEW t \in A!MsgTypes, NEW e \in Nat, NEW k \in Nat, NEW fp \in {FB} \cup {NoFp}
  PROVE  A!Msg(t, e, k, fp) \in A!Msgs
  BY DEF A!Msg, A!Msgs

(* Appending well-typed messages to one lane keeps the lanes well typed.   *)
LEMMA ALaneType ==
  ASSUME aLane \in [{HB} -> Seq(A!Msgs)], NEW h \in {HB}, NEW m \in A!Msgs, NEW n \in A!Msgs
  PROVE  /\ [aLane EXCEPT ![h] = Append(@, m)] \in [{HB} -> Seq(A!Msgs)]
         /\ [aLane EXCEPT ![h] = @ \o <<m, n>>] \in [{HB} -> Seq(A!Msgs)]
  <1>1. Append(aLane[h], m) \in Seq(A!Msgs)
    BY AppendProperties
  <1>2. <<m, n>> \in Seq(A!Msgs)
    OBVIOUS
  <1>3. aLane[h] \o <<m, n>> \in Seq(A!Msgs)
    BY <1>2, ConcatProperties
  <1> QED BY <1>1, <1>3

(* A new request of ours, and the lane it is put on.                       *)
LEMMA ARequestType ==
  ASSUME A!ManagerTypeOK, NEW to \in {HB} \cup {NoHandle}, A!NewRequest(to)
  PROVE  /\ aPending' \in SUBSET A!Asks /\ aLastEph' \in Nat
         /\ A!Msg("KEYREQ", aLastEph + 1, 0, NoFp) \in A!Msgs
  <1>1. aLastEph \in Nat /\ aPending \in SUBSET A!Asks
    BY DEF A!ManagerTypeOK
  <1>2. [eph |-> aLastEph + 1, to |-> to] \in A!Asks
    BY <1>1 DEF A!Asks
  <1>3. A!Msg("KEYREQ", aLastEph + 1, 0, NoFp) \in A!Msgs
    BY <1>1, AMsgType DEF A!MsgTypes
  <1> QED BY <1>1, <1>2, <1>3 DEF A!NewRequest

(* Answering a request keeps what it touches well typed.                   *)
LEMMA AServeType ==
  ASSUME A!ManagerTypeOK, NEW h \in {HB}, NEW fp \in {FB}, NEW eph \in Nat,
         NEW allowOut, NEW pt, A!Serve(h, fp, eph, allowOut, pt)
  PROVE  /\ aOutgoing' \in A!KeyRows
         /\ aRekeys' \in [{HB} -> Seq(A!Wraps)]
         /\ aRecipients' \in [{HB} -> {FB} \cup {NoFp}]
         /\ aPending' \in SUBSET A!Asks
         /\ aLastEph' \in Nat
         /\ aLane' \in [{HB} -> Seq(A!Msgs)]
  <1>1. aLastEph \in Nat /\ aPending \in SUBSET A!Asks /\ aLane \in [{HB} -> Seq(A!Msgs)]
    BY DEF A!ManagerTypeOK
  <1>2. A!Msg("KEYRSP", eph, A!KeyToUse, fp) \in A!Msgs
    BY ATakeKeyType, AMsgType DEF A!MsgTypes
  <1>4. aOutgoing' \in A!KeyRows /\ aRekeys' \in [{HB} -> Seq(A!Wraps)]
    BY ATakeKeyType DEF A!Serve, A!TakeKey
  <1>5. aRecipients' \in [{HB} -> {FB} \cup {NoFp}]
    BY DEF A!ManagerTypeOK, A!Serve
  <1>6. CASE A!NewRequest(h) /\
             aLane' = [aLane EXCEPT ![h] = @ \o <<A!Msg("KEYRSP", eph, A!KeyToUse, fp),
                                       A!Msg("KEYREQ", aLastEph + 1, 0, NoFp)>>]
    <2>1. aPending' \in SUBSET A!Asks /\ aLastEph' \in Nat
          /\ A!Msg("KEYREQ", aLastEph + 1, 0, NoFp) \in A!Msgs
      BY <1>6, ARequestType
    <2>2. aLane' \in [{HB} -> Seq(A!Msgs)]
      BY <1>1, <1>2, <1>6, <2>1, ALaneType
    <2> QED BY <1>4, <1>5, <2>1, <2>2
  <1>7. CASE aLane' = [aLane EXCEPT ![h] = Append(@, A!Msg("KEYRSP", eph, A!KeyToUse, fp))]
             /\ UNCHANGED <<aPending, aLastEph>>
    BY <1>1, <1>2, <1>4, <1>5, <1>7, ALaneType
  <1> QED BY <1>6, <1>7 DEF A!Serve

(* What a line puts on the lanes is well typed.                            *)
LEMMA ASentType ==
  ASSUME aLane \in [{HB} -> Seq(A!Msgs)], NEW present, NEW resolved, NEW line \in A!Msgs,
         NEW queues \in [{HB} -> Seq(A!Wraps)]
  PROVE  A!Sent(present, line, queues, resolved) \in [{HB} -> Seq(A!Msgs)]
  <1>1. ASSUME NEW q \in Seq(A!Wraps)
        PROVE  A!RekeyMsgs(q) \in Seq(A!Msgs)
    <2>1. ASSUME NEW i \in 1 .. Len(q)
          PROVE  A!Msg("REKEY", 0, q[i].key, q[i].fp) \in A!Msgs
      <3>1. q[i] \in A!Wraps
        BY ElementOfSeq
      <3> QED BY <3>1, AMsgType DEF A!MsgTypes, A!Wraps
    <2>2. Len(q) \in Nat
      BY LenProperties
    <2> QED BY <2>1, <2>2, IsASeq DEF A!RekeyMsgs
  <1>2. ASSUME NEW h \in {HB}
        PROVE  /\ Append(aLane[h], line) \in Seq(A!Msgs)
               /\ A!RekeyMsgs(queues[h]) \in Seq(A!Msgs)
               /\ <<>> \in Seq(A!Msgs)
               /\ aLane[h] \in Seq(A!Msgs)
    BY <1>1, AppendProperties, EmptySeq
  <1>3. ASSUME NEW h \in {HB}
        PROVE  (IF h \in present THEN Append(aLane[h], line) ELSE aLane[h]) \o
               (IF h \in resolved THEN A!RekeyMsgs(queues[h]) ELSE <<>>) \in Seq(A!Msgs)
    BY <1>2, ConcatProperties
  <1> QED BY <1>3 DEF A!Sent

LEMMA ALineMsgType ==
  ASSUME A!ManagerTypeOK
  PROVE  /\ A!Msg("RPE2E01", 0, A!KeyToUse, NoFp) \in A!Msgs
         /\ A!Msg("RPE2E01", 0, 0, NoFp) \in A!Msgs
         /\ A!Msg("PLAIN", 0, 0, NoFp) \in A!Msgs
  BY ATakeKeyType, AMsgType DEF A!MsgTypes

LEMMA ASpeakType ==
  ASSUME A!ManagerTypeOK, NEW present, NEW resolved,
         \/ A!EncryptLine(present, resolved)
         \/ A!EncryptOversizeLine(present, resolved)
         \/ A!EncryptElsewhere(resolved)
  PROVE  A!ManagerTypeOK'
  <1>0. aLane \in [{HB} -> Seq(A!Msgs)] /\ aRekeys \in [{HB} -> Seq(A!Wraps)]
    BY DEF A!ManagerTypeOK
  <1>1. ASSUME NEW line \in A!Msgs, A!SendLine(present, resolved, line)
        PROVE  A!ManagerTypeOK'
    <2>1. aLane' \in [{HB} -> Seq(A!Msgs)]
      BY <1>0, <1>1, ATakeKeyType, ASentType DEF A!SendLine
    <2>2. aRekeys' \in [{HB} -> Seq(A!Wraps)]
      BY <1>1, EmptySeq DEF A!SendLine
    <2>3. aOutgoing' \in A!KeyRows
      BY <1>1, ATakeKeyType DEF A!SendLine
    <2> QED BY <1>1, <2>1, <2>2, <2>3 DEF A!SendLine, A!ManagerTypeOK
  <1>2. CASE A!EncryptElsewhere(resolved)
    <2>1. aLane' \in [{HB} -> Seq(A!Msgs)]
      BY <1>0, <1>2, ALineMsgType, ASentType DEF A!EncryptElsewhere
    <2>2. aRekeys' \in [{HB} -> Seq(A!Wraps)]
      BY <1>2, EmptySeq DEF A!EncryptElsewhere
    <2> QED BY <1>2, <2>1, <2>2 DEF A!EncryptElsewhere, A!ManagerTypeOK
  <1> QED BY <1>1, <1>2, ALineMsgType DEF A!EncryptLine, A!EncryptOversizeLine

-----------------------------------------------------------------------------
(* Every action of the manager keeps its tables well typed.                *)
LEMMA AHandshakeStepType ==
  ASSUME A!ManagerTypeOK, NEW h \in {HB}, NEW fp \in {FB}, NEW eph \in Nat,
         NEW key \in Nat, NEW allowOut,
         \/ A!ServeKeyReq(h, fp, eph, allowOut)
         \/ A!CacheKeyReq(h, fp, eph)
         \/ A!IgnoreKeyReq(h, fp)
         \/ A!ReceiveKeyRsp(h, fp, eph, key)
         \/ A!ReceiveRekey(h, fp, key)
         \/ A!RequestMissingKey(h, key)
  PROVE  A!ManagerTypeOK'
  <1>0. aIncoming \in [{HB} -> A!Sessions] /\ aPeers \in [{FB} -> A!PeerRows]
        /\ aLane \in [{HB} -> Seq(A!Msgs)]
    BY DEF A!ManagerTypeOK
  <1> A!Statuses = {"none", "pending", "trusted", "revoked"}
    BY DEF A!Statuses
  <1>1. CASE A!ServeKeyReq(h, fp, eph, allowOut)
    <2>1. A!Serve(h, fp, eph, allowOut, aPeers') /\ UNCHANGED <<aIncoming, aMode, aAutotrust, aInbound>>
      BY <1>1 DEF A!ServeKeyReq
    <2>2. aPeers' \in [{FB} -> A!PeerRows]
      BY <1>0, <1>1, APeerType DEF A!ServeKeyReq
    <2> QED BY <2>1, <2>2, AServeType DEF A!ManagerTypeOK
  <1>2. CASE A!CacheKeyReq(h, fp, eph)
    <2>1. aIncoming' \in [{HB} -> A!Sessions]
      BY <1>0, <1>2, ASessionType, AInstallType DEF A!CacheKeyReq
    <2>2. [fp |-> fp, eph |-> eph] \in A!Requests
      BY DEF A!Requests
    <2>3. aInbound' \in [{HB} -> A!Requests]
      BY <1>2, <2>2 DEF A!CacheKeyReq, A!ManagerTypeOK
    <2>4. aPeers' \in [{FB} -> A!PeerRows]
      BY <1>0, <1>2, APeerType DEF A!CacheKeyReq
    <2> QED BY <1>2, <2>1, <2>3, <2>4 DEF A!CacheKeyReq, A!ManagerTypeOK
  <1>3. CASE A!IgnoreKeyReq(h, fp)
    <2>1. aPeers' \in [{FB} -> A!PeerRows]
      BY <1>0, <1>3, APeerType DEF A!IgnoreKeyReq
    <2> QED BY <1>3, <2>1 DEF A!IgnoreKeyReq, A!ManagerTypeOK
  <1>4. CASE A!ReceiveKeyRsp(h, fp, eph, key)
    <2>1. aIncoming' \in [{HB} -> A!Sessions]
      BY <1>0, <1>4, ASessionType, AInstallType DEF A!ReceiveKeyRsp
    <2>2. aPeers' \in [{FB} -> A!PeerRows]
      BY <1>0, <1>4, APeerType DEF A!ReceiveKeyRsp
    <2>3. aPending' \in SUBSET A!Asks
      BY <1>4 DEF A!ReceiveKeyRsp, A!ManagerTypeOK
    <2> QED BY <1>4, <2>1, <2>2, <2>3 DEF A!ReceiveKeyRsp, A!ManagerTypeOK
  <1>5. CASE A!ReceiveRekey(h, fp, key)
    <2>1. aIncoming' \in [{HB} -> A!Sessions]
      BY <1>0, <1>5, ASessionType, AInstallType DEF A!ReceiveRekey
    <2> QED BY <1>5, <2>1 DEF A!ReceiveRekey, A!ManagerTypeOK
  <1>6. CASE A!RequestMissingKey(h, key)
    <2>1. aPending' \in SUBSET A!Asks /\ aLastEph' \in Nat
          /\ A!Msg("KEYREQ", aLastEph + 1, 0, NoFp) \in A!Msgs
      BY <1>6, ARequestType DEF A!RequestMissingKey
    <2>2. aLane' \in [{HB} -> Seq(A!Msgs)]
      BY <1>0, <1>6, <2>1, ALaneType DEF A!RequestMissingKey
    <2> QED BY <1>6, <2>1, <2>2 DEF A!RequestMissingKey, A!ManagerTypeOK
  <1> QED BY <1>1, <1>2, <1>3, <1>4, <1>5, <1>6

LEMMA ACommandStepType ==
  ASSUME A!ManagerTypeOK, NEW h \in {HB}, NEW allowOut,
         \/ A!AcceptCached(h, allowOut)
         \/ A!AcceptWithoutRequest(h)
         \/ A!Decline(h)
         \/ A!Unrevoke(h)
         \/ A!Revoke(h)
         \/ A!ForgetHere(h)
         \/ A!Purge(h)
         \/ A!Handshake(h)
  PROVE  A!ManagerTypeOK'
  <1>0. aIncoming \in [{HB} -> A!Sessions] /\ aPeers \in [{FB} -> A!PeerRows]
        /\ aInbound \in [{HB} -> A!Requests] /\ aLane \in [{HB} -> Seq(A!Msgs)]
    BY DEF A!ManagerTypeOK
  <1> A!Statuses = {"none", "pending", "trusted", "revoked"}
    BY DEF A!Statuses
  <1>1. CASE A!AcceptCached(h, allowOut)
    <2>1. aInbound[h].fp \in {FB} /\ aInbound[h].eph \in Nat
      BY <1>0, <1>1 DEF A!AcceptCached, A!Requests
    <2>2. A!Serve(h, aInbound[h].fp, aInbound[h].eph, allowOut, aPeers')
          /\ UNCHANGED <<aIncoming, aMode, aAutotrust>>
      BY <1>1 DEF A!AcceptCached
    <2>3. aPeers' \in [{FB} -> A!PeerRows]
      BY <1>0, <1>1, <2>1, APeerType DEF A!AcceptCached
    <2>4. aInbound' \in [{HB} -> A!Requests]
      BY <1>0, <1>1, AEmptyRowTypes DEF A!AcceptCached
    <2>5. /\ aOutgoing' \in A!KeyRows
          /\ aRekeys' \in [{HB} -> Seq(A!Wraps)]
          /\ aRecipients' \in [{HB} -> {FB} \cup {NoFp}]
          /\ aPending' \in SUBSET A!Asks
          /\ aLastEph' \in Nat
          /\ aLane' \in [{HB} -> Seq(A!Msgs)]
      BY <2>1, <2>2, AServeType
    <2> QED BY <2>2, <2>3, <2>4, <2>5 DEF A!ManagerTypeOK
  <1>2. ASSUME NEW st \in {"revoked", "trusted"}, A!FlipStatus(h, st)
        PROVE  A!ManagerTypeOK'
    <2>1. aIncoming' \in [{HB} -> A!Sessions]
      BY <1>0, <1>2, AStatusType DEF A!FlipStatus
    <2> QED BY <1>2, <2>1 DEF A!FlipStatus, A!ManagerTypeOK
  <1>4. CASE A!Revoke(h)
    <2>1. aIncoming' \in [{HB} -> A!Sessions]
      BY <1>0, <1>4, AStatusType DEF A!Revoke
    <2>2. aOutgoing' \in A!KeyRows
      BY <1>4 DEF A!Revoke, A!MarkRotation, A!KeyRows, A!ManagerTypeOK
    <2>3. aRecipients' \in [{HB} -> {FB} \cup {NoFp}]
      BY <1>4 DEF A!Revoke, A!ManagerTypeOK
    <2> QED BY <1>4, <2>1, <2>2, <2>3 DEF A!Revoke, A!ManagerTypeOK
  <1>7. CASE A!ForgetHere(h)
    <2>1. aIncoming' \in [{HB} -> A!Sessions] /\ aInbound' \in [{HB} -> A!Requests]
      BY <1>0, <1>7, AEmptyRowTypes DEF A!ForgetHere
    <2> QED BY <1>7, <2>1 DEF A!ForgetHere, A!ManagerTypeOK
  <1>8. CASE A!Purge(h)
    <2>1. aIncoming' \in [{HB} -> A!Sessions] /\ aInbound' \in [{HB} -> A!Requests]
          /\ aPeers' \in [{FB} -> A!PeerRows]
      BY <1>0, <1>8, AEmptyRowTypes DEF A!Purge
    <2>2. aRecipients' \in [{HB} -> {FB} \cup {NoFp}] /\ aPending' \in SUBSET A!Asks
      BY <1>8 DEF A!Purge, A!ManagerTypeOK
    <2> QED BY <1>8, <2>1, <2>2 DEF A!Purge, A!ManagerTypeOK
  <1>9. CASE A!Handshake(h)
    <2>1. aPending' \in SUBSET A!Asks /\ aLastEph' \in Nat
          /\ A!Msg("KEYREQ", aLastEph + 1, 0, NoFp) \in A!Msgs
      BY <1>9, ARequestType DEF A!Handshake
    <2>2. aLane' \in [{HB} -> Seq(A!Msgs)]
      BY <1>0, <1>9, <2>1, ALaneType DEF A!Handshake
    <2> QED BY <1>9, <2>1, <2>2 DEF A!Handshake, A!ManagerTypeOK
  <1> QED BY <1>1, <1>2, <1>4, <1>7, <1>8, <1>9
          DEF A!AcceptWithoutRequest, A!Decline, A!Unrevoke

LEMMA AConfigureStepType ==
  ASSUME A!ManagerTypeOK, A!Rotate \/ (\E m \in A!Modes : A!SetMode(m)) \/ A!Restart
  PROVE  A!ManagerTypeOK'
  <1>1. CASE A!Rotate
    <2>1. aOutgoing' \in A!KeyRows
      BY <1>1 DEF A!Rotate, A!MarkRotation, A!KeyRows, A!ManagerTypeOK
    <2> QED BY <1>1, <2>1 DEF A!Rotate, A!ManagerTypeOK
  <1>2. CASE \E m \in A!Modes : A!SetMode(m)
    BY <1>2 DEF A!SetMode, A!ManagerTypeOK
  <1>3. CASE A!Restart
    BY <1>3, AEmptyRowTypes, EmptySeq DEF A!Restart, A!ManagerTypeOK
  <1> QED BY <1>1, <1>2, <1>3
-----------------------------------------------------------------------------
(* The types of B's.                                                       *)
(* The strict install and the status update keep the table's type.         *)
LEMMA BInstallType ==
  ASSUME bIncoming \in [{HA} -> B!Sessions], NEW h \in {HA}, NEW s \in B!Sessions
  PROVE  B!InstallStrict(h, s) \in [{HA} -> B!Sessions]
  BY DEF B!InstallStrict

LEMMA BStatusType ==
  ASSUME bIncoming \in [{HA} -> B!Sessions], NEW h \in {HA}, NEW st \in B!Statuses
  PROVE  B!WithStatus(h, st) \in [{HA} -> B!Sessions]
  BY DEF B!WithStatus, B!Sessions

LEMMA BPeerType ==
  ASSUME bPeers \in [{FA} -> B!PeerRows], NEW h \in {HA}, NEW fp \in {FA},
         NEW st \in B!Statuses
  PROVE  /\ B!WithPeer(fp, h, st) \in [{FA} -> B!PeerRows]
         /\ B!SeenPeer(fp, h) \in [{FA} -> B!PeerRows]
  BY DEF B!WithPeer, B!SeenPeer, B!PeerRows, B!Statuses

LEMMA BSessionType ==
  ASSUME NEW fp \in {FA}, NEW key \in Nat, NEW st \in B!Statuses
  PROVE  [fp |-> fp, key |-> key, status |-> st] \in B!Sessions
  BY DEF B!Sessions

(* The empty rows are rows.                                                *)
LEMMA BEmptyRowTypes ==
  B!NoSession \in B!Sessions /\ B!NoRequest \in B!Requests /\ B!NoPeer \in B!PeerRows
  BY DEF B!NoSession, B!NoRequest, B!NoPeer, B!Sessions, B!Requests, B!PeerRows, B!Statuses

(* Taking our key leaves a well-typed key row and REKEY queues.            *)
LEMMA BTakeKeyType ==
  ASSUME B!ManagerTypeOK, NEW pt
  PROVE  /\ B!KeyToUse \in Nat
         /\ [key |-> B!KeyToUse, rotate |-> FALSE] \in B!KeyRows
         /\ B!QueuedRekeys(pt) \in [{HA} -> Seq(B!Wraps)]
  <1>1. B!KeyToUse \in Nat
    BY DEF B!ManagerTypeOK, B!KeyToUse, B!KeyRows
  <1>2. ASSUME NEW h \in {HA}, bRecipients[h] # NoFp
        PROVE  Append(bRekeys[h], [fp |-> bRecipients[h], key |-> B!KeyToUse]) \in Seq(B!Wraps)
    <2>1. bRecipients[h] \in {FA}
      BY <1>2 DEF B!ManagerTypeOK
    <2>2. [fp |-> bRecipients[h], key |-> B!KeyToUse] \in B!Wraps
      BY <1>1, <2>1 DEF B!Wraps
    <2>3. bRekeys[h] \in Seq(B!Wraps)
      BY DEF B!ManagerTypeOK
    <2> QED BY <2>2, <2>3, AppendProperties
  <1> QED BY <1>1, <1>2 DEF B!ManagerTypeOK, B!QueuedRekeys, B!KeyRows

LEMMA BMsgType ==
  ASSUME NEW t \in B!MsgTypes, NEW e \in Nat, NEW k \in Nat, NEW fp \in {FA} \cup {NoFp}
  PROVE  B!Msg(t, e, k, fp) \in B!Msgs
  BY DEF B!Msg, B!Msgs

(* Appending well-typed messages to one lane keeps the lanes well typed.   *)
LEMMA BLaneType ==
  ASSUME bLane \in [{HA} -> Seq(B!Msgs)], NEW h \in {HA}, NEW m \in B!Msgs, NEW n \in B!Msgs
  PROVE  /\ [bLane EXCEPT ![h] = Append(@, m)] \in [{HA} -> Seq(B!Msgs)]
         /\ [bLane EXCEPT ![h] = @ \o <<m, n>>] \in [{HA} -> Seq(B!Msgs)]
  <1>1. Append(bLane[h], m) \in Seq(B!Msgs)
    BY AppendProperties
  <1>2. <<m, n>> \in Seq(B!Msgs)
    OBVIOUS
  <1>3. bLane[h] \o <<m, n>> \in Seq(B!Msgs)
    BY <1>2, ConcatProperties
  <1> QED BY <1>1, <1>3

(* A new request of ours, and the lane it is put on.                       *)
LEMMA BRequestType ==
  ASSUME B!ManagerTypeOK, NEW to \in {HA} \cup {NoHandle}, B!NewRequest(to)
  PROVE  /\ bPending' \in SUBSET B!Asks /\ bLastEph' \in Nat
         /\ B!Msg("KEYREQ", bLastEph + 1, 0, NoFp) \in B!Msgs
  <1>1. bLastEph \in Nat /\ bPending \in SUBSET B!Asks
    BY DEF B!ManagerTypeOK
  <1>2. [eph |-> bLastEph + 1, to |-> to] \in B!Asks
    BY <1>1 DEF B!Asks
  <1>3. B!Msg("KEYREQ", bLastEph + 1, 0, NoFp) \in B!Msgs
    BY <1>1, BMsgType DEF B!MsgTypes
  <1> QED BY <1>1, <1>2, <1>3 DEF B!NewRequest

(* Answering a request keeps what it touches well typed.                   *)
LEMMA BServeType ==
  ASSUME B!ManagerTypeOK, NEW h \in {HA}, NEW fp \in {FA}, NEW eph \in Nat,
         NEW allowOut, NEW pt, B!Serve(h, fp, eph, allowOut, pt)
  PROVE  /\ bOutgoing' \in B!KeyRows
         /\ bRekeys' \in [{HA} -> Seq(B!Wraps)]
         /\ bRecipients' \in [{HA} -> {FA} \cup {NoFp}]
         /\ bPending' \in SUBSET B!Asks
         /\ bLastEph' \in Nat
         /\ bLane' \in [{HA} -> Seq(B!Msgs)]
  <1>1. bLastEph \in Nat /\ bPending \in SUBSET B!Asks /\ bLane \in [{HA} -> Seq(B!Msgs)]
    BY DEF B!ManagerTypeOK
  <1>2. B!Msg("KEYRSP", eph, B!KeyToUse, fp) \in B!Msgs
    BY BTakeKeyType, BMsgType DEF B!MsgTypes
  <1>4. bOutgoing' \in B!KeyRows /\ bRekeys' \in [{HA} -> Seq(B!Wraps)]
    BY BTakeKeyType DEF B!Serve, B!TakeKey
  <1>5. bRecipients' \in [{HA} -> {FA} \cup {NoFp}]
    BY DEF B!ManagerTypeOK, B!Serve
  <1>6. CASE B!NewRequest(h) /\
             bLane' = [bLane EXCEPT ![h] = @ \o <<B!Msg("KEYRSP", eph, B!KeyToUse, fp),
                                       B!Msg("KEYREQ", bLastEph + 1, 0, NoFp)>>]
    <2>1. bPending' \in SUBSET B!Asks /\ bLastEph' \in Nat
          /\ B!Msg("KEYREQ", bLastEph + 1, 0, NoFp) \in B!Msgs
      BY <1>6, BRequestType
    <2>2. bLane' \in [{HA} -> Seq(B!Msgs)]
      BY <1>1, <1>2, <1>6, <2>1, BLaneType
    <2> QED BY <1>4, <1>5, <2>1, <2>2
  <1>7. CASE bLane' = [bLane EXCEPT ![h] = Append(@, B!Msg("KEYRSP", eph, B!KeyToUse, fp))]
             /\ UNCHANGED <<bPending, bLastEph>>
    BY <1>1, <1>2, <1>4, <1>5, <1>7, BLaneType
  <1> QED BY <1>6, <1>7 DEF B!Serve

(* What a line puts on the lanes is well typed.                            *)
LEMMA BSentType ==
  ASSUME bLane \in [{HA} -> Seq(B!Msgs)], NEW present, NEW resolved, NEW line \in B!Msgs,
         NEW queues \in [{HA} -> Seq(B!Wraps)]
  PROVE  B!Sent(present, line, queues, resolved) \in [{HA} -> Seq(B!Msgs)]
  <1>1. ASSUME NEW q \in Seq(B!Wraps)
        PROVE  B!RekeyMsgs(q) \in Seq(B!Msgs)
    <2>1. ASSUME NEW i \in 1 .. Len(q)
          PROVE  B!Msg("REKEY", 0, q[i].key, q[i].fp) \in B!Msgs
      <3>1. q[i] \in B!Wraps
        BY ElementOfSeq
      <3> QED BY <3>1, BMsgType DEF B!MsgTypes, B!Wraps
    <2>2. Len(q) \in Nat
      BY LenProperties
    <2> QED BY <2>1, <2>2, IsASeq DEF B!RekeyMsgs
  <1>2. ASSUME NEW h \in {HA}
        PROVE  /\ Append(bLane[h], line) \in Seq(B!Msgs)
               /\ B!RekeyMsgs(queues[h]) \in Seq(B!Msgs)
               /\ <<>> \in Seq(B!Msgs)
               /\ bLane[h] \in Seq(B!Msgs)
    BY <1>1, AppendProperties, EmptySeq
  <1>3. ASSUME NEW h \in {HA}
        PROVE  (IF h \in present THEN Append(bLane[h], line) ELSE bLane[h]) \o
               (IF h \in resolved THEN B!RekeyMsgs(queues[h]) ELSE <<>>) \in Seq(B!Msgs)
    BY <1>2, ConcatProperties
  <1> QED BY <1>3 DEF B!Sent

LEMMA BLineMsgType ==
  ASSUME B!ManagerTypeOK
  PROVE  /\ B!Msg("RPE2E01", 0, B!KeyToUse, NoFp) \in B!Msgs
         /\ B!Msg("RPE2E01", 0, 0, NoFp) \in B!Msgs
         /\ B!Msg("PLAIN", 0, 0, NoFp) \in B!Msgs
  BY BTakeKeyType, BMsgType DEF B!MsgTypes

LEMMA BSpeakType ==
  ASSUME B!ManagerTypeOK, NEW present, NEW resolved,
         \/ B!EncryptLine(present, resolved)
         \/ B!EncryptOversizeLine(present, resolved)
         \/ B!EncryptElsewhere(resolved)
  PROVE  B!ManagerTypeOK'
  <1>0. bLane \in [{HA} -> Seq(B!Msgs)] /\ bRekeys \in [{HA} -> Seq(B!Wraps)]
    BY DEF B!ManagerTypeOK
  <1>1. ASSUME NEW line \in B!Msgs, B!SendLine(present, resolved, line)
        PROVE  B!ManagerTypeOK'
    <2>1. bLane' \in [{HA} -> Seq(B!Msgs)]
      BY <1>0, <1>1, BTakeKeyType, BSentType DEF B!SendLine
    <2>2. bRekeys' \in [{HA} -> Seq(B!Wraps)]
      BY <1>1, EmptySeq DEF B!SendLine
    <2>3. bOutgoing' \in B!KeyRows
      BY <1>1, BTakeKeyType DEF B!SendLine
    <2> QED BY <1>1, <2>1, <2>2, <2>3 DEF B!SendLine, B!ManagerTypeOK
  <1>2. CASE B!EncryptElsewhere(resolved)
    <2>1. bLane' \in [{HA} -> Seq(B!Msgs)]
      BY <1>0, <1>2, BLineMsgType, BSentType DEF B!EncryptElsewhere
    <2>2. bRekeys' \in [{HA} -> Seq(B!Wraps)]
      BY <1>2, EmptySeq DEF B!EncryptElsewhere
    <2> QED BY <1>2, <2>1, <2>2 DEF B!EncryptElsewhere, B!ManagerTypeOK
  <1> QED BY <1>1, <1>2, BLineMsgType DEF B!EncryptLine, B!EncryptOversizeLine

-----------------------------------------------------------------------------
(* Every action of the manager keeps its tables well typed.                *)
LEMMA BHandshakeStepType ==
  ASSUME B!ManagerTypeOK, NEW h \in {HA}, NEW fp \in {FA}, NEW eph \in Nat,
         NEW key \in Nat, NEW allowOut,
         \/ B!ServeKeyReq(h, fp, eph, allowOut)
         \/ B!CacheKeyReq(h, fp, eph)
         \/ B!IgnoreKeyReq(h, fp)
         \/ B!ReceiveKeyRsp(h, fp, eph, key)
         \/ B!ReceiveRekey(h, fp, key)
         \/ B!RequestMissingKey(h, key)
  PROVE  B!ManagerTypeOK'
  <1>0. bIncoming \in [{HA} -> B!Sessions] /\ bPeers \in [{FA} -> B!PeerRows]
        /\ bLane \in [{HA} -> Seq(B!Msgs)]
    BY DEF B!ManagerTypeOK
  <1> B!Statuses = {"none", "pending", "trusted", "revoked"}
    BY DEF B!Statuses
  <1>1. CASE B!ServeKeyReq(h, fp, eph, allowOut)
    <2>1. B!Serve(h, fp, eph, allowOut, bPeers') /\ UNCHANGED <<bIncoming, bMode, bAutotrust, bInbound>>
      BY <1>1 DEF B!ServeKeyReq
    <2>2. bPeers' \in [{FA} -> B!PeerRows]
      BY <1>0, <1>1, BPeerType DEF B!ServeKeyReq
    <2> QED BY <2>1, <2>2, BServeType DEF B!ManagerTypeOK
  <1>2. CASE B!CacheKeyReq(h, fp, eph)
    <2>1. bIncoming' \in [{HA} -> B!Sessions]
      BY <1>0, <1>2, BSessionType, BInstallType DEF B!CacheKeyReq
    <2>2. [fp |-> fp, eph |-> eph] \in B!Requests
      BY DEF B!Requests
    <2>3. bInbound' \in [{HA} -> B!Requests]
      BY <1>2, <2>2 DEF B!CacheKeyReq, B!ManagerTypeOK
    <2>4. bPeers' \in [{FA} -> B!PeerRows]
      BY <1>0, <1>2, BPeerType DEF B!CacheKeyReq
    <2> QED BY <1>2, <2>1, <2>3, <2>4 DEF B!CacheKeyReq, B!ManagerTypeOK
  <1>3. CASE B!IgnoreKeyReq(h, fp)
    <2>1. bPeers' \in [{FA} -> B!PeerRows]
      BY <1>0, <1>3, BPeerType DEF B!IgnoreKeyReq
    <2> QED BY <1>3, <2>1 DEF B!IgnoreKeyReq, B!ManagerTypeOK
  <1>4. CASE B!ReceiveKeyRsp(h, fp, eph, key)
    <2>1. bIncoming' \in [{HA} -> B!Sessions]
      BY <1>0, <1>4, BSessionType, BInstallType DEF B!ReceiveKeyRsp
    <2>2. bPeers' \in [{FA} -> B!PeerRows]
      BY <1>0, <1>4, BPeerType DEF B!ReceiveKeyRsp
    <2>3. bPending' \in SUBSET B!Asks
      BY <1>4 DEF B!ReceiveKeyRsp, B!ManagerTypeOK
    <2> QED BY <1>4, <2>1, <2>2, <2>3 DEF B!ReceiveKeyRsp, B!ManagerTypeOK
  <1>5. CASE B!ReceiveRekey(h, fp, key)
    <2>1. bIncoming' \in [{HA} -> B!Sessions]
      BY <1>0, <1>5, BSessionType, BInstallType DEF B!ReceiveRekey
    <2> QED BY <1>5, <2>1 DEF B!ReceiveRekey, B!ManagerTypeOK
  <1>6. CASE B!RequestMissingKey(h, key)
    <2>1. bPending' \in SUBSET B!Asks /\ bLastEph' \in Nat
          /\ B!Msg("KEYREQ", bLastEph + 1, 0, NoFp) \in B!Msgs
      BY <1>6, BRequestType DEF B!RequestMissingKey
    <2>2. bLane' \in [{HA} -> Seq(B!Msgs)]
      BY <1>0, <1>6, <2>1, BLaneType DEF B!RequestMissingKey
    <2> QED BY <1>6, <2>1, <2>2 DEF B!RequestMissingKey, B!ManagerTypeOK
  <1> QED BY <1>1, <1>2, <1>3, <1>4, <1>5, <1>6

LEMMA BCommandStepType ==
  ASSUME B!ManagerTypeOK, NEW h \in {HA}, NEW allowOut,
         \/ B!AcceptCached(h, allowOut)
         \/ B!AcceptWithoutRequest(h)
         \/ B!Decline(h)
         \/ B!Unrevoke(h)
         \/ B!Revoke(h)
         \/ B!ForgetHere(h)
         \/ B!Purge(h)
         \/ B!Handshake(h)
  PROVE  B!ManagerTypeOK'
  <1>0. bIncoming \in [{HA} -> B!Sessions] /\ bPeers \in [{FA} -> B!PeerRows]
        /\ bInbound \in [{HA} -> B!Requests] /\ bLane \in [{HA} -> Seq(B!Msgs)]
    BY DEF B!ManagerTypeOK
  <1> B!Statuses = {"none", "pending", "trusted", "revoked"}
    BY DEF B!Statuses
  <1>1. CASE B!AcceptCached(h, allowOut)
    <2>1. bInbound[h].fp \in {FA} /\ bInbound[h].eph \in Nat
      BY <1>0, <1>1 DEF B!AcceptCached, B!Requests
    <2>2. B!Serve(h, bInbound[h].fp, bInbound[h].eph, allowOut, bPeers')
          /\ UNCHANGED <<bIncoming, bMode, bAutotrust>>
      BY <1>1 DEF B!AcceptCached
    <2>3. bPeers' \in [{FA} -> B!PeerRows]
      BY <1>0, <1>1, <2>1, BPeerType DEF B!AcceptCached
    <2>4. bInbound' \in [{HA} -> B!Requests]
      BY <1>0, <1>1, BEmptyRowTypes DEF B!AcceptCached
    <2>5. /\ bOutgoing' \in B!KeyRows
          /\ bRekeys' \in [{HA} -> Seq(B!Wraps)]
          /\ bRecipients' \in [{HA} -> {FA} \cup {NoFp}]
          /\ bPending' \in SUBSET B!Asks
          /\ bLastEph' \in Nat
          /\ bLane' \in [{HA} -> Seq(B!Msgs)]
      BY <2>1, <2>2, BServeType
    <2> QED BY <2>2, <2>3, <2>4, <2>5 DEF B!ManagerTypeOK
  <1>2. ASSUME NEW st \in {"revoked", "trusted"}, B!FlipStatus(h, st)
        PROVE  B!ManagerTypeOK'
    <2>1. bIncoming' \in [{HA} -> B!Sessions]
      BY <1>0, <1>2, BStatusType DEF B!FlipStatus
    <2> QED BY <1>2, <2>1 DEF B!FlipStatus, B!ManagerTypeOK
  <1>4. CASE B!Revoke(h)
    <2>1. bIncoming' \in [{HA} -> B!Sessions]
      BY <1>0, <1>4, BStatusType DEF B!Revoke
    <2>2. bOutgoing' \in B!KeyRows
      BY <1>4 DEF B!Revoke, B!MarkRotation, B!KeyRows, B!ManagerTypeOK
    <2>3. bRecipients' \in [{HA} -> {FA} \cup {NoFp}]
      BY <1>4 DEF B!Revoke, B!ManagerTypeOK
    <2> QED BY <1>4, <2>1, <2>2, <2>3 DEF B!Revoke, B!ManagerTypeOK
  <1>7. CASE B!ForgetHere(h)
    <2>1. bIncoming' \in [{HA} -> B!Sessions] /\ bInbound' \in [{HA} -> B!Requests]
      BY <1>0, <1>7, BEmptyRowTypes DEF B!ForgetHere
    <2> QED BY <1>7, <2>1 DEF B!ForgetHere, B!ManagerTypeOK
  <1>8. CASE B!Purge(h)
    <2>1. bIncoming' \in [{HA} -> B!Sessions] /\ bInbound' \in [{HA} -> B!Requests]
          /\ bPeers' \in [{FA} -> B!PeerRows]
      BY <1>0, <1>8, BEmptyRowTypes DEF B!Purge
    <2>2. bRecipients' \in [{HA} -> {FA} \cup {NoFp}] /\ bPending' \in SUBSET B!Asks
      BY <1>8 DEF B!Purge, B!ManagerTypeOK
    <2> QED BY <1>8, <2>1, <2>2 DEF B!Purge, B!ManagerTypeOK
  <1>9. CASE B!Handshake(h)
    <2>1. bPending' \in SUBSET B!Asks /\ bLastEph' \in Nat
          /\ B!Msg("KEYREQ", bLastEph + 1, 0, NoFp) \in B!Msgs
      BY <1>9, BRequestType DEF B!Handshake
    <2>2. bLane' \in [{HA} -> Seq(B!Msgs)]
      BY <1>0, <1>9, <2>1, BLaneType DEF B!Handshake
    <2> QED BY <1>9, <2>1, <2>2 DEF B!Handshake, B!ManagerTypeOK
  <1> QED BY <1>1, <1>2, <1>4, <1>7, <1>8, <1>9
          DEF B!AcceptWithoutRequest, B!Decline, B!Unrevoke

LEMMA BConfigureStepType ==
  ASSUME B!ManagerTypeOK, B!Rotate \/ (\E m \in B!Modes : B!SetMode(m)) \/ B!Restart
  PROVE  B!ManagerTypeOK'
  <1>1. CASE B!Rotate
    <2>1. bOutgoing' \in B!KeyRows
      BY <1>1 DEF B!Rotate, B!MarkRotation, B!KeyRows, B!ManagerTypeOK
    <2> QED BY <1>1, <2>1 DEF B!Rotate, B!ManagerTypeOK
  <1>2. CASE \E m \in B!Modes : B!SetMode(m)
    BY <1>2 DEF B!SetMode, B!ManagerTypeOK
  <1>3. CASE B!Restart
    BY <1>3, BEmptyRowTypes, EmptySeq DEF B!Restart, B!ManagerTypeOK
  <1> QED BY <1>1, <1>2, <1>3
-----------------------------------------------------------------------------
(* What a step does to the keys A has drawn: none, one more, or a rotation *)
(* asked for by a command; and to the REKEYs in its queue.                 *)
AKeyMoves ==
  \/ aOutgoing' = aOutgoing /\ (aRekeys'[HB] = aRekeys[HB] \/ aRekeys'[HB] = <<>>)
  \/ /\ aOutgoing' = [key |-> A!KeyToUse, rotate |-> FALSE]
     /\ aRekeys'[HB] \in {aRekeys[HB], <<>>,
                          Append(aRekeys[HB], [fp |-> aRecipients[HB], key |-> A!KeyToUse])}
  \/ /\ aOutgoing' = A!MarkRotation /\ userSteps' = userSteps + 1
     /\ aRekeys'[HB] = aRekeys[HB]
BKeyMoves ==
  \/ bOutgoing' = bOutgoing
  \/ bOutgoing' = [key |-> B!KeyToUse, rotate |-> FALSE]
  \/ bOutgoing' = B!MarkRotation /\ userSteps' = userSteps + 1

LEMMA QueuedA ==
  ASSUME NEW pt
  PROVE  A!QueuedRekeys(pt)[HB] =
           IF /\ aOutgoing.key # 0 /\ aOutgoing.rotate /\ aRecipients[HB] # NoFp
              /\ pt[aRecipients[HB]].handle # NoHandle
           THEN Append(aRekeys[HB], [fp |-> aRecipients[HB], key |-> A!KeyToUse])
           ELSE aRekeys[HB]
  BY DEF A!QueuedRekeys

(* A key that is used is no further than the rotations asked for.          *)
LEMMA KeysInUse ==
  ASSUME ConvTyped
  PROVE  /\ A!KeyToUse \in 1 .. userSteps + 1 /\ aOutgoing.key \in Nat
         /\ A!KeyToUse >= aOutgoing.key
         /\ B!KeyToUse \in 1 .. userSteps + 1 /\ bOutgoing.key \in Nat
         /\ userSteps \in Nat
  <1>1. /\ aOutgoing \in [key : Nat, rotate : BOOLEAN] /\ userSteps \in Nat
        /\ bOutgoing \in [key : Nat, rotate : BOOLEAN]
    BY ConversationAssumption
       DEF ConvTyped, TypeOK, A!ManagerTypeOK, A!KeyRows, B!ManagerTypeOK, B!KeyRows
  <1> QED
    BY <1>1 DEF ConvTyped, KeyBound, A!KeyToUse, A!NeedsFreshKey, B!KeyToUse, B!NeedsFreshKey

LEMMA KeyMoves ==
  ASSUME ConvTyped, AKeyMoves, BKeyMoves, userSteps' \in {userSteps, userSteps + 1}
  PROVE  /\ KeyBound(aOutgoing)' /\ KeyBound(bOutgoing)' /\ QueueBound'
         /\ aOutgoing'.key \in 0 .. userSteps' + 1 /\ bOutgoing'.key \in 0 .. userSteps' + 1
         /\ aOutgoing'.key >= aOutgoing.key
  <1>1. /\ A!KeyToUse \in 1 .. userSteps + 1 /\ aOutgoing.key \in Nat
        /\ A!KeyToUse >= aOutgoing.key
        /\ B!KeyToUse \in 1 .. userSteps + 1 /\ bOutgoing.key \in Nat /\ userSteps \in Nat
    BY KeysInUse
  <1>2. /\ aOutgoing \in [key : Nat, rotate : BOOLEAN] /\ bOutgoing \in [key : Nat, rotate : BOOLEAN]
        /\ KeyBound(aOutgoing) /\ KeyBound(bOutgoing)
    BY DEF ConvTyped, TypeOK, A!ManagerTypeOK, A!KeyRows, B!ManagerTypeOK, B!KeyRows
  <1>3. KeyBound(aOutgoing)' /\ aOutgoing'.key \in 0 .. userSteps' + 1 /\ aOutgoing'.key >= aOutgoing.key
    BY <1>1, <1>2 DEF AKeyMoves, KeyBound, A!MarkRotation
  <1>4. KeyBound(bOutgoing)' /\ bOutgoing'.key \in 0 .. userSteps' + 1
    BY <1>1, <1>2 DEF BKeyMoves, KeyBound, B!MarkRotation
  <1>5. QueueBound'
    <2> DEFINE q == aRekeys[HB]
               w == [fp |-> aRecipients[HB], key |-> A!KeyToUse]
    <2>1. q \in Seq(A!Wraps) /\ QueueBound
      BY DEF ConvTyped, TypeOK, A!ManagerTypeOK
    <2>2. Len(q) \in Nat
      BY <2>1, LenProperties
    <2>3. CASE aRekeys'[HB] = q
      BY <1>1, <1>3, <2>1, <2>3 DEF QueueBound
    <2>4. CASE aRekeys'[HB] = <<>>
      BY <2>4 DEF QueueBound
    <2>5. CASE aRekeys'[HB] = Append(q, w) /\ aOutgoing'.key = A!KeyToUse
      <3>1. aRecipients[HB] \in {FB} \/ aRecipients[HB] = NoFp
        BY DEF ConvTyped, TypeOK, A!ManagerTypeOK
      <3>2. \A i \in 1 .. Len(q) : q[i].key \in 1 .. aOutgoing.key
        BY <2>1 DEF QueueBound
      <3> DEFINE T == A!Wraps \cup {w}
      <3>3. q \in Seq(T) /\ w \in T
        BY <2>1, SeqMonotonic
      <3>4. /\ Len(Append(q, w)) = Len(q) + 1 /\ Append(q, w)[Len(q) + 1] = w
            /\ \A i \in 1 .. Len(q) : Append(q, w)[i] = q[i]
        BY <3>3, AppendProperties
      <3>5. w.key = A!KeyToUse
        OBVIOUS
      <3> HIDE DEF q, w
      <3> DEFINE r == Append(q, w)
      <3>6. Len(r) = Len(q) + 1 /\ r[Len(q) + 1] = w /\ \A i \in 1 .. Len(q) : r[i] = q[i]
        BY <3>4
      <3>7. aRekeys'[HB] = r
        BY <2>5
      <3> HIDE DEF r
      <3>8. ASSUME NEW i \in 1 .. Len(r) PROVE r[i].key \in 1 .. aOutgoing'.key
        <4>1. CASE i = Len(q) + 1
          BY <1>1, <2>5, <3>5, <3>6, <4>1
        <4>2. CASE i \in 1 .. Len(q)
          BY <1>1, <2>5, <3>2, <3>6, <4>2
        <4> QED
          BY <2>2, <3>6, <4>1, <4>2
      <3> QED
        BY <3>7, <3>8 DEF QueueBound
    <2> QED
      BY <2>3, <2>4, <2>5 DEF AKeyMoves
  <1> QED
    BY <1>3, <1>4, <1>5

LEMMA AServeMoves ==
  ASSUME ConvTyped, NEW eph, NEW fp, NEW allowOut, NEW pt, A!Serve(HB, fp, eph, allowOut, pt),
         allowOut => aLastEph < MaxEph
  PROVE  AKeyMoves /\ aLastEph' \in 0 .. MaxEph
  <1>1. aLastEph \in 0 .. MaxEph /\ MaxEph \in Nat
    BY ConversationAssumption DEF ConvTyped, TypeOK
  <1>2. aOutgoing' = [key |-> A!KeyToUse, rotate |-> FALSE] /\ aRekeys' = A!QueuedRekeys(pt)
    BY DEF A!Serve, A!TakeKey
  <1>3. (allowOut /\ aLastEph' = aLastEph + 1) \/ aLastEph' = aLastEph
    BY DEF A!Serve, A!NewRequest
  <1>4. A!QueuedRekeys(pt)[HB] \in {aRekeys[HB], Append(aRekeys[HB], [fp |-> aRecipients[HB], key |-> A!KeyToUse])}
    <2>1. A!QueuedRekeys(pt)[HB] =
            IF /\ aOutgoing.key # 0 /\ aOutgoing.rotate /\ aRecipients[HB] # NoFp
               /\ pt[aRecipients[HB]].handle # NoHandle
            THEN Append(aRekeys[HB], [fp |-> aRecipients[HB], key |-> A!KeyToUse])
            ELSE aRekeys[HB]
      BY QueuedA
    <2> QED
      BY <2>1, Zenon
  <1>5. aRekeys'[HB] = A!QueuedRekeys(pt)[HB]
    BY <1>2, Zenon
  <1>6. AKeyMoves
    BY <1>2, <1>4, <1>5, Zenon DEF AKeyMoves
  <1> QED
    BY <1>1, <1>3, <1>6

LEMMA AReceivesTypes ==
  ASSUME ConvTyped, NEW m \in B!Msgs, AReceives(m)
  PROVE  A!ManagerTypeOK' /\ AKeyMoves /\ aLastEph' \in 0 .. MaxEph
  <1>1. A!ManagerTypeOK /\ aLastEph \in 0 .. MaxEph /\ MaxEph \in Nat /\ m.eph \in Nat /\ m.key \in Nat
    BY ConversationAssumption DEF ConvTyped, TypeOK, B!Msgs
  <1>2. CASE UNCHANGED aVars
    BY <1>1, <1>2 DEF aVars, aButLane, A!ManagerTypeOK, AKeyMoves
  <1>3. ASSUME NEW allowOut \in BOOLEAN, allowOut => aLastEph < MaxEph,
               A!ServeKeyReq(HB, FB, m.eph, allowOut)
        PROVE  A!ManagerTypeOK' /\ AKeyMoves /\ aLastEph' \in 0 .. MaxEph
    <2>1. A!ManagerTypeOK'
      BY <1>1, <1>3, AHandshakeStepType
    <2>2. A!Serve(HB, FB, m.eph, allowOut, aPeers')
      BY <1>3 DEF A!ServeKeyReq
    <2> QED
      BY <1>3, <2>1, <2>2, AServeMoves
  <1>4. CASE A!CacheKeyReq(HB, FB, m.eph) \/ A!IgnoreKeyReq(HB, FB) \/ A!ReceiveKeyRsp(HB, FB, m.eph, m.key)
             \/ A!ReceiveRekey(HB, FB, m.key)
    <2>1. A!ManagerTypeOK'
      BY <1>1, <1>4, AHandshakeStepType
    <2>2. UNCHANGED <<aOutgoing, aRekeys, aLastEph>>
      BY <1>4 DEF A!CacheKeyReq, A!IgnoreKeyReq, A!ReceiveKeyRsp, A!ReceiveRekey
    <2> QED
      BY <1>1, <2>1, <2>2 DEF AKeyMoves
  <1>5. CASE aLastEph < MaxEph /\ A!RequestMissingKey(HB, m.key)
    <2>1. A!ManagerTypeOK'
      BY <1>1, <1>5, AHandshakeStepType
    <2>2. UNCHANGED <<aOutgoing, aRekeys>> /\ aLastEph' = aLastEph + 1
      BY <1>5 DEF A!RequestMissingKey, A!NewRequest
    <2> QED
      BY <1>1, <1>5, <2>1, <2>2 DEF AKeyMoves
  <1> QED
    BY <1>2, <1>3, <1>4, <1>5 DEF AReceives

LEMMA ACommandTypes ==
  ASSUME ConvTyped, ACommand, userSteps' = userSteps + 1
  PROVE  A!ManagerTypeOK' /\ AKeyMoves /\ aLastEph' \in 0 .. MaxEph /\ disturbed' \subseteq Disturbances
  <1>1. A!ManagerTypeOK /\ aLastEph \in 0 .. MaxEph /\ MaxEph \in Nat /\ disturbed \subseteq Disturbances
    BY ConversationAssumption DEF ConvTyped, TypeOK
  <1>2. disturbed' \subseteq Disturbances
    BY <1>1 DEF ACommand, Disturb, Disturbances
  <1>3. ASSUME NEW allowOut \in BOOLEAN, allowOut => aLastEph < MaxEph, A!AcceptCached(HB, allowOut)
        PROVE  A!ManagerTypeOK' /\ AKeyMoves /\ aLastEph' \in 0 .. MaxEph
    <2>1. A!ManagerTypeOK'
      BY <1>1, <1>3, ACommandStepType
    <2>2. A!Serve(HB, aInbound[HB].fp, aInbound[HB].eph, allowOut, aPeers')
      BY <1>3 DEF A!AcceptCached
    <2> QED
      BY <1>3, <2>1, <2>2, AServeMoves
  <1>4. CASE aLastEph < MaxEph /\ A!Handshake(HB)
    <2>1. A!ManagerTypeOK'
      BY <1>1, <1>4, ACommandStepType
    <2>2. UNCHANGED <<aOutgoing, aRekeys>> /\ aLastEph' = aLastEph + 1
      BY <1>4 DEF A!Handshake, A!NewRequest
    <2> QED
      BY <1>1, <1>2, <1>4, <2>1, <2>2 DEF AKeyMoves
  <1>5. CASE A!Decline(HB) \/ A!Unrevoke(HB) \/ A!ForgetHere(HB) \/ A!Purge(HB)
    <2>1. A!ManagerTypeOK'
      BY <1>1, <1>5, ACommandStepType
    <2>2. UNCHANGED <<aOutgoing, aRekeys, aLastEph>>
      BY <1>5 DEF A!Decline, A!Unrevoke, A!FlipStatus, A!ForgetHere, A!Purge
    <2> QED
      BY <1>1, <1>2, <2>1, <2>2 DEF AKeyMoves
  <1>6. CASE A!Revoke(HB)
    <2>1. A!ManagerTypeOK'
      BY <1>1, <1>6, ACommandStepType
    <2>2. aOutgoing' = A!MarkRotation /\ UNCHANGED <<aRekeys, aLastEph>>
      BY <1>6 DEF A!Revoke
    <2> QED
      BY <1>1, <1>2, <2>1, <2>2 DEF AKeyMoves
  <1>7. CASE A!Rotate
    <2>1. A!ManagerTypeOK'
      BY <1>1, <1>7, AConfigureStepType
    <2>2. aOutgoing' = A!MarkRotation /\ UNCHANGED <<aRekeys, aLastEph>>
      BY <1>7 DEF A!Rotate
    <2> QED
      BY <1>1, <1>2, <2>1, <2>2 DEF AKeyMoves
  <1>8. ASSUME NEW mode \in {"auto", "normal"}, A!SetMode(mode)
        PROVE  A!ManagerTypeOK' /\ AKeyMoves /\ aLastEph' \in 0 .. MaxEph
    <2>1. A!ManagerTypeOK'
      BY <1>1, <1>8, AConfigureStepType DEF A!Modes
    <2>2. UNCHANGED <<aOutgoing, aRekeys, aLastEph>>
      BY <1>8 DEF A!SetMode
    <2> QED
      BY <1>1, <1>2, <2>1, <2>2 DEF AKeyMoves
  <1> QED
    BY <1>2, <1>3, <1>4, <1>5, <1>6, <1>7, <1>8 DEF ACommand

LEMMA BServeMoves ==
  ASSUME ConvTyped, NEW eph, NEW fp, NEW allowOut, NEW pt, B!Serve(HA, fp, eph, allowOut, pt),
         allowOut => bLastEph < MaxEph
  PROVE  BKeyMoves /\ bLastEph' \in 0 .. MaxEph
  <1>1. bLastEph \in 0 .. MaxEph /\ MaxEph \in Nat
    BY ConversationAssumption DEF ConvTyped, TypeOK
  <1>2. bOutgoing' = [key |-> B!KeyToUse, rotate |-> FALSE]
    BY DEF B!Serve, B!TakeKey
  <1>3. (allowOut /\ bLastEph' = bLastEph + 1) \/ bLastEph' = bLastEph
    BY DEF B!Serve, B!NewRequest
  <1> QED
    BY <1>1, <1>2, <1>3 DEF BKeyMoves

LEMMA BReceivesTypes ==
  ASSUME ConvTyped, NEW m \in A!Msgs, BReceives(m)
  PROVE  B!ManagerTypeOK' /\ BKeyMoves /\ bLastEph' \in 0 .. MaxEph
  <1>1. B!ManagerTypeOK /\ bLastEph \in 0 .. MaxEph /\ MaxEph \in Nat /\ m.eph \in Nat /\ m.key \in Nat
    BY ConversationAssumption DEF ConvTyped, TypeOK, A!Msgs
  <1>2. CASE UNCHANGED bVars
    BY <1>1, <1>2 DEF bVars, bButLane, B!ManagerTypeOK, BKeyMoves
  <1>3. ASSUME NEW allowOut \in BOOLEAN, allowOut => bLastEph < MaxEph,
               B!ServeKeyReq(HA, FA, m.eph, allowOut)
        PROVE  B!ManagerTypeOK' /\ BKeyMoves /\ bLastEph' \in 0 .. MaxEph
    <2>1. B!ManagerTypeOK'
      BY <1>1, <1>3, BHandshakeStepType
    <2>2. B!Serve(HA, FA, m.eph, allowOut, bPeers')
      BY <1>3 DEF B!ServeKeyReq
    <2> QED
      BY <1>3, <2>1, <2>2, BServeMoves
  <1>4. CASE B!CacheKeyReq(HA, FA, m.eph) \/ B!IgnoreKeyReq(HA, FA) \/ B!ReceiveKeyRsp(HA, FA, m.eph, m.key)
             \/ B!ReceiveRekey(HA, FA, m.key)
    <2>1. B!ManagerTypeOK'
      BY <1>1, <1>4, BHandshakeStepType
    <2>2. UNCHANGED <<bOutgoing, bLastEph>>
      BY <1>4 DEF B!CacheKeyReq, B!IgnoreKeyReq, B!ReceiveKeyRsp, B!ReceiveRekey
    <2> QED
      BY <1>1, <2>1, <2>2 DEF BKeyMoves
  <1>5. CASE bLastEph < MaxEph /\ B!RequestMissingKey(HA, m.key)
    <2>1. B!ManagerTypeOK'
      BY <1>1, <1>5, BHandshakeStepType
    <2>2. bOutgoing' = bOutgoing /\ bLastEph' = bLastEph + 1
      BY <1>5 DEF B!RequestMissingKey, B!NewRequest
    <2> QED
      BY <1>1, <1>5, <2>1, <2>2 DEF BKeyMoves
  <1> QED
    BY <1>2, <1>3, <1>4, <1>5 DEF BReceives

LEMMA BCommandTypes ==
  ASSUME ConvTyped, BCommand, userSteps' = userSteps + 1
  PROVE  B!ManagerTypeOK' /\ BKeyMoves /\ bLastEph' \in 0 .. MaxEph /\ disturbed' \subseteq Disturbances
  <1>1. B!ManagerTypeOK /\ bLastEph \in 0 .. MaxEph /\ MaxEph \in Nat /\ disturbed \subseteq Disturbances
    BY ConversationAssumption DEF ConvTyped, TypeOK
  <1>2. disturbed' \subseteq Disturbances
    BY <1>1 DEF BCommand, Disturb, Disturbances
  <1>3. ASSUME NEW allowOut \in BOOLEAN, allowOut => bLastEph < MaxEph, B!AcceptCached(HA, allowOut)
        PROVE  B!ManagerTypeOK' /\ BKeyMoves /\ bLastEph' \in 0 .. MaxEph
    <2>1. B!ManagerTypeOK'
      BY <1>1, <1>3, BCommandStepType
    <2>2. B!Serve(HA, bInbound[HA].fp, bInbound[HA].eph, allowOut, bPeers')
      BY <1>3 DEF B!AcceptCached
    <2> QED
      BY <1>3, <2>1, <2>2, BServeMoves
  <1>4. CASE bLastEph < MaxEph /\ B!Handshake(HA)
    <2>1. B!ManagerTypeOK'
      BY <1>1, <1>4, BCommandStepType
    <2>2. bOutgoing' = bOutgoing /\ bLastEph' = bLastEph + 1
      BY <1>4 DEF B!Handshake, B!NewRequest
    <2> QED
      BY <1>1, <1>2, <1>4, <2>1, <2>2 DEF BKeyMoves
  <1>5. CASE B!Decline(HA) \/ B!Unrevoke(HA) \/ B!ForgetHere(HA) \/ B!Purge(HA)
    <2>1. B!ManagerTypeOK'
      BY <1>1, <1>5, BCommandStepType
    <2>2. UNCHANGED <<bOutgoing, bLastEph>>
      BY <1>5 DEF B!Decline, B!Unrevoke, B!FlipStatus, B!ForgetHere, B!Purge
    <2> QED
      BY <1>1, <1>2, <2>1, <2>2 DEF BKeyMoves
  <1>6. CASE B!Revoke(HA)
    <2>1. B!ManagerTypeOK'
      BY <1>1, <1>6, BCommandStepType
    <2>2. bOutgoing' = B!MarkRotation /\ bLastEph' = bLastEph
      BY <1>6 DEF B!Revoke
    <2> QED
      BY <1>1, <1>2, <2>1, <2>2 DEF BKeyMoves
  <1>7. CASE B!Rotate
    <2>1. B!ManagerTypeOK'
      BY <1>1, <1>7, BConfigureStepType
    <2>2. bOutgoing' = B!MarkRotation /\ bLastEph' = bLastEph
      BY <1>7 DEF B!Rotate
    <2> QED
      BY <1>1, <1>2, <2>1, <2>2 DEF BKeyMoves
  <1>8. ASSUME NEW mode \in {"auto", "normal"}, B!SetMode(mode)
        PROVE  B!ManagerTypeOK' /\ BKeyMoves /\ bLastEph' \in 0 .. MaxEph
    <2>1. B!ManagerTypeOK'
      BY <1>1, <1>8, BConfigureStepType DEF B!Modes
    <2>2. UNCHANGED <<bOutgoing, bLastEph>>
      BY <1>8 DEF B!SetMode
    <2> QED
      BY <1>1, <1>2, <2>1, <2>2 DEF BKeyMoves
  <1> QED
    BY <1>2, <1>3, <1>4, <1>5, <1>6, <1>7, <1>8 DEF BCommand

(* Lines, and what they do to the REKEYs that wait.                        *)
LEMMA KeysOfQueue ==
  ASSUME ConvTyped
  PROVE  /\ KeysIn(aRekeys[HB]) \subseteq 1 .. aOutgoing.key
         /\ KeysIn(A!QueuedRekeys(aPeers)[HB]) \subseteq 1 .. A!KeyToUse
  <1> DEFINE q == aRekeys[HB]
             w == [fp |-> aRecipients[HB], key |-> A!KeyToUse]
             r == A!QueuedRekeys(aPeers)[HB]
  <1>1. q \in Seq(A!Wraps) /\ \A i \in 1 .. Len(q) : q[i].key \in 1 .. aOutgoing.key
    BY DEF ConvTyped, QueueBound, TypeOK, A!ManagerTypeOK
  <1>2. /\ A!KeyToUse \in Nat \ {0} /\ aOutgoing.key \in Nat /\ A!KeyToUse >= aOutgoing.key
    BY KeysInUse
  <1>3. KeysIn(q) \subseteq 1 .. aOutgoing.key
    BY <1>1 DEF KeysIn
  <1>4. r = q \/ r = Append(q, w)
    BY QueuedA, Zenon
  <1>5. q \in Seq(A!Wraps \cup {w}) /\ w \in A!Wraps \cup {w}
    BY <1>1, SeqMonotonic
  <1>6. /\ Len(Append(q, w)) = Len(q) + 1 /\ Append(q, w)[Len(q) + 1] = w
        /\ \A i \in 1 .. Len(q) : Append(q, w)[i] = q[i]
    BY <1>5, AppendProperties
  <1>7. Len(q) \in Nat /\ w.key = A!KeyToUse
    BY <1>1, LenProperties
  <1> HIDE DEF q, w, r
  <1>8. \A i \in 1 .. Len(r) : r[i].key \in 1 .. A!KeyToUse
    <2>1. CASE r = q
      BY <1>1, <1>2, <2>1
    <2>2. CASE r = Append(q, w)
      <3>1. Len(r) = Len(q) + 1 /\ r[Len(q) + 1] = w /\ \A i \in 1 .. Len(q) : r[i] = q[i]
        BY <1>6, <2>2
      <3>2. SUFFICES ASSUME NEW i \in 1 .. Len(r) PROVE r[i].key \in 1 .. A!KeyToUse
        OBVIOUS
      <3>3. CASE i = Len(q) + 1
        BY <1>2, <1>7, <3>1, <3>3
      <3>4. CASE i \in 1 .. Len(q)
        BY <1>1, <1>2, <3>1, <3>4
      <3> QED
        BY <1>7, <3>1, <3>2, <3>3, <3>4
    <2> QED
      BY <1>4, <2>1, <2>2
  <1>9. KeysIn(r) \subseteq 1 .. A!KeyToUse
    BY <1>8 DEF KeysIn
  <1> QED
    BY <1>3, <1>9 DEF q, r

LEMMA ASpeaksTypes ==
  ASSUME ConvTyped, ASpeaks \/ AElsewhere
  PROVE  /\ A!ManagerTypeOK' /\ AKeyMoves /\ aLastEph' \in 0 .. MaxEph
         /\ disturbed' \subseteq Disturbances /\ undelivered' \subseteq 1 .. aOutgoing'.key
         /\ UNCHANGED <<bVars, userSteps>>
  <1>1. /\ A!ManagerTypeOK /\ aLastEph \in 0 .. MaxEph /\ disturbed \subseteq Disturbances
        /\ undelivered \subseteq 1 .. aOutgoing.key
    BY DEF ConvTyped, TypeOK
  <1>2. /\ KeysIn(aRekeys[HB]) \subseteq 1 .. aOutgoing.key
        /\ KeysIn(A!QueuedRekeys(aPeers)[HB]) \subseteq 1 .. A!KeyToUse
        /\ A!KeyToUse \in Nat /\ aOutgoing.key \in Nat /\ A!KeyToUse >= aOutgoing.key
    BY KeysOfQueue, KeysInUse
  <1>3. CASE ASpeaks
    <2>1. PICK resolved \in SUBSET {HB} :
            /\ \/ A!EncryptLine({HB}, resolved)
               \/ A!EncryptOversizeLine({HB}, resolved)
            /\ Disturb("dropped", resolved = {} /\ A!QueuedRekeys(aPeers)[HB] # <<>>)
            /\ undelivered' = IF resolved = {}
                              THEN undelivered \cup KeysIn(A!QueuedRekeys(aPeers)[HB])
                              ELSE undelivered
      BY <1>3 DEF ASpeaks
    <2>2. A!ManagerTypeOK'
      BY <1>1, <2>1, ASpeakType
    <2>3. /\ aOutgoing' = [key |-> A!KeyToUse, rotate |-> FALSE]
          /\ aRekeys' = [h \in {HB} |-> <<>>] /\ aLastEph' = aLastEph
      BY <2>1 DEF A!EncryptLine, A!EncryptOversizeLine, A!SendLine
    <2>4. AKeyMoves
      BY <2>3 DEF AKeyMoves
    <2>5. disturbed' \subseteq Disturbances
      BY <1>1, <2>1 DEF Disturb, Disturbances
    <2>6. undelivered' \subseteq 1 .. aOutgoing'.key
      <3>1. aOutgoing'.key = A!KeyToUse /\ 1 .. aOutgoing.key \subseteq 1 .. A!KeyToUse
        BY <1>2, <2>3
      <3>2. undelivered' \subseteq undelivered \cup KeysIn(A!QueuedRekeys(aPeers)[HB])
        BY <2>1, Zenon
      <3> QED
        BY <1>1, <1>2, <3>1, <3>2
    <2> QED
      BY <1>1, <1>3, <2>2, <2>3, <2>4, <2>5, <2>6 DEF ASpeaks
  <1>4. CASE AElsewhere
    <2>1. A!EncryptElsewhere({}) /\ undelivered' = undelivered \cup KeysIn(aRekeys[HB])
      BY <1>4 DEF AElsewhere
    <2>2. A!ManagerTypeOK'
      BY <1>1, <2>1, ASpeakType
    <2>3. UNCHANGED <<aOutgoing, aLastEph>> /\ aRekeys' = [h \in {HB} |-> <<>>]
      BY <2>1 DEF A!EncryptElsewhere
    <2>4. AKeyMoves
      BY <2>3 DEF AKeyMoves
    <2>5. disturbed' \subseteq Disturbances
      BY <1>1, <1>4 DEF AElsewhere, Disturb, Disturbances
    <2> QED
      BY <1>1, <1>2, <1>4, <2>1, <2>2, <2>3, <2>4, <2>5 DEF AElsewhere
  <1> QED
    BY <1>3, <1>4

LEMMA BSpeaksTypes ==
  ASSUME ConvTyped, BSpeaks
  PROVE  /\ B!ManagerTypeOK' /\ BKeyMoves /\ bLastEph' \in 0 .. MaxEph
         /\ disturbed' \subseteq Disturbances /\ UNCHANGED <<aVars, undelivered, userSteps>>
  <1>1. B!ManagerTypeOK /\ bLastEph \in 0 .. MaxEph /\ disturbed \subseteq Disturbances
    BY DEF ConvTyped, TypeOK
  <1>2. PICK resolved \in SUBSET {HA} :
          /\ B!EncryptLine({HA}, resolved)
          /\ Disturb("dropped", resolved = {} /\ B!QueuedRekeys(bPeers)[HA] # <<>>)
    BY DEF BSpeaks
  <1>3. B!ManagerTypeOK'
    BY <1>1, <1>2, BSpeakType
  <1>4. bOutgoing' = [key |-> B!KeyToUse, rotate |-> FALSE] /\ bLastEph' = bLastEph
    BY <1>2 DEF B!EncryptLine, B!SendLine
  <1>5. disturbed' \subseteq Disturbances
    BY <1>1, <1>2 DEF Disturb, Disturbances
  <1> QED
    BY <1>1, <1>3, <1>4, <1>5 DEF BKeyMoves, BSpeaks

(* What a step leaves on a lane that it takes from.                        *)
LEMMA LaneTaken ==
  /\ A!ManagerTypeOK /\ ToB # <<>> =>
       Head(ToB) \in A!Msgs /\ [aLane EXCEPT ![HB] = Tail(@)] \in [{HB} -> Seq(A!Msgs)]
  /\ B!ManagerTypeOK /\ ToA # <<>> =>
       Head(ToA) \in B!Msgs /\ [bLane EXCEPT ![HA] = Tail(@)] \in [{HA} -> Seq(B!Msgs)]
  BY HeadTailProperties DEF A!ManagerTypeOK, B!ManagerTypeOK, ToA, ToB

(* Every step keeps every variable well typed.                             *)
LEMMA ConvTypedStep ==
  ASSUME ConvTyped, [Next]_vars
  PROVE  ConvTyped'
  <1> DEFINE Others == /\ disturbed' \subseteq Disturbances /\ userSteps' \in {userSteps, userSteps + 1}
                       /\ userSteps' <= MaxUserSteps
                       /\ undelivered' \subseteq 1 .. aOutgoing'.key
  <1>0. /\ A!ManagerTypeOK /\ B!ManagerTypeOK /\ disturbed \subseteq Disturbances
        /\ aLastEph \in 0 .. MaxEph /\ bLastEph \in 0 .. MaxEph
        /\ userSteps \in 0 .. MaxUserSteps /\ MaxUserSteps \in Nat /\ MaxEph \in Nat
        /\ undelivered \subseteq 1 .. aOutgoing.key /\ aOutgoing.key \in Nat
        /\ userSteps \in {userSteps, userSteps + 1} /\ userSteps <= MaxUserSteps
    BY ConversationAssumption, KeysInUse DEF ConvTyped, TypeOK
  <1>1. ASSUME A!ManagerTypeOK', B!ManagerTypeOK', AKeyMoves, BKeyMoves, Others,
               aLastEph' \in 0 .. MaxEph, bLastEph' \in 0 .. MaxEph
        PROVE  ConvTyped'
    <2>1. userSteps' \in 0 .. MaxUserSteps
      BY <1>0, <1>1
    <2>2. /\ KeyBound(aOutgoing)' /\ KeyBound(bOutgoing)' /\ QueueBound'
          /\ aOutgoing'.key \in 0 .. userSteps' + 1 /\ bOutgoing'.key \in 0 .. userSteps' + 1
      BY <1>1, KeyMoves
    <2> QED
      BY <1>1, <2>1, <2>2 DEF ConvTyped, TypeOK
  <1>2. ASSUME AKeyMoves, UNCHANGED undelivered
        PROVE  undelivered' \subseteq 1 .. aOutgoing'.key
    <2>1. A!KeyToUse \in Nat /\ A!KeyToUse >= aOutgoing.key
      BY KeysInUse
    <2>2. aOutgoing'.key \in Nat /\ aOutgoing'.key >= aOutgoing.key
      BY <1>0, <1>2, <2>1 DEF AKeyMoves, A!MarkRotation, A!ManagerTypeOK, A!KeyRows
    <2> QED
      BY <1>0, <1>2, <2>2
  <1>3. UNCHANGED aButLane => AKeyMoves
    BY DEF aButLane, AKeyMoves
  <1>4. UNCHANGED bButLane => BKeyMoves
    BY DEF bButLane, BKeyMoves
  <1>5. UNCHANGED aButLane /\ aLane' \in [{HB} -> Seq(A!Msgs)] => A!ManagerTypeOK' /\ aLastEph' \in 0 .. MaxEph
    BY <1>0 DEF aButLane, A!ManagerTypeOK
  <1>6. UNCHANGED bButLane /\ bLane' \in [{HA} -> Seq(B!Msgs)] => B!ManagerTypeOK' /\ bLastEph' \in 0 .. MaxEph
    BY <1>0 DEF bButLane, B!ManagerTypeOK
  <1>7. aLane \in [{HB} -> Seq(A!Msgs)] /\ bLane \in [{HA} -> Seq(B!Msgs)]
    BY <1>0 DEF A!ManagerTypeOK, B!ManagerTypeOK
  <1> HIDE DEF Others
  <1>a. CASE DeliverToA
    <2>1. /\ AReceives(Head(ToA)) /\ Head(ToA) \in B!Msgs
          /\ bLane' \in [{HA} -> Seq(B!Msgs)] /\ UNCHANGED <<bButLane, history>>
      BY <1>0, <1>a, LaneTaken DEF DeliverToA
    <2>2. A!ManagerTypeOK' /\ AKeyMoves /\ aLastEph' \in 0 .. MaxEph
      BY <2>1, AReceivesTypes
    <2>3. Others
      BY <1>0, <1>2, <2>1, <2>2 DEF Others, history
    <2> QED
      BY <1>1, <1>4, <1>6, <2>1, <2>2, <2>3
  <1>b. CASE DeliverToB
    <2>1. /\ BReceives(Head(ToB)) /\ Head(ToB) \in A!Msgs
          /\ aLane' \in [{HB} -> Seq(A!Msgs)] /\ UNCHANGED <<aButLane, history>>
      BY <1>0, <1>b, LaneTaken DEF DeliverToB
    <2>2. B!ManagerTypeOK' /\ BKeyMoves /\ bLastEph' \in 0 .. MaxEph
      BY <2>1, BReceivesTypes
    <2>3. Others
      BY <1>0, <1>2, <1>3, <2>1 DEF Others, history
    <2> QED
      BY <1>1, <1>3, <1>5, <2>1, <2>2, <2>3
  <1>c. CASE ASpeaks \/ AElsewhere
    <2>1. /\ A!ManagerTypeOK' /\ AKeyMoves /\ aLastEph' \in 0 .. MaxEph
          /\ disturbed' \subseteq Disturbances /\ undelivered' \subseteq 1 .. aOutgoing'.key
          /\ UNCHANGED <<bVars, userSteps>>
      BY <1>c, ASpeaksTypes
    <2>2. UNCHANGED bButLane /\ bLane' \in [{HA} -> Seq(B!Msgs)]
      BY <1>7, <2>1 DEF bVars
    <2>3. Others
      BY <1>0, <2>1 DEF Others
    <2> QED
      BY <1>1, <1>4, <1>6, <2>1, <2>2, <2>3
  <1>d. CASE BSpeaks
    <2>1. /\ B!ManagerTypeOK' /\ BKeyMoves /\ bLastEph' \in 0 .. MaxEph
          /\ disturbed' \subseteq Disturbances /\ UNCHANGED <<aVars, undelivered, userSteps>>
      BY <1>d, BSpeaksTypes
    <2>2. UNCHANGED aButLane /\ aLane' \in [{HB} -> Seq(A!Msgs)]
      BY <1>7, <2>1 DEF aVars
    <2>3. Others
      BY <1>0, <1>2, <1>3, <2>1, <2>2 DEF Others
    <2> QED
      BY <1>1, <1>3, <1>5, <2>1, <2>2, <2>3
  <1>e. CASE UserStep
    <2>0. /\ userSteps' = userSteps + 1 /\ userSteps' <= MaxUserSteps /\ UNCHANGED undelivered
          /\ \/ ACommand /\ UNCHANGED bVars
             \/ BCommand /\ UNCHANGED aVars
             \/ ARestarts \/ BRestarts
      BY <1>0, <1>e DEF UserStep
    <2>1. CASE ACommand /\ UNCHANGED bVars
      <3>1. A!ManagerTypeOK' /\ AKeyMoves /\ aLastEph' \in 0 .. MaxEph /\ disturbed' \subseteq Disturbances
        BY <2>0, <2>1, ACommandTypes
      <3>2. UNCHANGED bButLane /\ bLane' \in [{HA} -> Seq(B!Msgs)]
        BY <1>7, <2>1 DEF bVars
      <3>3. Others
        BY <1>2, <2>0, <3>1 DEF Others
      <3> QED
        BY <1>1, <1>4, <1>6, <3>1, <3>2, <3>3
    <2>2. CASE BCommand /\ UNCHANGED aVars
      <3>1. B!ManagerTypeOK' /\ BKeyMoves /\ bLastEph' \in 0 .. MaxEph /\ disturbed' \subseteq Disturbances
        BY <2>0, <2>2, BCommandTypes
      <3>2. UNCHANGED aButLane /\ aLane' \in [{HB} -> Seq(A!Msgs)]
        BY <1>7, <2>2 DEF aVars
      <3>3. Others
        BY <1>2, <1>3, <2>0, <3>1, <3>2 DEF Others
      <3> QED
        BY <1>1, <1>3, <1>5, <3>1, <3>2, <3>3
    <2>3. CASE ARestarts
      <3>1. /\ A!Restart /\ UNCHANGED bButLane /\ bLane' = [bLane EXCEPT ![HA] = <<>>]
            /\ disturbed' \subseteq disturbed \cup {"restart"}
        BY <2>3 DEF ARestarts, Disturb
      <3>2. A!ManagerTypeOK' /\ UNCHANGED <<aOutgoing, aLastEph>> /\ aRekeys'[HB] = <<>>
        BY <1>0, <3>1, AConfigureStepType DEF A!Restart
      <3>3. bLane' \in [{HA} -> Seq(B!Msgs)]
        BY <1>7, <3>1, EmptySeq
      <3>4. AKeyMoves
        BY <3>2 DEF AKeyMoves
      <3>5. Others
        BY <1>0, <1>2, <2>0, <3>1, <3>4 DEF Others, Disturbances
      <3> QED
        BY <1>0, <1>1, <1>4, <1>6, <3>1, <3>2, <3>3, <3>4, <3>5
    <2>4. CASE BRestarts
      <3>1. /\ B!Restart /\ UNCHANGED aButLane /\ aLane' = [aLane EXCEPT ![HB] = <<>>]
            /\ disturbed' \subseteq disturbed \cup {"restart"}
        BY <2>4 DEF BRestarts, Disturb
      <3>2. B!ManagerTypeOK' /\ UNCHANGED <<bOutgoing, bLastEph>>
        BY <1>0, <3>1, BConfigureStepType DEF B!Restart
      <3>3. aLane' \in [{HB} -> Seq(A!Msgs)]
        BY <1>7, <3>1, EmptySeq
      <3>4. BKeyMoves
        BY <3>2 DEF BKeyMoves
      <3>5. Others
        BY <1>0, <1>2, <1>3, <2>0, <3>1 DEF Others, Disturbances
      <3> QED
        BY <1>0, <1>1, <1>3, <1>5, <3>1, <3>2, <3>3, <3>4, <3>5
    <2> QED
      BY <2>0, <2>1, <2>2, <2>3, <2>4
  <1>f. CASE UNCHANGED vars
    <2>1. UNCHANGED <<aButLane, aLane, bButLane, bLane, history>>
      BY <1>f DEF vars, aVars, bVars
    <2>2. Others
      BY <1>0, <1>2, <1>3, <2>1 DEF Others, history
    <2> QED
      BY <1>1, <1>3, <1>4, <1>5, <1>6, <1>7, <2>1, <2>2
  <1> QED
    BY <1>a, <1>b, <1>c, <1>d, <1>e, <1>f DEF Next

LEMMA ConvTypedInit == Init => ConvTyped
  <1> SUFFICES ASSUME Init PROVE ConvTyped
    OBVIOUS
  <1>1. A!ManagerTypeOK
    BY AEmptyRowTypes, EmptySeq DEF Init, A!ManagerInit, A!ManagerTypeOK, A!KeyRows
  <1>2. B!ManagerTypeOK
    BY BEmptyRowTypes, EmptySeq DEF Init, B!ManagerInit, B!ManagerTypeOK, B!KeyRows
  <1>3. /\ aOutgoing = [key |-> 0, rotate |-> FALSE] /\ bOutgoing = [key |-> 0, rotate |-> FALSE]
        /\ aLastEph = 0 /\ bLastEph = 0 /\ aRekeys[HB] = <<>>
        /\ disturbed = {} /\ undelivered = {} /\ userSteps = 0
    BY DEF Init, A!ManagerInit, B!ManagerInit
  <1>4. KeyBound(aOutgoing) /\ KeyBound(bOutgoing) /\ QueueBound
    BY <1>3 DEF KeyBound, QueueBound
  <1>5. MaxEph \in Nat /\ MaxUserSteps \in Nat
    BY ConversationAssumption
  <1>6. TypeOK
    BY <1>1, <1>2, <1>3, <1>5 DEF TypeOK
  <1> QED
    BY <1>4, <1>6 DEF ConvTyped

(* Whatever both users do and the network delivers, in any number: every   *)
(* table keeps its types, and no key is drawn that nothing asked for.      *)
THEOREM ConversationTypes == Spec => []TypeOK
  <1>1. ConvTyped /\ [Next]_vars => ConvTyped'
    BY ConvTypedStep
  <1>2. ConvTyped => TypeOK
    BY DEF ConvTyped
  <1> QED
    BY <1>1, <1>2, ConvTypedInit, PTL DEF Spec
-----------------------------------------------------------------------------
(* Requests, answers and keys on a lane, for any queue of messages.        *)
LEMMA EphsBehind ==
  ASSUME NEW T, NEW q \in Seq(T), NEW m \in T, NEW type
  PROVE  /\ EphsOf(Append(q, m), type) = EphsOf(q, type) \cup (IF m.type = type THEN {m.eph} ELSE {})
         /\ EachOnce(q, type) /\ (m.type = type => m.eph \notin EphsOf(q, type)) =>
              EachOnce(Append(q, m), type)
  <1> DEFINE r == Append(q, m)
  <1>1. /\ Len(r) = Len(q) + 1 /\ r[Len(q) + 1] = m /\ Len(q) \in Nat
        /\ \A i \in 1 .. Len(q) : r[i] = q[i]
    BY AppendProperties, LenProperties
  <1> HIDE DEF r
  <1>2. \A i \in 1 .. Len(r) : i \in 1 .. Len(q) \/ i = Len(q) + 1
    BY <1>1
  <1>3. \A i \in 1 .. Len(q) : i \in 1 .. Len(r) /\ i # Len(q) + 1
    BY <1>1
  <1>4. Len(q) + 1 \in 1 .. Len(r)
    BY <1>1
  <1>5. EphsOf(r, type) = EphsOf(q, type) \cup (IF m.type = type THEN {m.eph} ELSE {})
    <2>1. ASSUME NEW e \in EphsOf(r, type)
          PROVE  e \in EphsOf(q, type) \cup (IF m.type = type THEN {m.eph} ELSE {})
      <3>1. PICK i \in 1 .. Len(r) : r[i].type = type /\ e = r[i].eph
        BY DEF EphsOf
      <3> QED
        BY <1>1, <1>2, <3>1 DEF EphsOf
    <2>2. ASSUME NEW e \in EphsOf(q, type)
          PROVE  e \in EphsOf(r, type)
      <3>1. PICK i \in 1 .. Len(q) : q[i].type = type /\ e = q[i].eph
        BY DEF EphsOf
      <3> QED
        BY <1>1, <1>3, <3>1 DEF EphsOf
    <2>3. m.type = type => m.eph \in EphsOf(r, type)
      BY <1>1, <1>4 DEF EphsOf
    <2> QED
      BY <2>1, <2>2, <2>3
  <1>6. ASSUME EachOnce(q, type), m.type = type => m.eph \notin EphsOf(q, type)
        PROVE  EachOnce(r, type)
    <2>1. ASSUME NEW i \in 1 .. Len(q), q[i].type = type PROVE q[i].eph \in EphsOf(q, type)
      BY <2>1 DEF EphsOf
    <2>2. SUFFICES ASSUME NEW i \in 1 .. Len(r), NEW j \in 1 .. Len(r),
                          r[i].type = type, r[j].type = type, r[i].eph = r[j].eph
                   PROVE  i = j
      BY DEF EachOnce
    <2>3. CASE i \in 1 .. Len(q) /\ j \in 1 .. Len(q)
      BY <1>1, <1>6, <2>2, <2>3 DEF EachOnce
    <2>4. CASE i = Len(q) + 1 /\ j \in 1 .. Len(q)
      BY <1>1, <1>6, <2>1, <2>2, <2>4
    <2>5. CASE i \in 1 .. Len(q) /\ j = Len(q) + 1
      BY <1>1, <1>6, <2>1, <2>2, <2>5
    <2> QED
      BY <1>2, <2>3, <2>4, <2>5
  <1> QED
    BY <1>5, <1>6 DEF r

LEMMA EphsBesideOthers ==
  ASSUME NEW T, NEW q \in Seq(T), NEW m \in T, NEW type, m.type # type
  PROVE  EphsOf(Append(q, m), type) = EphsOf(q, type) /\ (EachOnce(q, type) => EachOnce(Append(q, m), type))
  <1>1. EphsOf(Append(q, m), type) = EphsOf(q, type) \cup (IF m.type = type THEN {m.eph} ELSE {})
    BY EphsBehind
  <1>2. EachOnce(q, type) => EachOnce(Append(q, m), type)
    BY EphsBehind
  <1>3. EphsOf(Append(q, m), type) = EphsOf(q, type) \cup {}
    BY <1>1
  <1> QED
    BY <1>2, <1>3

LEMMA EphsAfter ==
  ASSUME NEW T, NEW q \in Seq(T), q # <<>>, NEW type
  PROVE  /\ EphsOf(Tail(q), type) \subseteq EphsOf(q, type)
         /\ Head(q).type = type => Head(q).eph \in EphsOf(q, type)
         /\ EachOnce(q, type) => /\ EachOnce(Tail(q), type)
                                 /\ Head(q).type = type => Head(q).eph \notin EphsOf(Tail(q), type)
  <1> DEFINE r == Tail(q)
  <1>1. /\ Len(r) = Len(q) - 1 /\ Len(q) \in Nat \ {0} /\ Head(q) = q[1]
        /\ \A i \in 1 .. Len(r) : r[i] = q[i + 1]
    BY HeadTailProperties, LenProperties, EmptySeq
  <1> HIDE DEF r
  <1>2. \A i \in 1 .. Len(r) : i \in Nat /\ i + 1 \in 1 .. Len(q) /\ i + 1 # 1
    BY <1>1
  <1>3. 1 \in 1 .. Len(q)
    BY <1>1
  <1>4. EphsOf(r, type) \subseteq EphsOf(q, type)
    BY <1>1, <1>2 DEF EphsOf
  <1>5. Head(q).type = type => Head(q).eph \in EphsOf(q, type)
    BY <1>1, <1>3 DEF EphsOf
  <1>6. EachOnce(q, type) => EachOnce(r, type)
    <2> SUFFICES ASSUME EachOnce(q, type), NEW i \in 1 .. Len(r), NEW j \in 1 .. Len(r),
                        r[i].type = type, r[j].type = type, r[i].eph = r[j].eph
                 PROVE  i = j
      BY DEF EachOnce
    <2>1. i + 1 = j + 1
      BY <1>1, <1>2 DEF EachOnce
    <2> QED
      BY <1>2, <2>1
  <1>7. EachOnce(q, type) /\ Head(q).type = type => Head(q).eph \notin EphsOf(r, type)
    <2> SUFFICES ASSUME EachOnce(q, type), Head(q).type = type, Head(q).eph \in EphsOf(r, type)
                 PROVE  FALSE
      OBVIOUS
    <2>1. PICK i \in 1 .. Len(r) : r[i].type = type /\ r[i].eph = Head(q).eph
      BY DEF EphsOf
    <2> QED
      BY <1>1, <1>2, <1>3, <2>1 DEF EachOnce
  <1> QED
    BY <1>4, <1>5, <1>6, <1>7 DEF r

LEMMA EphsBesideRekeys ==
  ASSUME NEW T, NEW q \in Seq(T), NEW r \in Seq(T), \A i \in 1 .. Len(r) : r[i].type = "REKEY",
         NEW type, type # "REKEY"
  PROVE  EphsOf(q \o r, type) = EphsOf(q, type) /\ (EachOnce(q, type) => EachOnce(q \o r, type))
  <1> DEFINE s == q \o r
  <1>1. /\ Len(s) = Len(q) + Len(r) /\ Len(q) \in Nat /\ Len(r) \in Nat
        /\ \A i \in 1 .. Len(q) : s[i] = q[i]
        /\ \A i \in 1 .. Len(s) : i > Len(q) => s[i] = r[i - Len(q)]
    BY ConcatProperties, LenProperties
  <1> HIDE DEF s
  <1>2. \A i \in 1 .. Len(q) : i \in 1 .. Len(s)
    BY <1>1
  <1>3. \A i \in 1 .. Len(s) : i > Len(q) => i - Len(q) \in 1 .. Len(r)
    BY <1>1
  <1>4. \A i \in 1 .. Len(s) : i > Len(q) => s[i].type # type
    BY <1>1, <1>3
  <1>5. \A i \in 1 .. Len(s) : s[i].type = type => i \in 1 .. Len(q) /\ s[i] = q[i]
    BY <1>1, <1>4
  <1>6. EphsOf(s, type) = EphsOf(q, type)
    <2>1. \A e \in EphsOf(s, type) : e \in EphsOf(q, type)
      BY <1>5 DEF EphsOf
    <2>2. \A e \in EphsOf(q, type) : e \in EphsOf(s, type)
      BY <1>1, <1>2 DEF EphsOf
    <2> QED
      BY <2>1, <2>2
  <1>7. EachOnce(q, type) => EachOnce(s, type)
    BY <1>5 DEF EachOnce
  <1> QED
    BY <1>6, <1>7 DEF s

LEMMA KeyBehind ==
  ASSUME NEW T, NEW q \in Seq(T), NEW m \in T, NEW k, NEW c,
         IF Carries(m) THEN m.key = c ELSE LastKey(q, k, c)
  PROVE  LastKey(Append(q, m), k, c)
  <1> DEFINE r == Append(q, m)
  <1>1. /\ Len(r) = Len(q) + 1 /\ r[Len(q) + 1] = m /\ Len(q) \in Nat
        /\ \A i \in 1 .. Len(q) : r[i] = q[i]
    BY AppendProperties, LenProperties
  <1> HIDE DEF r
  <1>2. \A i \in 1 .. Len(r) : i \in 1 .. Len(q) \/ i = Len(q) + 1
    BY <1>1
  <1>3. CASE Carries(m)
    <2>1. Len(q) + 1 \in 1 .. Len(r) /\ \A j \in (Len(q) + 1) + 1 .. Len(r) : FALSE
      BY <1>1
    <2> QED
      BY <1>1, <1>3, <2>1 DEF LastKey, r
  <1>4. CASE ~Carries(m)
    <2>1. CASE \A i \in 1 .. Len(q) : ~Carries(q[i])
      <3>1. k \in {0, c}
        BY <1>4, <2>1 DEF LastKey
      <3>2. \A i \in 1 .. Len(r) : ~Carries(r[i])
        BY <1>1, <1>2, <1>4, <2>1
      <3> QED
        BY <3>1, <3>2 DEF LastKey, r
    <2>2. ASSUME NEW i \in 1 .. Len(q), Carries(q[i]), q[i].key = c,
                 \A j \in i + 1 .. Len(q) : ~Carries(q[j])
          PROVE  LastKey(r, k, c)
      <3>1. i \in 1 .. Len(r) /\ Carries(r[i]) /\ r[i].key = c
        BY <1>1, <2>2
      <3>2. ASSUME NEW j \in i + 1 .. Len(r) PROVE ~Carries(r[j])
        <4>1. CASE j = Len(q) + 1
          BY <1>1, <1>4, <4>1
        <4>2. CASE j # Len(q) + 1
          <5>1. j \in i + 1 .. Len(q) /\ j \in 1 .. Len(q)
            BY <1>1, <4>2
          <5> QED
            BY <1>1, <2>2, <5>1
        <4> QED
          BY <4>1, <4>2
      <3> QED
        BY <3>1, <3>2 DEF LastKey
    <2> QED
      BY <1>4, <2>1, <2>2 DEF LastKey, r
  <1> QED
    BY <1>3, <1>4

LEMMA KeyAfter ==
  ASSUME NEW T, NEW q \in Seq(T), q # <<>>, NEW k, NEW c, LastKey(q, k, c)
  PROVE  LastKey(Tail(q), IF Carries(Head(q)) THEN Head(q).key ELSE k, c)
  <1> DEFINE r == Tail(q)
  <1>1. /\ Len(r) = Len(q) - 1 /\ Len(q) \in Nat \ {0} /\ Head(q) = q[1]
        /\ \A i \in 1 .. Len(r) : r[i] = q[i + 1]
    BY HeadTailProperties, LenProperties, EmptySeq
  <1> HIDE DEF r
  <1>2. \A i \in 1 .. Len(r) : i \in Nat /\ i + 1 \in 1 .. Len(q) /\ i + 1 # 1
    BY <1>1
  <1>3. 1 \in 1 .. Len(q)
    BY <1>1
  <1>4. CASE \A i \in 1 .. Len(q) : ~Carries(q[i])
    <2>1. k \in {0, c}
      BY <1>4 DEF LastKey
    <2>2. \A i \in 1 .. Len(r) : ~Carries(r[i])
      BY <1>1, <1>2, <1>4
    <2>3. ~Carries(Head(q))
      BY <1>1, <1>3, <1>4
    <2> QED
      BY <2>1, <2>2, <2>3 DEF LastKey, r
  <1>5. ASSUME NEW i \in 1 .. Len(q), Carries(q[i]), q[i].key = c,
               \A j \in i + 1 .. Len(q) : ~Carries(q[j])
        PROVE  LastKey(r, IF Carries(Head(q)) THEN Head(q).key ELSE k, c)
    <2>1. CASE i = 1
      <3>1. \A j \in 1 .. Len(r) : j + 1 \in i + 1 .. Len(q)
        BY <1>1, <2>1
      <3>2. \A j \in 1 .. Len(r) : ~Carries(r[j])
        BY <1>1, <1>5, <3>1
      <3>3. Carries(Head(q)) /\ Head(q).key = c
        BY <1>1, <1>5, <2>1
      <3> QED
        BY <3>2, <3>3 DEF LastKey
    <2>2. CASE i # 1
      <3>1. i - 1 \in 1 .. Len(r) /\ (i - 1) + 1 = i
        BY <1>1, <2>2
      <3>2. Carries(r[i - 1]) /\ r[i - 1].key = c
        BY <1>1, <1>5, <3>1
      <3>3. \A j \in (i - 1) + 1 .. Len(r) : j \in 1 .. Len(r) /\ j + 1 \in i + 1 .. Len(q)
        BY <1>1, <2>2
      <3>4. \A j \in (i - 1) + 1 .. Len(r) : ~Carries(r[j])
        BY <1>1, <1>5, <3>3
      <3> QED
        BY <3>1, <3>2, <3>4 DEF LastKey
    <2> QED
      BY <2>1, <2>2
  <1> QED
    BY <1>4, <1>5 DEF LastKey, r

LEMMA KeyBehindRekeys ==
  ASSUME NEW T, NEW q \in Seq(T), NEW r \in Seq(T), r # <<>>,
         \A i \in 1 .. Len(r) : Carries(r[i]), NEW k, NEW c, r[Len(r)].key = c
  PROVE  LastKey(q \o r, k, c)
  <1> DEFINE s == q \o r
             n == Len(s)
  <1>1. /\ Len(s) = Len(q) + Len(r) /\ Len(q) \in Nat /\ Len(r) \in Nat \ {0}
        /\ \A i \in 1 .. Len(s) : i > Len(q) => s[i] = r[i - Len(q)]
    BY ConcatProperties, LenProperties, EmptySeq
  <1> HIDE DEF s
  <1>2. n \in 1 .. Len(s) /\ n > Len(q) /\ n - Len(q) = Len(r) /\ Len(r) \in 1 .. Len(r)
    BY <1>1
  <1>3. s[n] = r[Len(r)]
    BY <1>1, <1>2
  <1>4. \A j \in n + 1 .. Len(s) : FALSE
    BY <1>1
  <1>5. Carries(s[n]) /\ s[n].key = c
    BY <1>2, <1>3
  <1>6. LastKey(s, k, c)
    BY <1>2, <1>4, <1>5 DEF LastKey
  <1> QED
    BY <1>6 DEF s

LEMMA NoKeyYet ==
  ASSUME NEW q, NEW k, NEW c, LastKey(q, k, c)
  PROVE  LastKey(q, 0, c)
  BY DEF LastKey
-----------------------------------------------------------------------------
(* What A does keeps a recipient's key coming.  The REKEYs queued when A   *)
(* takes its key end in that key, and none is queued only if it is known.  *)
LEMMA LaneSeqs == ConvTyped => ToB \in Seq(A!Msgs) /\ ToA \in Seq(B!Msgs) /\ aRekeys[HB] \in Seq(A!Wraps)
  BY DEF ConvTyped, TypeOK, A!ManagerTypeOK, B!ManagerTypeOK, ToA, ToB

LEMMA ATables ==
  ASSUME ConvTyped
  PROVE  /\ aRecipients[HB] \in {FB, NoFp} /\ aInbound[HB].fp \in {FB, NoFp} /\ aOutgoing.rotate \in BOOLEAN
         /\ aOutgoing.key \in Nat /\ FB # NoFp /\ HB # NoHandle /\ FA # NoFp /\ HA # NoHandle
  BY ConversationAssumption DEF ConvTyped, TypeOK, A!ManagerTypeOK, A!Requests, A!KeyRows

LEMMA QueueEnds ==
  ASSUME ConvTyped, ARecipientIsTrue, KeyIsComing, NEW pt, A!Pinned(FB) => pt[FB].handle # NoHandle
  PROVE  /\ A!QueuedRekeys(pt)[HB] \in Seq(A!Wraps)
         /\ A!QueuedRekeys(pt)[HB] # <<>> =>
              /\ A!QueuedRekeys(pt)[HB][Len(A!QueuedRekeys(pt)[HB])].key = A!KeyToUse
              /\ aRecipients[HB] # NoFp
         /\ A!QueuedRekeys(pt)[HB] = <<>> /\ aRecipients[HB] = FB =>
              aRekeys[HB] = <<>> /\ ~aOutgoing.rotate /\ A!KeyToUse = aOutgoing.key
  <1> DEFINE q == aRekeys[HB]
             w == [fp |-> aRecipients[HB], key |-> A!KeyToUse]
             r == A!QueuedRekeys(pt)[HB]
             Due == /\ aOutgoing.key # 0 /\ aOutgoing.rotate /\ aRecipients[HB] # NoFp
                    /\ pt[aRecipients[HB]].handle # NoHandle
  <1>1. /\ aRecipients[HB] \in {FB, NoFp} /\ aOutgoing.rotate \in BOOLEAN /\ FB # NoFp
        /\ q \in Seq(A!Wraps)
    BY ATables, LaneSeqs
  <1>2. r = IF Due THEN Append(q, w) ELSE q
    BY QueuedA
  <1>3. A!QueuedRekeys(pt) \in [{HB} -> Seq(A!Wraps)]
    BY ATakeKeyType DEF ConvTyped, TypeOK
  <1>4. r \in Seq(A!Wraps)
    BY <1>3
  <1>5. CASE Due
    <2>1. q \in Seq(A!Wraps \cup {w}) /\ w \in A!Wraps \cup {w}
      BY <1>1, SeqMonotonic
    <2>2. Append(q, w)[Len(q) + 1] = w /\ Len(Append(q, w)) = Len(q) + 1 /\ Append(q, w) # <<>>
      BY <2>1, AppendProperties
    <2>3. r = Append(q, w)
      BY <1>2, <1>5
    <2>4. w.key = A!KeyToUse
      OBVIOUS
    <2> HIDE DEF r, q, w
    <2>5. r # <<>> /\ r[Len(r)] = w
      BY <2>2, <2>3
    <2> QED
      BY <1>4, <1>5, <2>4, <2>5 DEF r
  <1>6. CASE ~Due
    <2>1. r = q
      BY <1>2, <1>6
    <2>2. aRecipients[HB] = FB => ~aOutgoing.rotate /\ A!KeyToUse = aOutgoing.key
      BY <1>1, <1>6 DEF ARecipientIsTrue, A!KeyToUse, A!NeedsFreshKey
    <2>3. q # <<>> => aRecipients[HB] = FB
      BY <1>1 DEF ARecipientIsTrue
    <2>4. q # <<>> => q[Len(q)].key = A!KeyToUse
      BY <2>2, <2>3 DEF KeyIsComing
    <2> HIDE DEF r, q, w, Due
    <2>5. r # <<>> => r[Len(r)].key = A!KeyToUse
      BY <2>1, <2>4
    <2> QED
      BY <1>1, <1>4, <2>1, <2>2, <2>3, <2>5 DEF r, q
  <1> QED
    BY <1>5, <1>6

(* What holds of B and of its requests while A takes a step.               *)
BStands ==
  /\ UNCHANGED <<bPeers, bIncoming, bPending, bLastEph>>
  /\ EphsOf(ToA, "KEYREQ")' \subseteq EphsOf(ToA, "KEYREQ") /\ EachOnce(ToA, "KEYREQ")'

LEMMA BStandsOn ==
  ASSUME BStands
  PROVE  /\ BPeersAreTrue => BPeersAreTrue' /\ Awaited' = Awaited
         /\ bIncoming'[HA].key = bIncoming[HA].key
  BY DEF BStands, BPeersAreTrue, Awaited, B!Pinned

(* A request that is answered is one that B awaits, and no other waits.    *)
AwaitedOnly(e) ==
  /\ e \in Awaited /\ e \notin EphsOf(ToA, "KEYREQ")'
  /\ e \notin EphsOf(ToB, "KEYRSP")

LEMMA AQuietKeeps ==
  ASSUME ConvTyped, ARecipientIsTrue, AnswersAreAwaited, KeyIsComing, BStands,
         UNCHANGED <<aRecipients, aOutgoing, aRekeys>>, A!Pinned(FB) => A!Pinned(FB)',
         \/ ToB' = ToB
         \/ \E e : ToB' = Append(ToB, A!Msg("KEYREQ", e, 0, NoFp)) /\ A!Msg("KEYREQ", e, 0, NoFp) \in A!Msgs,
         \/ Cached' \subseteq Cached
         \/ \E e : AwaitedOnly(e) /\ Cached' = {e}
  PROVE  ARecipientIsTrue' /\ AnswersAreAwaited' /\ KeyIsComing'
  <1>1. ToB \in Seq(A!Msgs)
    BY LaneSeqs
  <1>2. /\ EphsOf(ToB, "KEYRSP")' = EphsOf(ToB, "KEYRSP") /\ EachOnce(ToB, "KEYRSP")'
        /\ \A k, c : LastKey(ToB, k, c) => LastKey(ToB', k, c)
    <2>1. CASE ToB' = ToB
      BY <2>1 DEF AnswersAreAwaited
    <2>2. ASSUME NEW e, ToB' = Append(ToB, A!Msg("KEYREQ", e, 0, NoFp)), A!Msg("KEYREQ", e, 0, NoFp) \in A!Msgs
          PROVE  /\ EphsOf(ToB, "KEYRSP")' = EphsOf(ToB, "KEYRSP") /\ EachOnce(ToB, "KEYRSP")'
                 /\ \A k, c : LastKey(ToB, k, c) => LastKey(ToB', k, c)
      <3> DEFINE m == A!Msg("KEYREQ", e, 0, NoFp)
      <3>1. m \in A!Msgs /\ m.type = "KEYREQ" /\ ~Carries(m)
        BY <2>2 DEF A!Msg, Carries
      <3> HIDE DEF m
      <3>2. /\ EphsOf(Append(ToB, m), "KEYRSP") = EphsOf(ToB, "KEYRSP")
            /\ EachOnce(ToB, "KEYRSP") => EachOnce(Append(ToB, m), "KEYRSP")
        BY <1>1, <3>1, EphsBesideOthers
      <3>3. ASSUME NEW k, NEW c, LastKey(ToB, k, c) PROVE LastKey(Append(ToB, m), k, c)
        BY <1>1, <3>1, <3>3, KeyBehind
      <3>4. ToB' = Append(ToB, m)
        BY <2>2 DEF m
      <3> QED
        BY <3>2, <3>3, <3>4 DEF AnswersAreAwaited
    <2> QED
      BY <2>1, <2>2
  <1>3. ARecipientIsTrue'
    BY DEF ARecipientIsTrue
  <1>4. Awaited' = Awaited /\ bIncoming'[HA].key = bIncoming[HA].key
    BY BStandsOn DEF BStands, Awaited
  <1>5. KeyIsComing'
    BY <1>2, <1>4 DEF KeyIsComing
  <1>6. /\ Cached' \subseteq Awaited /\ Cached' \cap EphsOf(ToA, "KEYREQ")' = {}
        /\ Cached' \cap EphsOf(ToB, "KEYRSP") = {}
    BY DEF AnswersAreAwaited, AwaitedOnly, BStands
  <1>7. AnswersAreAwaited'
    BY <1>2, <1>4, <1>6 DEF AnswersAreAwaited, BStands
  <1> QED
    BY <1>3, <1>5, <1>7

(* A answers a request, at once or when its user accepts it.               *)
LEMMA AServeKeeps ==
  ASSUME ConvTyped, ARecipientIsTrue, AnswersAreAwaited, KeyIsComing, BStands,
         NEW e, NEW allowOut, A!Serve(HB, FB, e, allowOut, aPeers'), e \in Nat,
         A!Pinned(FB)', AwaitedOnly(e), Cached' \subseteq Cached \ {e}
  PROVE  ARecipientIsTrue' /\ AnswersAreAwaited' /\ KeyIsComing'
  <1> DEFINE rsp == A!Msg("KEYRSP", e, A!KeyToUse, FB)
             req == A!Msg("KEYREQ", aLastEph + 1, 0, NoFp)
  <1>1. /\ aOutgoing' = [key |-> A!KeyToUse, rotate |-> FALSE] /\ aRekeys' = A!QueuedRekeys(aPeers')
        /\ aRecipients' = [aRecipients EXCEPT ![HB] = FB]
    BY DEF A!Serve, A!TakeKey
  <1>2. aLane' = [aLane EXCEPT ![HB] = Append(@, rsp)] \/ aLane' = [aLane EXCEPT ![HB] = @ \o <<rsp, req>>]
    BY DEF A!Serve
  <1>3. /\ aLane \in [{HB} -> Seq(A!Msgs)] /\ aRecipients \in [{HB} -> {FB} \cup {NoFp}] /\ aLastEph \in Nat
        /\ A!KeyToUse \in Nat /\ A!KeyToUse # 0
    BY KeysInUse DEF ConvTyped, TypeOK, A!ManagerTypeOK
  <1>4. ToB \in Seq(A!Msgs) /\ ToB = aLane[HB]
    BY LaneSeqs DEF ToB
  <1>5. rsp \in A!Msgs /\ req \in A!Msgs
    BY <1>3, AMsgType DEF A!MsgTypes
  <1>6. /\ rsp.type = "KEYRSP" /\ rsp.eph = e /\ rsp.key = A!KeyToUse /\ Carries(rsp)
        /\ req.type = "KEYREQ" /\ ~Carries(req)
    BY DEF A!Msg, Carries
  <1> HIDE DEF rsp, req
  <1>7. ToB' = Append(ToB, rsp) \/ ToB' = Append(Append(ToB, rsp), req)
    <2>1. ToB' = Append(ToB, rsp) \/ ToB' = ToB \o <<rsp, req>>
      BY <1>2, <1>3 DEF ToB
    <2>2. ToB \o <<rsp, req>> = Append(Append(ToB, rsp), req)
      BY <1>4, <1>5
    <2> QED
      BY <2>1, <2>2
  <1>8. Append(ToB, rsp) \in Seq(A!Msgs)
    BY <1>4, <1>5, AppendProperties
  <1>9. /\ EphsOf(Append(ToB, rsp), "KEYRSP") = EphsOf(ToB, "KEYRSP") \cup {e}
        /\ EachOnce(Append(ToB, rsp), "KEYRSP")
    BY <1>4, <1>5, <1>6, EphsBehind DEF AnswersAreAwaited, AwaitedOnly
  <1>10. /\ EphsOf(Append(Append(ToB, rsp), req), "KEYRSP") = EphsOf(Append(ToB, rsp), "KEYRSP")
         /\ EachOnce(Append(Append(ToB, rsp), req), "KEYRSP")
    <2> DEFINE q == Append(ToB, rsp)
    <2>1. req.type # "KEYRSP"
      BY <1>6
    <2>2. q \in Seq(A!Msgs) /\ EachOnce(q, "KEYRSP")
      BY <1>8, <1>9
    <2> HIDE DEF q
    <2>3. EphsOf(Append(q, req), "KEYRSP") = EphsOf(q, "KEYRSP") /\ EachOnce(Append(q, req), "KEYRSP")
      BY <1>5, <2>1, <2>2, EphsBesideOthers
    <2> QED
      BY <2>3 DEF q
  <1>11. EphsOf(ToB, "KEYRSP")' = EphsOf(ToB, "KEYRSP") \cup {e} /\ EachOnce(ToB, "KEYRSP")'
    BY <1>7, <1>9, <1>10
  <1>12. \A k : LastKey(ToB', k, A!KeyToUse)
    <2> TAKE k
    <2>1. LastKey(Append(ToB, rsp), k, A!KeyToUse)
      BY <1>4, <1>5, <1>6, KeyBehind
    <2>2. LastKey(Append(Append(ToB, rsp), req), k, A!KeyToUse)
      BY <1>5, <1>6, <1>8, <2>1, KeyBehind
    <2> QED
      BY <1>7, <2>1, <2>2
  <1>13. Awaited' = Awaited
    BY DEF BStands, Awaited
  <1>14. /\ aRecipients'[HB] = FB /\ aOutgoing'.key = A!KeyToUse /\ FB # NoFp
         /\ aRekeys'[HB] = A!QueuedRekeys(aPeers')[HB]
    BY <1>1, <1>3, ATables
  <1>15. aRekeys'[HB] # <<>> => aRekeys'[HB][Len(aRekeys'[HB])].key = A!KeyToUse
    <2>1. A!Pinned(FB) => aPeers'[FB].handle # NoHandle
      BY DEF A!Pinned
    <2>2. A!QueuedRekeys(aPeers')[HB] # <<>> =>
            A!QueuedRekeys(aPeers')[HB][Len(A!QueuedRekeys(aPeers')[HB])].key = A!KeyToUse
      BY <2>1, QueueEnds
    <2> QED
      BY <1>14, <2>2, Zenon
  <1>16. ARecipientIsTrue'
    BY <1>3, <1>14 DEF ARecipientIsTrue
  <1>17. KeyIsComing'
    BY <1>12, <1>14, <1>15 DEF KeyIsComing
  <1>18. AnswersAreAwaited'
    <2>1. e \in Awaited /\ e \notin EphsOf(ToA, "KEYREQ")' /\ e \notin Cached'
      BY DEF AwaitedOnly
    <2>2. /\ EachOnce(ToA, "KEYREQ")' /\ EphsOf(ToA, "KEYREQ")' \subseteq EphsOf(ToA, "KEYREQ")
          /\ Cached' \subseteq Cached /\ bLastEph' = bLastEph
      BY DEF BStands
    <2> QED
      BY <1>11, <1>13, <2>1, <2>2 DEF AnswersAreAwaited
  <1> QED
    BY <1>16, <1>17, <1>18

(* The REKEYs on the lane are the queue's, in its order.                   *)
LEMMA ARekeysSent ==
  ASSUME NEW w \in Seq(A!Wraps)
  PROVE  /\ A!RekeyMsgs(w) \in Seq(A!Msgs)
         /\ \A i \in 1 .. Len(A!RekeyMsgs(w)) : A!RekeyMsgs(w)[i].type = "REKEY" /\ Carries(A!RekeyMsgs(w)[i])
         /\ w = <<>> => A!RekeyMsgs(w) = <<>>
         /\ w # <<>> => /\ A!RekeyMsgs(w) # <<>>
                        /\ A!RekeyMsgs(w)[Len(A!RekeyMsgs(w))].key = w[Len(w)].key
  <1> DEFINE r == A!RekeyMsgs(w)
  <1>1. Len(w) \in Nat /\ w \in [1 .. Len(w) -> A!Wraps] /\ (w # <<>> => Len(w) # 0)
    BY LenProperties, EmptySeq
  <1>2. r = [i \in 1 .. Len(w) |-> A!Msg("REKEY", 0, w[i].key, w[i].fp)]
    BY DEF A!RekeyMsgs
  <1>3. \A i \in 1 .. Len(w) : A!Msg("REKEY", 0, w[i].key, w[i].fp) \in A!Msgs
    BY <1>1 DEF A!Wraps, A!Msg, A!Msgs, A!MsgTypes
  <1>4. r \in [1 .. Len(w) -> A!Msgs]
    BY <1>2, <1>3
  <1>5. r \in Seq(A!Msgs) /\ Len(r) = Len(w)
    BY <1>1, <1>4, SeqDef, LenProperties
  <1>6. \A i \in 1 .. Len(w) : r[i].type = "REKEY" /\ r[i].key = w[i].key
    BY <1>2 DEF A!Msg
  <1> HIDE DEF r
  <1>7. \A i \in 1 .. Len(r) : r[i].type = "REKEY" /\ Carries(r[i])
    BY <1>5, <1>6 DEF Carries
  <1>8. w = <<>> => r = <<>>
    BY <1>5, EmptySeq
  <1>9. w # <<>> => r # <<>> /\ r[Len(r)].key = w[Len(w)].key
    BY <1>1, <1>5, <1>6, EmptySeq
  <1> QED
    BY <1>5, <1>7, <1>8, <1>9 DEF r

(* A line, and behind it the REKEYs of a rotation.                         *)
LEMMA ASpeakKeeps ==
  ASSUME ConvTyped, ARecipientIsTrue, AnswersAreAwaited, KeyIsComing, ASpeaks, disturbed' = {}
  PROVE  ARecipientIsTrue' /\ AnswersAreAwaited' /\ KeyIsComing'
  <1> DEFINE w == A!QueuedRekeys(aPeers)[HB]
  <1>1. PICK resolved \in SUBSET {HB} :
          /\ \/ A!EncryptLine({HB}, resolved)
             \/ A!EncryptOversizeLine({HB}, resolved)
          /\ Disturb("dropped", resolved = {} /\ w # <<>>)
    BY DEF ASpeaks
  <1>2. PICK m \in A!Msgs : A!SendLine({HB}, resolved, m) /\ m.type \in {"RPE2E01", "PLAIN"}
    <2>1. /\ A!Msg("RPE2E01", 0, A!KeyToUse, NoFp) \in A!Msgs
          /\ A!Msg("PLAIN", 0, 0, NoFp) \in A!Msgs
      BY KeysInUse DEF A!Msg, A!Msgs, A!MsgTypes
    <2>2. /\ A!Msg("RPE2E01", 0, A!KeyToUse, NoFp).type = "RPE2E01"
          /\ A!Msg("PLAIN", 0, 0, NoFp).type = "PLAIN"
      BY DEF A!Msg
    <2> QED
      BY <1>1, <2>1, <2>2 DEF A!EncryptLine, A!EncryptOversizeLine
  <1>3. resolved = {HB} \/ w = <<>>
    BY <1>1 DEF Disturb
  <1>4. /\ aLane' = A!Sent({HB}, m, A!QueuedRekeys(aPeers), resolved) /\ aRekeys' = [h \in {HB} |-> <<>>]
        /\ aOutgoing' = [key |-> A!KeyToUse, rotate |-> FALSE]
        /\ UNCHANGED <<aPeers, aIncoming, aRecipients, aMode, aAutotrust, aPending, aLastEph, aInbound>>
    BY <1>2 DEF A!SendLine
  <1>5. UNCHANGED <<bPeers, bIncoming, bPending, bLastEph, bLane>>
    BY DEF ASpeaks, bVars, bButLane
  <1>6. ToB \in Seq(A!Msgs) /\ ToB = aLane[HB]
    BY LaneSeqs DEF ToB
  <1>7. /\ w \in Seq(A!Wraps)
        /\ w # <<>> => w[Len(w)].key = A!KeyToUse /\ aRecipients[HB] # NoFp
        /\ w = <<>> /\ aRecipients[HB] = FB =>
              aRekeys[HB] = <<>> /\ ~aOutgoing.rotate /\ A!KeyToUse = aOutgoing.key
    BY QueueEnds DEF A!Pinned
  <1> HIDE DEF w
  <1> DEFINE r == A!RekeyMsgs(w)
             q == Append(ToB, m)
  <1>8. /\ r \in Seq(A!Msgs)
        /\ \A i \in 1 .. Len(r) : r[i].type = "REKEY" /\ Carries(r[i])
        /\ w = <<>> => r = <<>>
        /\ w # <<>> => r # <<>> /\ r[Len(r)].key = w[Len(w)].key
    BY <1>7, ARekeysSent
  <1>9. ToB' = q \o (IF HB \in resolved THEN r ELSE <<>>)
    BY <1>4, <1>6 DEF A!Sent, w, ToB
  <1> HIDE DEF r, q
  <1>10. ToB' = q \o r
    BY <1>3, <1>8, <1>9
  <1>11. q \in Seq(A!Msgs)
    BY <1>6, AppendProperties DEF q
  <1>12. m.type # "KEYRSP" /\ ~Carries(m)
    BY <1>2 DEF Carries
  <1>13. EphsOf(q, "KEYRSP") = EphsOf(ToB, "KEYRSP") /\ EachOnce(q, "KEYRSP")
    BY <1>6, <1>12, EphsBesideOthers DEF q, AnswersAreAwaited
  <1>14. EphsOf(q \o r, "KEYRSP") = EphsOf(q, "KEYRSP") /\ EachOnce(q \o r, "KEYRSP")
    BY <1>8, <1>11, <1>13, EphsBesideRekeys
  <1>15. AnswersAreAwaited'
    <2>1. Awaited' = Awaited /\ Cached' = Cached /\ ToA' = ToA /\ bLastEph' = bLastEph
      BY <1>4, <1>5 DEF Awaited, Cached, ToA
    <2>2. EphsOf(ToB, "KEYRSP")' = EphsOf(ToB, "KEYRSP") /\ EachOnce(ToB, "KEYRSP")'
      BY <1>10, <1>13, <1>14
    <2> QED
      BY <2>1, <2>2 DEF AnswersAreAwaited
  <1>16. ARecipientIsTrue'
    <2>1. A!KeyToUse # 0 /\ aRekeys'[HB] = <<>> /\ aOutgoing'.key = A!KeyToUse
      BY <1>4, KeysInUse
    <2> QED
      BY <1>4, <2>1 DEF ARecipientIsTrue, A!Pinned
  <1>17. KeyIsComing'
    <2> SUFFICES ASSUME aRecipients[HB] = FB PROVE LastKey(ToB', bIncoming[HA].key, A!KeyToUse)
      BY <1>4, <1>5 DEF KeyIsComing
    <2>1. CASE w = <<>>
      <3>1. LastKey(ToB, bIncoming[HA].key, A!KeyToUse)
        BY <1>7, <2>1 DEF KeyIsComing
      <3>2. LastKey(q, bIncoming[HA].key, A!KeyToUse)
        BY <1>6, <1>12, <3>1, KeyBehind DEF q
      <3>3. ToB' = q
        BY <1>8, <1>10, <1>11, <2>1
      <3> QED
        BY <3>2, <3>3
    <2>2. CASE w # <<>>
      <3>1. r # <<>> /\ r[Len(r)].key = A!KeyToUse
        BY <1>7, <1>8, <2>2
      <3>2. LastKey(q \o r, bIncoming[HA].key, A!KeyToUse)
        BY <1>8, <1>11, <3>1, KeyBehindRekeys
      <3> QED
        BY <1>10, <3>2
    <2> QED
      BY <2>1, <2>2
  <1> QED
    BY <1>15, <1>16, <1>17

(* A message of B reaches A.                                               *)
LEMMA AReceivesKeeps ==
  ASSUME ConvTyped, BPeersAreTrue, ARecipientIsTrue, AnswersAreAwaited, KeyIsComing, DeliverToA
  PROVE  ARecipientIsTrue' /\ AnswersAreAwaited' /\ KeyIsComing'
  <1> DEFINE m == Head(ToA)
  <1>1. ToA \in Seq(B!Msgs) /\ ToA # <<>> /\ AReceives(m) /\ bLane' = [bLane EXCEPT ![HA] = Tail(@)]
        /\ UNCHANGED bButLane
    BY LaneSeqs DEF DeliverToA
  <1>2. ToA' = Tail(ToA)
    BY <1>1 DEF ConvTyped, TypeOK, B!ManagerTypeOK, ToA
  <1>3. /\ EphsOf(Tail(ToA), "KEYREQ") \subseteq EphsOf(ToA, "KEYREQ") /\ EachOnce(Tail(ToA), "KEYREQ")
        /\ m.type = "KEYREQ" => m.eph \in EphsOf(ToA, "KEYREQ") /\ m.eph \notin EphsOf(Tail(ToA), "KEYREQ")
    BY <1>1, EphsAfter DEF AnswersAreAwaited
  <1>4. m \in B!Msgs
    BY <1>1, HeadTailProperties
  <1>5. m.eph \in Nat /\ m.key \in Nat
    BY <1>4 DEF B!Msgs
  <1> HIDE DEF m
  <1>6. BStands
    BY <1>1, <1>2, <1>3 DEF BStands, bButLane
  <1>7. m.type = "KEYREQ" => AwaitedOnly(m.eph) /\ m.eph \notin Cached
    BY <1>2, <1>3 DEF AwaitedOnly, AnswersAreAwaited
  <1>8. ASSUME UNCHANGED <<aRecipients, aOutgoing, aRekeys, aLane>>, A!Pinned(FB) => A!Pinned(FB)',
               \/ UNCHANGED aInbound
               \/ m.type = "KEYREQ" /\ aInbound'[HB] = [fp |-> FB, eph |-> m.eph]
        PROVE  ARecipientIsTrue' /\ AnswersAreAwaited' /\ KeyIsComing'
    <2>1. Cached' = Cached \/ (m.type = "KEYREQ" /\ Cached' = {m.eph})
      BY <1>8 DEF Cached
    <2>2. UNCHANGED <<aRecipients, aOutgoing, aRekeys>> /\ ToB' = ToB
      BY <1>8 DEF ToB
    <2>3. Cached' \subseteq Cached \/ \E e : AwaitedOnly(e) /\ Cached' = {e}
      BY <1>7, <2>1
    <2> QED
      BY <1>6, <1>8, <2>2, <2>3, AQuietKeeps
  <1>9. CASE UNCHANGED aVars
    BY <1>8, <1>9 DEF aVars, aButLane, A!Pinned
  <1>10. ASSUME NEW allowOut \in BOOLEAN, m.type = "KEYREQ", A!ServeKeyReq(HB, FB, m.eph, allowOut)
         PROVE  ARecipientIsTrue' /\ AnswersAreAwaited' /\ KeyIsComing'
    <2>1. A!Serve(HB, FB, m.eph, allowOut, aPeers') /\ aPeers' = A!SeenPeer(FB, HB) /\ UNCHANGED aInbound
      BY <1>10 DEF A!ServeKeyReq
    <2>2. A!Pinned(FB)'
      BY <2>1, ATables DEF A!SeenPeer, A!WithPeer, A!Pinned, ConvTyped, TypeOK, A!ManagerTypeOK
    <2>3. Cached' \subseteq Cached \ {m.eph}
      BY <1>7, <1>10, <2>1 DEF Cached
    <2> QED
      BY <1>5, <1>6, <1>7, <1>10, <2>1, <2>2, <2>3, AServeKeeps
  <1>11. CASE m.type = "KEYREQ" /\ (A!CacheKeyReq(HB, FB, m.eph) \/ A!IgnoreKeyReq(HB, FB))
    <2>1. /\ aPeers' = A!SeenPeer(FB, HB) /\ UNCHANGED <<aRecipients, aOutgoing, aRekeys, aLane>>
          /\ UNCHANGED aInbound \/ aInbound' = [aInbound EXCEPT ![HB] = [fp |-> FB, eph |-> m.eph]]
      BY <1>11 DEF A!CacheKeyReq, A!IgnoreKeyReq
    <2>2. A!Pinned(FB)'
      BY <2>1, ATables DEF A!SeenPeer, A!WithPeer, A!Pinned, ConvTyped, TypeOK, A!ManagerTypeOK
    <2>3. UNCHANGED aInbound \/ aInbound'[HB] = [fp |-> FB, eph |-> m.eph]
      BY <2>1 DEF ConvTyped, TypeOK, A!ManagerTypeOK
    <2> QED
      BY <1>8, <1>11, <2>1, <2>2, <2>3
  <1>12. CASE A!ReceiveKeyRsp(HB, FB, m.eph, m.key) \/ A!ReceiveRekey(HB, FB, m.key)
    <2>1. /\ UNCHANGED <<aRecipients, aOutgoing, aRekeys, aLane, aInbound>>
          /\ UNCHANGED aPeers \/ aPeers' = A!WithPeer(FB, HB, "trusted")
      BY <1>12 DEF A!ReceiveKeyRsp, A!ReceiveRekey
    <2>2. A!Pinned(FB) => A!Pinned(FB)'
      BY <2>1, ATables DEF A!WithPeer, A!Pinned, ConvTyped, TypeOK, A!ManagerTypeOK
    <2> QED
      BY <1>8, <2>1, <2>2
  <1>13. CASE A!RequestMissingKey(HB, m.key)
    <2> DEFINE req == A!Msg("KEYREQ", aLastEph + 1, 0, NoFp)
    <2>1. /\ aLane' = [aLane EXCEPT ![HB] = Append(@, req)]
          /\ UNCHANGED <<aPeers, aRecipients, aOutgoing, aRekeys, aInbound>>
      BY <1>13 DEF A!RequestMissingKey
    <2>2. req \in A!Msgs
      BY DEF ConvTyped, TypeOK, A!ManagerTypeOK, A!Msg, A!Msgs, A!MsgTypes
    <2>3. ToB' = Append(ToB, req)
      BY <2>1 DEF ConvTyped, TypeOK, A!ManagerTypeOK, ToB
    <2>4. Cached' = Cached /\ (A!Pinned(FB) => A!Pinned(FB)')
      BY <2>1 DEF Cached, A!Pinned
    <2> QED
      BY <1>6, <2>1, <2>2, <2>3, <2>4, AQuietKeeps
  <1>14. AReceives(m)
    BY <1>1 DEF m
  <1> QED
    BY <1>9, <1>10, <1>11, <1>12, <1>13, <1>14 DEF AReceives

(* Disturbances stay on record.                                            *)
LEMMA DisturbancesStay ==
  ASSUME [Next]_vars, disturbed' = {}
  PROVE  disturbed = {}
  BY DEF Next, DeliverToA, DeliverToB, ASpeaks, AElsewhere, BSpeaks, UserStep, ACommand, BCommand,
         ARestarts, BRestarts, Disturb, history, vars

(* What A's user types.                                                    *)
LEMMA ACommandKeeps ==
  ASSUME ConvTyped, ARecipientIsTrue, AnswersAreAwaited, KeyIsComing, ACommand, UNCHANGED bVars,
         disturbed' = {}
  PROVE  ARecipientIsTrue' /\ AnswersAreAwaited' /\ KeyIsComing'
  <1>1. BStands /\ UNCHANGED <<bLane, bPending, bIncoming, bLastEph>>
    BY DEF BStands, bVars, bButLane, ToA, AnswersAreAwaited
  <1>2. Awaited' = Awaited /\ ToA' = ToA
    BY <1>1 DEF Awaited, ToA
  <1>3. ASSUME NEW allowOut, A!AcceptCached(HB, allowOut)
        PROVE  ARecipientIsTrue' /\ AnswersAreAwaited' /\ KeyIsComing'
    <2> DEFINE e == aInbound[HB].eph
    <2>1. aInbound[HB].fp = FB
      BY <1>3, ATables DEF A!AcceptCached
    <2>2. A!Serve(HB, FB, e, allowOut, aPeers') /\ aPeers' = A!WithPeer(FB, HB, "trusted")
          /\ aInbound' = [aInbound EXCEPT ![HB] = A!NoRequest]
      BY <1>3, <2>1 DEF A!AcceptCached
    <2>3. A!Pinned(FB)'
      BY <2>2, ATables DEF A!WithPeer, A!Pinned, ConvTyped, TypeOK, A!ManagerTypeOK
    <2>4. Cached = {e} /\ e \in Nat
      BY <2>1 DEF Cached, ConvTyped, TypeOK, A!ManagerTypeOK, A!Requests
    <2>5. Cached' = {}
      <3>1. aInbound'[HB].fp = NoFp
        BY <2>2 DEF ConvTyped, TypeOK, A!ManagerTypeOK, A!NoRequest
      <3> QED
        BY <3>1, ATables DEF Cached
    <2> HIDE DEF e
    <2>6. AwaitedOnly(e)
      BY <1>2, <2>4 DEF AwaitedOnly, AnswersAreAwaited
    <2> QED
      BY <1>1, <2>2, <2>3, <2>4, <2>5, <2>6, AServeKeeps
  <1>4. ASSUME UNCHANGED <<aRecipients, aOutgoing, aRekeys, aLane>>, A!Pinned(FB) => A!Pinned(FB)',
               Cached' \subseteq Cached
        PROVE  ARecipientIsTrue' /\ AnswersAreAwaited' /\ KeyIsComing'
    <2>1. UNCHANGED <<aRecipients, aOutgoing, aRekeys>> /\ ToB' = ToB
      BY <1>4 DEF ToB
    <2> QED
      BY <1>1, <1>4, <2>1, AQuietKeeps
  <1>5. CASE A!Handshake(HB)
    <2> DEFINE req == A!Msg("KEYREQ", aLastEph + 1, 0, NoFp)
    <2>1. /\ aLane' = [aLane EXCEPT ![HB] = Append(@, req)]
          /\ UNCHANGED <<aPeers, aRecipients, aOutgoing, aRekeys, aInbound>>
      BY <1>5 DEF A!Handshake
    <2>2. req \in A!Msgs
      BY DEF ConvTyped, TypeOK, A!ManagerTypeOK, A!Msg, A!Msgs, A!MsgTypes
    <2>3. ToB' = Append(ToB, req)
      BY <2>1 DEF ConvTyped, TypeOK, A!ManagerTypeOK, ToB
    <2>4. Cached' = Cached /\ (A!Pinned(FB) => A!Pinned(FB)')
      BY <2>1 DEF Cached, A!Pinned
    <2> QED
      BY <1>1, <2>1, <2>2, <2>3, <2>4, AQuietKeeps
  <1>6. CASE (\E m \in {"auto", "normal"} : A!SetMode(m)) \/ A!Decline(HB) \/ A!Unrevoke(HB)
    <2>1. UNCHANGED <<aPeers, aRecipients, aOutgoing, aRekeys, aLane, aInbound>>
      BY <1>6 DEF A!SetMode, A!Decline, A!Unrevoke, A!FlipStatus
    <2>2. Cached' = Cached /\ (A!Pinned(FB) => A!Pinned(FB)')
      BY <2>1 DEF Cached, A!Pinned
    <2> QED
      BY <1>4, <2>1, <2>2
  <1>7. CASE A!ForgetHere(HB)
    <2>1. /\ UNCHANGED <<aPeers, aRecipients, aOutgoing, aRekeys, aLane>>
          /\ aInbound' = [aInbound EXCEPT ![HB] = A!NoRequest]
      BY <1>7 DEF A!ForgetHere
    <2>2. aInbound'[HB].fp = NoFp
      BY <2>1 DEF ConvTyped, TypeOK, A!ManagerTypeOK, A!NoRequest
    <2>3. Cached' = {} /\ (A!Pinned(FB) => A!Pinned(FB)')
      BY <2>1, <2>2, ATables DEF Cached, A!Pinned
    <2> QED
      BY <1>4, <2>1, <2>3
  <1>8. CASE A!Rotate
    <2>1. aOutgoing' = A!MarkRotation /\ UNCHANGED <<aPeers, aRecipients, aRekeys, aLane, aInbound>>
      BY <1>8 DEF A!Rotate
    <2>2. aOutgoing'.key = aOutgoing.key /\ (aOutgoing.key # 0 => aOutgoing'.rotate)
      BY <2>1 DEF A!MarkRotation, ConvTyped, TypeOK, A!ManagerTypeOK, A!KeyRows
    <2>3. ARecipientIsTrue'
      BY <2>1, <2>2 DEF ARecipientIsTrue, A!Pinned
    <2>4. KeyIsComing'
      BY <2>1, <2>2 DEF KeyIsComing, ARecipientIsTrue
    <2>5. AnswersAreAwaited'
      BY <1>1, <1>2, <2>1 DEF AnswersAreAwaited, Cached, ToB
    <2> QED
      BY <2>3, <2>4, <2>5
  <1>9. ASSUME aRecipients' = [aRecipients EXCEPT ![HB] = NoFp], UNCHANGED <<aRekeys, aLane>>,
               aRekeys[HB] = <<>>, Cached' \subseteq Cached
        PROVE  ARecipientIsTrue' /\ AnswersAreAwaited' /\ KeyIsComing'
    <2>1. aRecipients'[HB] = NoFp /\ NoFp # FB
      BY <1>9, ATables DEF ConvTyped, TypeOK, A!ManagerTypeOK
    <2>2. ARecipientIsTrue' /\ KeyIsComing'
      BY <1>9, <2>1 DEF ARecipientIsTrue, KeyIsComing
    <2>3. ToB' = ToB
      BY <1>9 DEF ToB
    <2>4. AnswersAreAwaited'
      BY <1>1, <1>2, <1>9, <2>3 DEF AnswersAreAwaited
    <2> QED
      BY <2>2, <2>4
  <1>10. CASE A!Revoke(HB) /\ Disturb("revoked", aRekeys[HB] # <<>>)
    <2>1. aRekeys[HB] = <<>>
      BY <1>10 DEF Disturb
    <2>2. aRecipients' = [aRecipients EXCEPT ![HB] = NoFp] /\ UNCHANGED <<aRekeys, aLane, aInbound>>
      BY <1>10 DEF A!Revoke
    <2>3. Cached' = Cached
      BY <2>2 DEF Cached
    <2> QED
      BY <1>9, <2>1, <2>2, <2>3
  <1>11. CASE /\ A!Purge(HB)
              /\ disturbed' = disturbed
                   \cup (IF aRekeys[HB] # <<>> THEN {"forget"} ELSE {})
                   \cup (IF aPending # {} THEN {"abandoned"} ELSE {})
    <2>1. aRekeys[HB] = <<>>
      BY <1>11
    <2>2. /\ aRecipients' = [aRecipients EXCEPT ![HB] = NoFp] /\ UNCHANGED <<aRekeys, aLane>>
          /\ aInbound' = [aInbound EXCEPT ![HB] = A!NoRequest]
      BY <1>11 DEF A!Purge
    <2>3. aInbound'[HB].fp = NoFp
      BY <2>2 DEF ConvTyped, TypeOK, A!ManagerTypeOK, A!NoRequest
    <2>4. Cached' = {}
      BY <2>3, ATables DEF Cached
    <2> QED
      BY <1>9, <2>1, <2>2, <2>4
  <1> QED
    BY <1>3, <1>5, <1>6, <1>7, <1>8, <1>10, <1>11 DEF ACommand

(* A restart that cuts nothing short: nothing is queued or on its way.     *)
LEMMA ARestartKeeps ==
  ASSUME ConvTyped, ARecipientIsTrue, AnswersAreAwaited, KeyIsComing, ARestarts, disturbed' = {}
  PROVE  ARecipientIsTrue' /\ AnswersAreAwaited' /\ KeyIsComing'
  <1>1. ToA = <<>> /\ ToB = <<>> /\ aRekeys[HB] = <<>>
    BY DEF ARestarts, Disturb, InFlight
  <1>2. /\ aLane' = [h \in {HB} |-> <<>>] /\ aRekeys' = [h \in {HB} |-> <<>>]
        /\ aInbound' = [h \in {HB} |-> A!NoRequest] /\ bLane' = [bLane EXCEPT ![HA] = <<>>]
        /\ UNCHANGED <<aPeers, aOutgoing, aRecipients>> /\ UNCHANGED bButLane
    BY DEF ARestarts, A!Restart
  <1>3. ToA' = ToA /\ ToB' = ToB /\ aRekeys'[HB] = aRekeys[HB]
    BY <1>1, <1>2 DEF ToA, ToB, ConvTyped, TypeOK, B!ManagerTypeOK
  <1>4. Cached' = {}
    BY <1>2, ATables DEF Cached, A!NoRequest
  <1>5. Awaited' = Awaited /\ UNCHANGED <<bLastEph, bIncoming>>
    BY <1>2 DEF Awaited, bButLane
  <1>6. AnswersAreAwaited'
    BY <1>3, <1>4, <1>5 DEF AnswersAreAwaited
  <1>7. ARecipientIsTrue'
    BY <1>2, <1>3 DEF ARecipientIsTrue, A!Pinned
  <1>8. KeyIsComing'
    BY <1>2, <1>3, <1>5 DEF KeyIsComing
  <1> QED
    BY <1>6, <1>7, <1>8
-----------------------------------------------------------------------------
(* What B does.  Its tables name A at A's one ident@host, whatever it      *)
(* receives and its user types.                                            *)
LEMMA BTables ==
  ASSUME ConvTyped
  PROVE  /\ bPeers \in [{FA} -> B!PeerRows] /\ bIncoming \in [{HA} -> B!Sessions]
         /\ bInbound[HA].fp \in {FA, NoFp} /\ bLane \in [{HA} -> Seq(B!Msgs)]
         /\ bLastEph \in Nat /\ B!KeyToUse \in Nat
         /\ FA # NoFp /\ HA # NoHandle
  BY ConversationAssumption, KeysInUse DEF ConvTyped, TypeOK, B!ManagerTypeOK, B!Requests

LEMMA BSeen ==
  ASSUME ConvTyped, BPeersAreTrue, bPeers' = B!SeenPeer(FA, HA), UNCHANGED bIncoming
  PROVE  BPeersAreTrue'
  <1>1. bPeers'[FA].handle = HA /\ bPeers'[FA].status # "revoked"
    BY BTables DEF B!SeenPeer, B!WithPeer, BPeersAreTrue
  <1> QED
    BY <1>1, BTables DEF BPeersAreTrue, B!Pinned

LEMMA BInstalls ==
  ASSUME ConvTyped, BPeersAreTrue, NEW k, NEW st,
         bIncoming' = B!InstallStrict(HA, [fp |-> FA, key |-> k, status |-> st]),
         bPeers'[FA].handle = HA, bPeers'[FA].status # "revoked"
  PROVE  BPeersAreTrue' /\ bIncoming'[HA].key = k
  <1>1. bIncoming' = [bIncoming EXCEPT ![HA] = [fp |-> FA, key |-> k, status |-> st]]
    BY DEF B!InstallStrict, BPeersAreTrue
  <1>2. bIncoming'[HA] = [fp |-> FA, key |-> k, status |-> st]
    BY <1>1, BTables
  <1> QED
    BY <1>2, BTables DEF BPeersAreTrue, B!Pinned

(* A's identity at A's ident@host is never refused.                        *)
LEMMA BAccepts ==
  ASSUME ConvTyped, BPeersAreTrue
  PROVE  B!Acceptable(FA, HA) /\ (B!Classify(FA, HA) = "Known" <=> B!Pinned(FA))
  BY BTables DEF B!Acceptable, B!Classify, B!Pinned, BPeersAreTrue

LEMMA BReceivesPeers ==
  ASSUME ConvTyped, BPeersAreTrue, NEW m, BReceives(m)
  PROVE  /\ BPeersAreTrue'
         /\ ~Carries(m) => bIncoming'[HA].key \in {0, bIncoming[HA].key}
         /\ m.type = "REKEY" => bIncoming'[HA].key \in {0, m.key}
         /\ m.type = "KEYRSP" /\ m.eph \in Awaited => bIncoming'[HA].key = m.key
  <1>1. CASE UNCHANGED bVars /\ m.type # "REKEY" /\ (m.type = "KEYRSP" => m.eph \notin Awaited)
    BY <1>1 DEF bVars, bButLane, BPeersAreTrue, B!Pinned, Carries
  <1>2. CASE UNCHANGED bVars /\ m.type = "REKEY" /\ B!Classify(FA, HA) # "Known"
    BY <1>2, BAccepts DEF bVars, bButLane, BPeersAreTrue, B!Pinned, Carries
  <1>3. CASE m.type = "KEYREQ" /\ ((\E allowOut : B!ServeKeyReq(HA, FA, m.eph, allowOut)) \/ B!IgnoreKeyReq(HA, FA))
    <2>1. bPeers' = B!SeenPeer(FA, HA) /\ UNCHANGED bIncoming
      BY <1>3 DEF B!ServeKeyReq, B!IgnoreKeyReq
    <2>2. BPeersAreTrue'
      BY <2>1, BSeen
    <2> QED
      BY <1>3, <2>1, <2>2 DEF Carries
  <1>4. CASE m.type = "KEYREQ" /\ B!CacheKeyReq(HA, FA, m.eph)
    <2>1. /\ bPeers' = B!SeenPeer(FA, HA)
          /\ bIncoming' = B!InstallStrict(HA, [fp |-> FA, key |-> 0, status |-> "pending"])
      BY <1>4 DEF B!CacheKeyReq
    <2>2. bPeers'[FA].handle = HA /\ bPeers'[FA].status # "revoked"
      BY <2>1, BTables DEF B!SeenPeer, B!WithPeer, BPeersAreTrue
    <2>3. BPeersAreTrue' /\ bIncoming'[HA].key = 0
      BY <2>1, <2>2, BInstalls
    <2> QED
      BY <1>4, <2>3 DEF Carries
  <1>5. CASE m.type = "KEYRSP" /\ B!ReceiveKeyRsp(HA, FA, m.eph, m.key)
    <2>1. /\ bPeers' = B!WithPeer(FA, HA, "trusted")
          /\ bIncoming' = B!InstallStrict(HA, [fp |-> FA, key |-> m.key, status |-> "trusted"])
      BY <1>5, BAccepts DEF B!ReceiveKeyRsp
    <2>2. bPeers'[FA].handle = HA /\ bPeers'[FA].status # "revoked"
      BY <2>1, BTables DEF B!WithPeer
    <2>3. BPeersAreTrue' /\ bIncoming'[HA].key = m.key
      BY <2>1, <2>2, BInstalls
    <2> QED
      BY <1>5, <2>3 DEF Carries
  <1>6. CASE m.type = "REKEY" /\ B!ReceiveRekey(HA, FA, m.key)
    <2>1. /\ UNCHANGED bPeers /\ B!Pinned(FA)
          /\ bIncoming' = B!InstallStrict(HA, [fp |-> FA, key |-> m.key, status |-> "trusted"])
      BY <1>6, BAccepts DEF B!ReceiveRekey
    <2>2. bPeers'[FA].handle = HA /\ bPeers'[FA].status # "revoked"
      BY <2>1 DEF BPeersAreTrue, B!Pinned
    <2>3. BPeersAreTrue' /\ bIncoming'[HA].key = m.key
      BY <2>1, <2>2, BInstalls
    <2> QED
      BY <1>6, <2>3 DEF Carries
  <1>7. CASE m.type = "RPE2E01" /\ B!RequestMissingKey(HA, m.key)
    <2>1. UNCHANGED <<bPeers, bIncoming>>
      BY <1>7 DEF B!RequestMissingKey
    <2> QED
      BY <1>7, <2>1 DEF BPeersAreTrue, B!Pinned, Carries
  <1>8. m.type = "KEYRSP" /\ (\A p \in bPending : p.eph # m.eph) => m.eph \notin Awaited
    BY DEF Awaited
  <1> QED
    BY <1>1, <1>2, <1>3, <1>4, <1>5, <1>6, <1>7, <1>8 DEF BReceives

LEMMA BCommandPeers ==
  ASSUME ConvTyped, BPeersAreTrue, BCommand
  PROVE  BPeersAreTrue' /\ bIncoming'[HA].key \in {0, bIncoming[HA].key}
  <1>1. CASE UNCHANGED <<bPeers, bIncoming>>
    BY <1>1 DEF BPeersAreTrue, B!Pinned
  <1>2. ASSUME NEW allowOut, B!AcceptCached(HA, allowOut)
        PROVE  BPeersAreTrue' /\ bIncoming'[HA].key \in {0, bIncoming[HA].key}
    <2>1. bPeers' = B!WithPeer(FA, HA, "trusted") /\ UNCHANGED bIncoming
      BY <1>2, BTables DEF B!AcceptCached
    <2>2. bPeers'[FA].handle = HA /\ bPeers'[FA].status # "revoked"
      BY <2>1, BTables DEF B!WithPeer
    <2> QED
      BY <2>1, <2>2, BTables DEF BPeersAreTrue, B!Pinned
  <1>3. ASSUME NEW st, bIncoming' = B!WithStatus(HA, st), UNCHANGED bPeers
        PROVE  BPeersAreTrue' /\ bIncoming'[HA].key \in {0, bIncoming[HA].key}
    <2>1. bIncoming'[HA].fp = bIncoming[HA].fp /\ bIncoming'[HA].key = bIncoming[HA].key
      BY <1>3, BTables DEF B!WithStatus, B!Sessions
    <2> QED
      BY <1>3, <2>1 DEF BPeersAreTrue, B!Pinned
  <1>4. CASE B!ForgetHere(HA) \/ B!Purge(HA)
    <2>1. bIncoming' = [bIncoming EXCEPT ![HA] = B!NoSession]
      BY <1>4 DEF B!ForgetHere, B!Purge
    <2>2. bIncoming'[HA].fp = NoFp /\ bIncoming'[HA].key = 0
      BY <2>1, BTables DEF B!NoSession
    <2>3. UNCHANGED bPeers \/ bPeers' = [fp \in {FA} |-> IF bPeers[fp].handle = HA THEN B!NoPeer ELSE bPeers[fp]]
      BY <1>4 DEF B!ForgetHere, B!Purge
    <2>4. bPeers'[FA].handle \in {NoHandle, HA} /\ bPeers'[FA].status # "revoked"
      BY <2>3 DEF BPeersAreTrue, B!NoPeer
    <2> QED
      BY <2>2, <2>4 DEF BPeersAreTrue
  <1>5. B!Decline(HA) \/ B!Unrevoke(HA) \/ B!Revoke(HA) =>
          UNCHANGED bPeers /\ \E st : bIncoming' = B!WithStatus(HA, st)
    BY DEF B!Decline, B!Unrevoke, B!Revoke, B!FlipStatus
  <1>6. (\E m \in {"auto", "normal"} : B!SetMode(m)) \/ B!Rotate \/ B!Handshake(HA) =>
          UNCHANGED <<bPeers, bIncoming>>
    BY DEF B!SetMode, B!Rotate, B!Handshake
  <1> QED
    BY <1>1, <1>2, <1>3, <1>4, <1>5, <1>6 DEF BCommand

(* The requests of B: none is made, or one more that is new.               *)
RequestsKept ==
  /\ Awaited' = Awaited /\ bLastEph' = bLastEph
  /\ EphsOf(ToA, "KEYREQ")' = EphsOf(ToA, "KEYREQ")
  /\ EachOnce(ToA, "KEYREQ") => EachOnce(ToA, "KEYREQ")'
RequestMade ==
  /\ Awaited' = Awaited \cup {bLastEph + 1} /\ bLastEph' = bLastEph + 1
  /\ EphsOf(ToA, "KEYREQ")' = EphsOf(ToA, "KEYREQ") \cup {bLastEph + 1}
  /\ EachOnce(ToA, "KEYREQ") /\ bLastEph + 1 \notin EphsOf(ToA, "KEYREQ") => EachOnce(ToA, "KEYREQ")'

LEMMA BAsks ==
  ASSUME ConvTyped, NEW to, B!NewRequest(to), NEW q \in Seq(B!Msgs),
         ToA' = Append(q, B!Msg("KEYREQ", bLastEph + 1, 0, NoFp)),
         EphsOf(q, "KEYREQ") = EphsOf(ToA, "KEYREQ"),
         EachOnce(ToA, "KEYREQ") => EachOnce(q, "KEYREQ")
  PROVE  RequestMade
  <1> DEFINE m == B!Msg("KEYREQ", bLastEph + 1, 0, NoFp)
  <1>1. m \in B!Msgs /\ m.type = "KEYREQ" /\ m.eph = bLastEph + 1
    BY BTables DEF B!Msg, B!Msgs, B!MsgTypes
  <1>2. bPending' = bPending \cup {[eph |-> bLastEph + 1, to |-> to]} /\ bLastEph' = bLastEph + 1
    BY DEF B!NewRequest
  <1>3. Awaited' = Awaited \cup {bLastEph + 1}
    <2> DEFINE p == [eph |-> bLastEph + 1, to |-> to]
    <2>1. bPending' = bPending \cup {p} /\ p.eph = bLastEph + 1
      BY <1>2
    <2> HIDE DEF p
    <2> QED
      BY <2>1, Zenon DEF Awaited
  <1>4. ToA' = Append(q, m)
    BY Zenon
  <1> HIDE DEF m
  <1>5. EphsOf(Append(q, m), "KEYREQ") = EphsOf(q, "KEYREQ") \cup {bLastEph + 1}
    <2>1. EphsOf(Append(q, m), "KEYREQ") = EphsOf(q, "KEYREQ") \cup (IF m.type = "KEYREQ" THEN {m.eph} ELSE {})
      BY <1>1, EphsBehind
    <2> QED
      BY <1>1, <2>1
  <1>6. EachOnce(q, "KEYREQ") /\ bLastEph + 1 \notin EphsOf(q, "KEYREQ") => EachOnce(Append(q, m), "KEYREQ")
    BY <1>1, EphsBehind
  <1> QED
    BY <1>2, <1>3, <1>4, <1>5, <1>6 DEF RequestMade

LEMMA BServes ==
  ASSUME ConvTyped, NEW e \in Nat, NEW allowOut, NEW pt, B!Serve(HA, FA, e, allowOut, pt)
  PROVE  RequestsKept \/ RequestMade
  <1> DEFINE rsp == B!Msg("KEYRSP", e, B!KeyToUse, FA)
             req == B!Msg("KEYREQ", bLastEph + 1, 0, NoFp)
             q == Append(ToA, rsp)
  <1>1. \/ bLane' = [bLane EXCEPT ![HA] = @ \o <<rsp, req>>] /\ B!NewRequest(HA)
        \/ bLane' = [bLane EXCEPT ![HA] = Append(@, rsp)] /\ UNCHANGED <<bPending, bLastEph>>
    BY DEF B!Serve
  <1>2. ToA \in Seq(B!Msgs) /\ ToA = bLane[HA] /\ bLane \in [{HA} -> Seq(B!Msgs)]
    BY LaneSeqs, BTables DEF ToA
  <1>3. rsp \in B!Msgs /\ rsp.type # "KEYREQ" /\ req \in B!Msgs
    BY BTables DEF B!Msg, B!Msgs, B!MsgTypes
  <1> HIDE DEF rsp, req
  <1>4. ToA \o <<rsp, req>> = Append(q, req)
    BY <1>2, <1>3
  <1>5. \/ ToA' = Append(q, req) /\ B!NewRequest(HA)
        \/ ToA' = q /\ UNCHANGED <<bPending, bLastEph>>
    BY <1>1, <1>2, <1>4 DEF ToA
  <1>6. q \in Seq(B!Msgs)
    BY <1>2, <1>3, AppendProperties
  <1>7. /\ EphsOf(q, "KEYREQ") = EphsOf(ToA, "KEYREQ")
        /\ EachOnce(ToA, "KEYREQ") => EachOnce(q, "KEYREQ")
    BY <1>2, <1>3, EphsBesideOthers
  <1> HIDE DEF q
  <1>8. CASE ToA' = Append(q, req) /\ B!NewRequest(HA)
    BY <1>6, <1>7, <1>8, BAsks DEF req
  <1>9. CASE ToA' = q /\ UNCHANGED <<bPending, bLastEph>>
    BY <1>7, <1>9 DEF RequestsKept, Awaited
  <1> QED
    BY <1>5, <1>8, <1>9

LEMMA BReceivesRequests ==
  ASSUME ConvTyped, NEW m \in A!Msgs, BReceives(m)
  PROVE  \/ RequestsKept \/ RequestMade
         \/ m.type = "KEYRSP" /\ Awaited' = Awaited \ {m.eph} /\ UNCHANGED bLastEph /\ ToA' = ToA
  <1>0. m.eph \in Nat /\ ToA \in Seq(B!Msgs)
    BY LaneSeqs DEF A!Msgs
  <1>1. CASE UNCHANGED <<bPending, bLastEph, bLane>>
    BY <1>1 DEF RequestsKept, Awaited, ToA
  <1>2. ASSUME NEW allowOut, B!ServeKeyReq(HA, FA, m.eph, allowOut) PROVE RequestsKept \/ RequestMade
    <2>1. B!Serve(HA, FA, m.eph, allowOut, bPeers')
      BY <1>2 DEF B!ServeKeyReq
    <2> QED
      BY <1>0, <2>1, BServes
  <1>3. CASE B!CacheKeyReq(HA, FA, m.eph) \/ B!IgnoreKeyReq(HA, FA) \/ B!ReceiveRekey(HA, FA, m.key)
    BY <1>1, <1>3 DEF B!CacheKeyReq, B!IgnoreKeyReq, B!ReceiveRekey
  <1>4. CASE m.type = "KEYRSP" /\ B!ReceiveKeyRsp(HA, FA, m.eph, m.key)
    <2>1. bPending' = {p \in bPending : p.eph # m.eph} /\ UNCHANGED <<bLastEph, bLane>>
      BY <1>4 DEF B!ReceiveKeyRsp
    <2> QED
      BY <1>4, <2>1 DEF Awaited, ToA
  <1>5. CASE B!RequestMissingKey(HA, m.key)
    <2>1. /\ B!NewRequest(HA)
          /\ bLane' = [bLane EXCEPT ![HA] = Append(@, B!Msg("KEYREQ", bLastEph + 1, 0, NoFp))]
      BY <1>5 DEF B!RequestMissingKey
    <2>2. ToA' = Append(ToA, B!Msg("KEYREQ", bLastEph + 1, 0, NoFp))
      BY <2>1, BTables DEF ToA
    <2> QED
      BY <1>0, <2>1, <2>2, BAsks
  <1>6. UNCHANGED bVars => UNCHANGED <<bPending, bLastEph, bLane>>
    BY DEF bVars, bButLane
  <1> QED
    BY <1>1, <1>2, <1>3, <1>4, <1>5, <1>6 DEF BReceives

LEMMA BCommandRequests ==
  ASSUME ConvTyped, BCommand, disturbed' = {}
  PROVE  RequestsKept \/ RequestMade
  <1>0. ToA \in Seq(B!Msgs)
    BY LaneSeqs
  <1>1. CASE UNCHANGED <<bPending, bLastEph, bLane>>
    BY <1>1 DEF RequestsKept, Awaited, ToA
  <1>2. ASSUME NEW allowOut, B!AcceptCached(HA, allowOut) PROVE RequestsKept \/ RequestMade
    <2>1. bInbound[HA].fp = FA /\ bInbound[HA].eph \in Nat
      BY <1>2, BTables DEF B!AcceptCached, ConvTyped, TypeOK, B!ManagerTypeOK, B!Requests
    <2>2. B!Serve(HA, FA, bInbound[HA].eph, allowOut, bPeers')
      BY <1>2, <2>1 DEF B!AcceptCached
    <2> QED
      BY <2>1, <2>2, BServes
  <1>3. CASE B!Handshake(HA)
    <2>1. /\ B!NewRequest(NoHandle)
          /\ bLane' = [bLane EXCEPT ![HA] = Append(@, B!Msg("KEYREQ", bLastEph + 1, 0, NoFp))]
      BY <1>3 DEF B!Handshake
    <2>2. ToA' = Append(ToA, B!Msg("KEYREQ", bLastEph + 1, 0, NoFp))
      BY <2>1, BTables DEF ToA
    <2> QED
      BY <1>0, <2>1, <2>2, BAsks
  <1>4. CASE \/ B!ForgetHere(HA) /\ Disturb("abandoned", bPending # {})
             \/ /\ B!Purge(HA)
                /\ disturbed' = disturbed
                     \cup (IF bRekeys[HA] # <<>> THEN {"forget"} ELSE {})
                     \cup (IF bPending # {} THEN {"abandoned"} ELSE {})
    <2>1. bPending = {} /\ (B!ForgetHere(HA) \/ B!Purge(HA))
      BY <1>4 DEF Disturb
    <2>2. bPending' = {p \in bPending : p.to # HA} /\ UNCHANGED <<bLastEph, bLane>>
      BY <2>1 DEF B!ForgetHere, B!Purge
    <2> QED
      BY <1>1, <2>1, <2>2
  <1>5. \/ \E m \in {"auto", "normal"} : B!SetMode(m)
        \/ B!Decline(HA) \/ B!Unrevoke(HA) \/ B!Revoke(HA) \/ B!Rotate
        => UNCHANGED <<bPending, bLastEph, bLane>>
    BY DEF B!SetMode, B!Decline, B!Unrevoke, B!Revoke, B!FlipStatus, B!Rotate
  <1> QED
    BY <1>1, <1>2, <1>3, <1>4, <1>5 DEF BCommand

LEMMA BRekeysSent ==
  ASSUME NEW w \in Seq(B!Wraps)
  PROVE  /\ B!RekeyMsgs(w) \in Seq(B!Msgs)
         /\ \A i \in 1 .. Len(B!RekeyMsgs(w)) : B!RekeyMsgs(w)[i].type = "REKEY" /\ Carries(B!RekeyMsgs(w)[i])
         /\ w = <<>> => B!RekeyMsgs(w) = <<>>
         /\ w # <<>> => /\ B!RekeyMsgs(w) # <<>>
                        /\ B!RekeyMsgs(w)[Len(B!RekeyMsgs(w))].key = w[Len(w)].key
  <1> DEFINE r == B!RekeyMsgs(w)
  <1>1. Len(w) \in Nat /\ w \in [1 .. Len(w) -> B!Wraps] /\ (w # <<>> => Len(w) # 0)
    BY LenProperties, EmptySeq
  <1>2. r = [i \in 1 .. Len(w) |-> B!Msg("REKEY", 0, w[i].key, w[i].fp)]
    BY DEF B!RekeyMsgs
  <1>3. \A i \in 1 .. Len(w) : B!Msg("REKEY", 0, w[i].key, w[i].fp) \in B!Msgs
    BY <1>1 DEF B!Wraps, B!Msg, B!Msgs, B!MsgTypes
  <1>4. r \in [1 .. Len(w) -> B!Msgs]
    BY <1>2, <1>3
  <1>5. r \in Seq(B!Msgs) /\ Len(r) = Len(w)
    BY <1>1, <1>4, SeqDef, LenProperties
  <1>6. \A i \in 1 .. Len(w) : r[i].type = "REKEY" /\ r[i].key = w[i].key
    BY <1>2 DEF B!Msg
  <1> HIDE DEF r
  <1>7. \A i \in 1 .. Len(r) : r[i].type = "REKEY" /\ Carries(r[i])
    BY <1>5, <1>6 DEF Carries
  <1>8. w = <<>> => r = <<>>
    BY <1>5, EmptySeq
  <1>9. w # <<>> => r # <<>> /\ r[Len(r)].key = w[Len(w)].key
    BY <1>1, <1>5, <1>6, EmptySeq
  <1> QED
    BY <1>5, <1>7, <1>8, <1>9 DEF r

LEMMA BSpeakRequests ==
  ASSUME ConvTyped, BSpeaks
  PROVE  RequestsKept
  <1> DEFINE w == B!QueuedRekeys(bPeers)[HA]
             r == B!RekeyMsgs(w)
             m == B!Msg("RPE2E01", 0, B!KeyToUse, NoFp)
             q == Append(ToA, m)
  <1>1. PICK resolved : B!EncryptLine({HA}, resolved)
    BY DEF BSpeaks
  <1>2. bLane' = B!Sent({HA}, m, B!QueuedRekeys(bPeers), resolved) /\ UNCHANGED <<bPending, bLastEph>>
    BY <1>1 DEF B!EncryptLine, B!SendLine
  <1>3. m \in B!Msgs /\ m.type # "KEYREQ"
    BY BTables DEF B!Msg, B!Msgs, B!MsgTypes
  <1>4. ToA \in Seq(B!Msgs)
    BY LaneSeqs
  <1>5. w \in Seq(B!Wraps)
    <2>1. B!QueuedRekeys(bPeers) \in [{HA} -> Seq(B!Wraps)]
      BY BTakeKeyType DEF ConvTyped, TypeOK
    <2> QED
      BY <2>1
  <1> HIDE DEF m
  <1>6. ToA' = q \o (IF HA \in resolved THEN r ELSE <<>>)
    BY <1>2 DEF B!Sent, ToA
  <1> HIDE DEF w
  <1>7. r \in Seq(B!Msgs) /\ \A i \in 1 .. Len(r) : r[i].type = "REKEY"
    BY <1>5, BRekeysSent
  <1>8. q \in Seq(B!Msgs)
    BY <1>3, <1>4, AppendProperties
  <1>9. /\ EphsOf(q, "KEYREQ") = EphsOf(ToA, "KEYREQ")
        /\ EachOnce(ToA, "KEYREQ") => EachOnce(q, "KEYREQ")
    BY <1>3, <1>4, EphsBesideOthers
  <1> HIDE DEF r, q
  <1>10. /\ EphsOf(q \o r, "KEYREQ") = EphsOf(q, "KEYREQ")
         /\ EachOnce(q, "KEYREQ") => EachOnce(q \o r, "KEYREQ")
    BY <1>7, <1>8, EphsBesideRekeys
  <1>11. ToA' = q \o r \/ ToA' = q
    BY <1>6, <1>8
  <1> QED
    BY <1>2, <1>9, <1>10, <1>11 DEF RequestsKept, Awaited

(* The same in terms of sets: the requests R on their way, the answers S on *)
(* theirs, the cached one C, the ones waited for W of n made in all.       *)
Apart(R, S, C, W, n) ==
  R \cap S = {} /\ C \cap (R \cup S) = {} /\ R \cup S \cup C \subseteq W /\ W \subseteq 1 .. n

LEMMA AnswersApart ==
  /\ AnswersAreAwaited <=>
       /\ EachOnce(ToA, "KEYREQ") /\ EachOnce(ToB, "KEYRSP")
       /\ Apart(EphsOf(ToA, "KEYREQ"), EphsOf(ToB, "KEYRSP"), Cached, Awaited, bLastEph)
  /\ AnswersAreAwaited' <=>
       /\ EachOnce(ToA, "KEYREQ")' /\ EachOnce(ToB, "KEYRSP")'
       /\ Apart(EphsOf(ToA, "KEYREQ")', EphsOf(ToB, "KEYRSP")', Cached', Awaited', bLastEph')
  <1>1. AnswersAreAwaited <=>
       /\ EachOnce(ToA, "KEYREQ") /\ EachOnce(ToB, "KEYRSP")
       /\ Apart(EphsOf(ToA, "KEYREQ"), EphsOf(ToB, "KEYRSP"), Cached, Awaited, bLastEph)
    BY DEF AnswersAreAwaited, Apart
  <1>2. AnswersAreAwaited' <=>
       /\ EachOnce(ToA, "KEYREQ")' /\ EachOnce(ToB, "KEYRSP")'
       /\ Apart(EphsOf(ToA, "KEYREQ")', EphsOf(ToB, "KEYRSP")', Cached', Awaited', bLastEph')
    BY DEF AnswersAreAwaited, Apart
  <1> QED
    BY <1>1, <1>2

LEMMA ApartMoves ==
  ASSUME NEW R, NEW S, NEW T, NEW C, NEW W, NEW n \in Nat, Apart(R, S, C, W, n), T \subseteq S
  PROVE  /\ Apart(R, T, C, W, n)
         /\ n + 1 \notin R /\ Apart(R \cup {n + 1}, T, C, W \cup {n + 1}, n + 1)
         /\ \A e \in S \ T : Apart(R, T, C, W \ {e}, n)
  <1>1. Apart(R, T, C, W, n)
    BY DEF Apart
  <1>2. \A e \in S \ T : Apart(R, T, C, W \ {e}, n)
    BY DEF Apart
  <1>3. n + 1 \notin 1 .. n /\ n + 1 \in 1 .. n + 1 /\ 1 .. n \subseteq 1 .. n + 1
    OBVIOUS
  <1> DEFINE j == n + 1
             N == 1 .. n
             M == 1 .. j
  <1>4. j \notin N /\ j \in M /\ N \subseteq M
    BY <1>3
  <1>5. R \cap T = {} /\ C \cap (R \cup T) = {} /\ R \cup T \cup C \subseteq W /\ W \subseteq N
    BY <1>1 DEF Apart
  <1> HIDE DEF j, N, M
  <1>6. j \notin R /\ (R \cup {j}) \cap T = {} /\ C \cap (R \cup {j} \cup T) = {}
    BY <1>4, <1>5
  <1>7. R \cup {j} \cup T \cup C \subseteq W \cup {j} /\ W \cup {j} \subseteq M
    BY <1>4, <1>5
  <1>8. j \notin R /\ Apart(R \cup {j}, T, C, W \cup {j}, j)
    BY <1>6, <1>7 DEF Apart, M
  <1> QED
    BY <1>1, <1>2, <1>8 DEF j

LEMMA RequestMoves ==
  ASSUME ConvTyped, AnswersAreAwaited, RequestsKept \/ RequestMade, Cached' = Cached,
         EphsOf(ToB, "KEYRSP")' \subseteq EphsOf(ToB, "KEYRSP"), EachOnce(ToB, "KEYRSP")'
  PROVE  AnswersAreAwaited'
  <1> DEFINE R == EphsOf(ToA, "KEYREQ")
             S == EphsOf(ToB, "KEYRSP")
             T == EphsOf(ToB, "KEYRSP")'
             n == bLastEph
  <1>1. Apart(R, S, Cached, Awaited, n) /\ EachOnce(ToA, "KEYREQ") /\ n \in Nat
    BY AnswersApart, BTables
  <1>2. T \subseteq S
    OBVIOUS
  <1>3. Apart(R, T, Cached, Awaited, n)
    BY <1>1, <1>2, ApartMoves
  <1>4. n + 1 \notin R /\ Apart(R \cup {n + 1}, T, Cached, Awaited \cup {n + 1}, n + 1)
    BY <1>1, <1>2, ApartMoves
  <1>5. CASE RequestsKept
    <2>1. /\ Awaited' = Awaited /\ bLastEph' = n /\ EphsOf(ToA, "KEYREQ")' = R
          /\ EachOnce(ToA, "KEYREQ")'
      BY <1>1, <1>5 DEF RequestsKept
    <2>2. Apart(EphsOf(ToA, "KEYREQ")', T, Cached', Awaited', bLastEph')
      BY <1>3, <2>1, Zenon
    <2> QED
      BY <2>1, <2>2, AnswersApart
  <1>6. CASE RequestMade
    <2>1. /\ Awaited' = Awaited \cup {n + 1} /\ bLastEph' = n + 1 /\ EphsOf(ToA, "KEYREQ")' = R \cup {n + 1}
          /\ EachOnce(ToA, "KEYREQ")'
      BY <1>1, <1>4, <1>6 DEF RequestMade
    <2>2. Apart(EphsOf(ToA, "KEYREQ")', T, Cached', Awaited', bLastEph')
      BY <1>4, <2>1, Zenon
    <2> QED
      BY <2>1, <2>2, AnswersApart
  <1> QED
    BY <1>5, <1>6

(* A step of B that takes nothing from its lane keeps all that A relies on. *)
LEMMA BKeeps ==
  ASSUME ConvTyped, ARecipientIsTrue, AnswersAreAwaited, KeyIsComing, UNCHANGED aButLane, ToB' = ToB,
         RequestsKept \/ RequestMade, bIncoming'[HA].key \in {0, bIncoming[HA].key}
  PROVE  ARecipientIsTrue' /\ AnswersAreAwaited' /\ KeyIsComing'
  <1>1. UNCHANGED <<aPeers, aRecipients, aOutgoing, aRekeys, aInbound>> /\ Cached' = Cached
    BY DEF aButLane, Cached
  <1>2. ARecipientIsTrue'
    BY <1>1 DEF ARecipientIsTrue, A!Pinned
  <1>3. KeyIsComing'
    BY <1>1, NoKeyYet DEF KeyIsComing
  <1>4. EphsOf(ToB, "KEYRSP")' \subseteq EphsOf(ToB, "KEYRSP") /\ EachOnce(ToB, "KEYRSP")'
    BY DEF AnswersAreAwaited
  <1>5. AnswersAreAwaited'
    BY <1>1, <1>4, RequestMoves
  <1> QED
    BY <1>2, <1>3, <1>5

(* A message of A reaches B: a key that was on its way is installed, if    *)
(* somebody waits for it.                                                  *)
LEMMA BReceivesKeeps ==
  ASSUME ConvTyped, BPeersAreTrue, ARecipientIsTrue, AnswersAreAwaited, KeyIsComing, DeliverToB
  PROVE  ARecipientIsTrue' /\ AnswersAreAwaited' /\ KeyIsComing'
  <1> DEFINE m == Head(ToB)
             q == Tail(ToB)
  <1>1. /\ ToB \in Seq(A!Msgs) /\ ToB # <<>> /\ BReceives(m) /\ aLane' = [aLane EXCEPT ![HB] = Tail(@)]
        /\ UNCHANGED aButLane
    BY LaneSeqs DEF DeliverToB
  <1>2. ToB' = q
    BY <1>1 DEF ConvTyped, TypeOK, A!ManagerTypeOK, ToB
  <1>3. m \in A!Msgs
    BY <1>1, HeadTailProperties
  <1>4. /\ EphsOf(q, "KEYRSP") \subseteq EphsOf(ToB, "KEYRSP") /\ EachOnce(q, "KEYRSP")
        /\ m.type = "KEYRSP" => m.eph \in EphsOf(ToB, "KEYRSP") /\ m.eph \notin EphsOf(q, "KEYRSP")
    BY <1>1, EphsAfter DEF AnswersAreAwaited
  <1>5. \A k, c : LastKey(ToB, k, c) => LastKey(q, IF Carries(m) THEN m.key ELSE k, c)
    BY <1>1, KeyAfter
  <1> HIDE DEF m, q
  <1>6. m.type = "KEYRSP" => m.eph \in Awaited
    BY <1>4 DEF AnswersAreAwaited
  <1>7. /\ ~Carries(m) => bIncoming'[HA].key \in {0, bIncoming[HA].key}
        /\ Carries(m) => bIncoming'[HA].key \in {0, m.key}
    BY <1>1, <1>6, BReceivesPeers DEF Carries
  <1>8. UNCHANGED <<aPeers, aRecipients, aOutgoing, aRekeys, aInbound>> /\ Cached' = Cached
    BY <1>1 DEF aButLane, Cached
  <1>9. ARecipientIsTrue'
    BY <1>8 DEF ARecipientIsTrue, A!Pinned
  <1>10. \A c : LastKey(ToB, bIncoming[HA].key, c) => LastKey(q, bIncoming'[HA].key, c)
    BY <1>5, <1>7, NoKeyYet
  <1>11. KeyIsComing'
    BY <1>2, <1>8, <1>10 DEF KeyIsComing
  <1>12. /\ EphsOf(ToB, "KEYRSP")' \subseteq EphsOf(ToB, "KEYRSP") /\ EachOnce(ToB, "KEYRSP")'
         /\ m.type = "KEYRSP" => m.eph \in EphsOf(ToB, "KEYRSP") /\ m.eph \notin EphsOf(ToB, "KEYRSP")'
    BY <1>2, <1>4
  <1>13. \/ RequestsKept \/ RequestMade
         \/ m.type = "KEYRSP" /\ Awaited' = Awaited \ {m.eph} /\ UNCHANGED bLastEph /\ ToA' = ToA
    BY <1>1, <1>3, BReceivesRequests
  <1>14. CASE RequestsKept \/ RequestMade
    BY <1>8, <1>9, <1>11, <1>12, <1>14, RequestMoves
  <1>15. CASE m.type = "KEYRSP" /\ Awaited' = Awaited \ {m.eph} /\ UNCHANGED bLastEph /\ ToA' = ToA
    <2> DEFINE S == EphsOf(ToB, "KEYRSP")
               T == EphsOf(ToB, "KEYRSP")'
    <2>1. m.eph \in S \ T /\ T \subseteq S
      BY <1>12, <1>15
    <2>2. Apart(EphsOf(ToA, "KEYREQ"), S, Cached, Awaited, bLastEph) /\ bLastEph \in Nat
          /\ EachOnce(ToA, "KEYREQ")
      BY AnswersApart, BTables
    <2>3. Apart(EphsOf(ToA, "KEYREQ"), T, Cached, Awaited \ {m.eph}, bLastEph)
      BY <2>1, <2>2, ApartMoves
    <2>4. Apart(EphsOf(ToA, "KEYREQ")', T, Cached', Awaited', bLastEph') /\ EachOnce(ToA, "KEYREQ")'
      BY <1>8, <1>15, <2>2, <2>3, Zenon
    <2> QED
      BY <1>9, <1>11, <1>12, <2>4, AnswersApart
  <1> QED
    BY <1>13, <1>14, <1>15

(* Every step keeps the inductive invariant.                               *)
LEMMA ConvPeersStep ==
  ASSUME ConvTyped, BPeersAreTrue, [Next]_vars
  PROVE  BPeersAreTrue'
  <1>1. CASE UNCHANGED <<bPeers, bIncoming>>
    BY <1>1 DEF BPeersAreTrue, B!Pinned
  <1>2. CASE DeliverToB
    BY <1>2, BReceivesPeers DEF DeliverToB
  <1>3. CASE BCommand
    BY <1>3, BCommandPeers
  <1>4. BSpeaks => UNCHANGED <<bPeers, bIncoming>>
    BY DEF BSpeaks, B!EncryptLine, B!SendLine
  <1>5. BRestarts => UNCHANGED <<bPeers, bIncoming>>
    BY DEF BRestarts, B!Restart
  <1>6. DeliverToA \/ ASpeaks \/ AElsewhere \/ ARestarts \/ UNCHANGED bVars \/ UNCHANGED vars =>
          UNCHANGED <<bPeers, bIncoming>>
    BY DEF DeliverToA, ASpeaks, AElsewhere, ARestarts, bVars, bButLane, vars
  <1> QED
    BY <1>1, <1>2, <1>3, <1>4, <1>5, <1>6 DEF Next, UserStep

LEMMA ConvStep ==
  ASSUME ConvInv, [Next]_vars
  PROVE  ConvInv'
  <1>1. ConvTyped' /\ BPeersAreTrue'
    BY ConvTypedStep, ConvPeersStep DEF ConvInv
  <1> SUFFICES ASSUME disturbed' = {} PROVE ARecipientIsTrue' /\ AnswersAreAwaited' /\ KeyIsComing'
    BY <1>1 DEF ConvInv, Undisturbed
  <1>2. ConvTyped /\ BPeersAreTrue /\ ARecipientIsTrue /\ AnswersAreAwaited /\ KeyIsComing
    BY DisturbancesStay DEF ConvInv, Undisturbed
  <1>3. CASE DeliverToA
    BY <1>2, <1>3, AReceivesKeeps
  <1>4. CASE DeliverToB
    BY <1>2, <1>4, BReceivesKeeps
  <1>5. CASE ASpeaks
    BY <1>2, <1>5, ASpeakKeeps
  <1>6. CASE AElsewhere
    BY <1>6 DEF AElsewhere, Disturb
  <1>7. CASE BSpeaks
    <2>1. RequestsKept
      BY <1>2, <1>7, BSpeakRequests
    <2>2. UNCHANGED aButLane /\ ToB' = ToB /\ UNCHANGED bIncoming
      BY <1>7 DEF BSpeaks, aVars, ToB, B!EncryptLine, B!SendLine
    <2> QED
      BY <1>2, <2>1, <2>2, BKeeps
  <1>8. CASE ACommand /\ UNCHANGED bVars
    BY <1>2, <1>8, ACommandKeeps
  <1>9. CASE BCommand /\ UNCHANGED aVars
    <2>1. RequestsKept \/ RequestMade
      BY <1>2, <1>9, BCommandRequests
    <2>2. bIncoming'[HA].key \in {0, bIncoming[HA].key}
      BY <1>2, <1>9, BCommandPeers
    <2>3. UNCHANGED aButLane /\ ToB' = ToB
      BY <1>9 DEF aVars, ToB
    <2> QED
      BY <1>2, <2>1, <2>2, <2>3, BKeeps
  <1>10. CASE ARestarts
    BY <1>2, <1>10, ARestartKeeps
  <1>11. CASE BRestarts
    <2>1. ToB = <<>> /\ ToA = <<>> /\ bPending = {} /\ disturbed = {}
      BY <1>11, DisturbancesStay DEF BRestarts, Disturb, InFlight
    <2>2. /\ bLane' = [h \in {HA} |-> <<>>] /\ bPending' = {} /\ aLane' = [aLane EXCEPT ![HB] = <<>>]
          /\ UNCHANGED <<bIncoming, bLastEph>> /\ UNCHANGED aButLane
      BY <1>11 DEF BRestarts, B!Restart
    <2>3. ToA' = ToA /\ ToB' = ToB
      BY <1>2, <2>1, <2>2 DEF ToA, ToB, ConvTyped, TypeOK, A!ManagerTypeOK
    <2>4. RequestsKept
      BY <2>1, <2>2, <2>3 DEF RequestsKept, Awaited
    <2> QED
      BY <1>2, <2>2, <2>3, <2>4, BKeeps
  <1>12. CASE UNCHANGED vars
    <2>1. RequestsKept /\ ToB' = ToB /\ UNCHANGED aButLane /\ UNCHANGED bIncoming
      BY <1>12 DEF vars, aVars, bVars, bButLane, RequestsKept, Awaited, ToA, ToB
    <2> QED
      BY <1>2, <2>1, BKeeps
  <1> QED
    BY <1>3, <1>4, <1>5, <1>6, <1>7, <1>8, <1>9, <1>10, <1>11, <1>12 DEF Next, UserStep

LEMMA ConvInit == Init => ConvInv
  <1> SUFFICES ASSUME Init PROVE ConvInv
    OBVIOUS
  <1>1. ConvTyped
    BY ConvTypedInit
  <1>2. /\ bPeers[FA] = B!NoPeer /\ bIncoming[HA] = B!NoSession /\ aRecipients[HB] = NoFp
        /\ aRekeys[HB] = <<>> /\ ToA = <<>> /\ ToB = <<>> /\ aInbound[HB] = A!NoRequest /\ bPending = {}
    BY DEF Init, A!ManagerInit, B!ManagerInit, ToA, ToB
  <1>3. BPeersAreTrue
    BY <1>2 DEF BPeersAreTrue, B!NoPeer, B!NoSession
  <1>4. ARecipientIsTrue /\ KeyIsComing
    BY <1>1, <1>2, ATables DEF ARecipientIsTrue, KeyIsComing
  <1>5. /\ EphsOf(ToA, "KEYREQ") = {} /\ EphsOf(ToB, "KEYRSP") = {}
        /\ EachOnce(ToA, "KEYREQ") /\ EachOnce(ToB, "KEYRSP")
    BY <1>2 DEF EphsOf, EachOnce
  <1>6. Cached = {} /\ Awaited = {}
    BY <1>1, <1>2, ATables DEF Cached, Awaited, A!NoRequest
  <1>7. AnswersAreAwaited
    BY <1>5, <1>6 DEF AnswersAreAwaited
  <1> QED
    BY <1>1, <1>3, <1>4, <1>7 DEF ConvInv, Undisturbed

(* Once nothing is queued or on its way, the key that was coming has come.  *)
LEMMA KeyHasCome == ConvInv => RecipientKeepsUp
  <1> SUFFICES ASSUME ConvInv, disturbed = {}, Settled, ~aOutgoing.rotate, aRecipients[HB] = FB
               PROVE  bIncoming[HA].key \in {0, aOutgoing.key}
    BY DEF RecipientKeepsUp
  <1>1. ToB = <<>> /\ aRekeys[HB] = <<>>
    BY DEF Settled, InFlight
  <1>2. LastKey(ToB, bIncoming[HA].key, aOutgoing.key)
    BY <1>1 DEF ConvInv, Undisturbed, KeyIsComing
  <1> QED
    BY <1>1, <1>2 DEF LastKey

(* Whatever is accepted, declined, revoked, forgotten, rotated and spoken  *)
(* in between, in any number: as long as no exchange was cut short, a       *)
(* trusted session of a recipient holds the key the sender uses.           *)
THEOREM RecipientsKeepUp == Spec => []RecipientKeepsUp
  <1>1. ConvInv /\ [Next]_vars => ConvInv'
    BY ConvStep
  <1> QED
    BY <1>1, ConvInit, KeyHasCome, PTL DEF Spec
=============================================================================
