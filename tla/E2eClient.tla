------------------------------ MODULE E2eClient ------------------------------
(***************************************************************************)
(* One client's E2eManager among honest users of the same protocol: the    *)
(* users sit at handles, change handles and reinstall (a new identity at   *)
(* an old handle), answer the KEYREQs that reach them, and send a REKEY    *)
(* only when they hold us as a recipient.  What the client puts on its     *)
(* lanes is relayed before the next event (drain_pending_e2e_sends runs in *)
(* the same turn of the main loop as the handler that queued it).          *)
(***************************************************************************)
EXTENDS E2eManager, TLC, TLAPS, SequenceTheorems

CONSTANTS MaxKey,      \* bound on the keys our client generates
          MaxEph,      \* bound on the KEYREQs our client builds
          MaxPeerKey,  \* bound on a peer's key numbers
          MaxUserSteps,\* bound on the /e2e commands and restarts
          MaxMoves     \* bound on the changes of who sits where

ASSUME BoundsAssumption ==
  {MaxKey, MaxEph, MaxPeerKey, MaxUserSteps, MaxMoves} \subseteq Nat

VARIABLES
  at,         \* who sits at a handle now: handle -> fingerprint or NoFp
  asked,      \* [fp, eph]: KEYREQs of ours that reached fp, not yet answered
  holders,    \* identities that have us as a recipient of their key
  given,      \* history: [fp, key], our keys relayed to an identity
  consent,    \* history: identities the user accepted, unrevoked or handshook
  dropped,    \* history: identities forgotten while they held our key
  warned,     \* TOFU warnings shown and not acted upon: [h, fp, change]
  userSteps,  \* commands and restarts so far
  moves       \* changes of who sits where so far

envVars  == <<at, asked, holders, given, consent, dropped, warned, userSteps, moves>>
vars     == <<managerVars, envVars>>

Changes == {"HandleChanged", "FingerprintChanged", "Revoked"}

(* Types of every variable. *)
EnvTypeOK ==
  /\ at \in [Handles -> Fps \cup {NoFp}]
  /\ asked \in SUBSET [fp : Fps, eph : Nat]
  /\ holders \in SUBSET Fps
  /\ given \in SUBSET Wraps
  /\ consent \in SUBSET Fps
  /\ dropped \in SUBSET Fps
  /\ warned \in SUBSET [h : Handles, fp : Fps, change : Changes]
  /\ userSteps \in Nat
  /\ moves \in Nat
TypeOK == ManagerTypeOK /\ EnvTypeOK

Init ==
  /\ ManagerInit
  /\ at = [h \in Handles |-> NoFp]
  /\ asked = {} /\ holders = {} /\ given = {}
  /\ consent = {} /\ dropped = {} /\ warned = {}
  /\ userSteps = 0 /\ moves = 0

Present == {h \in Handles : at[h] # NoFp}
LanesEmpty == \A h \in Handles : lane[h] = <<>>
Lanes == UNION {{[h |-> h, m |-> lane[h][i]] : i \in 1 .. Len(lane[h])} : h \in Handles}

-----------------------------------------------------------------------------
(* The server relays what the client sent: a wrapped key is of use to the  *)
(* identity it was wrapped for, a KEYREQ to whoever sits at the handle.    *)
Relay ==
  /\ ~LanesEmpty
  /\ given' = given \cup
       {[fp |-> x.m.for, key |-> x.m.key] :
          x \in {y \in Lanes : /\ y.m.type \in {"KEYRSP", "REKEY"}
                              /\ y.h \in Present /\ y.m.for = at[y.h]}}
  /\ asked' = asked \cup
       {[fp |-> at[x.h], eph |-> x.m.eph] :
          x \in {y \in Lanes : y.m.type = "KEYREQ" /\ y.h \in Present}}
  /\ lane' = [h \in Handles |-> <<>>]
  /\ UNCHANGED <<keyring, volatile, lastEph, at, holders, consent, dropped,
                 warned, userSteps, moves>>

(* Mutant of Surface: any classification is noticed, not just a change.    *)
SurfaceEverything(fp, h) ==
  warned' = warned \cup {[h |-> h, fp |-> fp, change |-> Classify(fp, h)]}

(* surface_pending_trust_changes: the queued notice is drained and shown   *)
(* in the same turn, so the notice queue is empty between two steps.       *)
Surface(fp, h) ==
  warned' = IF Acceptable(fp, h) THEN warned
            ELSE warned \cup {[h |-> h, fp |-> fp, change |-> Classify(fp, h)]}

KeyReqArrives(h, allowOut) ==
  /\ \/ ServeKeyReq(h, at[h], 1, allowOut)
     \/ CacheKeyReq(h, at[h], 1)
     \/ IgnoreKeyReq(h, at[h])
     \/ mode # "disabled" /\ ~Acceptable(at[h], h) /\ UNCHANGED managerVars
  /\ Surface(at[h], h)
  /\ UNCHANGED <<at, asked, holders, given, consent, dropped, userSteps, moves>>

KeyRspArrives(h, eph, key) ==
  /\ [fp |-> at[h], eph |-> eph] \in asked
  /\ asked' = asked \ {[fp |-> at[h], eph |-> eph]}
  /\ holders' = holders \cup {at[h]}
  /\ \/ ReceiveKeyRsp(h, at[h], eph, key)
     \/ (\A p \in pending : p.eph # eph) /\ UNCHANGED managerVars
  /\ IF \E p \in pending : p.eph = eph
     THEN Surface(at[h], h) ELSE UNCHANGED warned
  /\ UNCHANGED <<at, given, consent, dropped, userSteps, moves>>

RekeyArrives(h, key) ==
  /\ at[h] \in holders
  /\ \/ ReceiveRekey(h, at[h], key)
     \/ Classify(at[h], h) # "Known" /\ UNCHANGED managerVars
  /\ IF Classify(at[h], h) = "New" THEN UNCHANGED warned ELSE Surface(at[h], h)
  /\ UNCHANGED <<at, asked, holders, given, consent, dropped, userSteps, moves>>

ChunkArrives(h, key) ==
  /\ RequestMissingKey(h, key)
  /\ UNCHANGED envVars

FromPeer ==
  \E h \in Present :
    \/ \E allowOut \in BOOLEAN : KeyReqArrives(h, allowOut)
    \/ \E eph \in 1 .. MaxEph, key \in 1 .. MaxPeerKey : KeyRspArrives(h, eph, key)
    \/ \E key \in 1 .. MaxPeerKey : RekeyArrives(h, key)
    \/ \E key \in 1 .. MaxPeerKey : ChunkArrives(h, key)

-----------------------------------------------------------------------------
(* The user.  A vouching command names the identity the user has in mind:  *)
(* the cached one, the one of the session, or the one at the handle.       *)
Vouch(fp) == consent' = consent \cup ({fp} \ {NoFp})

Forget(h) ==
  /\ Purge(h)
  /\ dropped' = dropped \cup ({recipients[h]} \ {NoFp})
Reverify(h) ==
  /\ Purge(h)
  /\ dropped' = dropped \cup ({recipients[h]} \ {NoFp})
  /\ warned' = {w \in warned : w.h # h}

Command ==
  \E h \in Handles :
    \/ /\ \E allowOut \in BOOLEAN : AcceptCached(h, allowOut)
       /\ Vouch(inbound[h].fp)
       /\ UNCHANGED <<dropped, warned>>
    \/ AcceptWithoutRequest(h) /\ Vouch(incoming[h].fp) /\ UNCHANGED <<dropped, warned>>
    \/ Unrevoke(h) /\ Vouch(incoming[h].fp) /\ UNCHANGED <<dropped, warned>>
    \/ h \in Present /\ Handshake(h) /\ Vouch(at[h]) /\ UNCHANGED <<dropped, warned>>
    \/ Decline(h) /\ UNCHANGED <<consent, dropped, warned>>
    \/ Revoke(h) /\ UNCHANGED <<consent, dropped, warned>>
    \/ ForgetHere(h) /\ UNCHANGED <<consent, dropped, warned>>
    \/ Forget(h) /\ UNCHANGED <<consent, warned>>
    \/ Reverify(h) /\ UNCHANGED consent

Configure ==
  \/ Rotate
  \/ \E m \in Modes \cup {"disabled"} : SetMode(m)
  \/ \E h \in Handles : SetAutotrust(autotrust \cup {h}) \/ SetAutotrust(autotrust \ {h})

UserStep ==
  /\ userSteps < MaxUserSteps
  /\ userSteps' = userSteps + 1
  /\ \/ Command
     \/ (Configure \/ Restart) /\ UNCHANGED <<consent, dropped, warned>>
  /\ UNCHANGED <<at, asked, holders, given, moves>>

Speak ==
  /\ \E resolved \in SUBSET Present :
       \/ EncryptLine(Present, resolved)
       \/ EncryptOversizeLine(Present, resolved)
       \/ EncryptElsewhere(resolved)
  /\ UNCHANGED envVars

(* A user joins at a free handle, leaves, or comes back under another      *)
(* identity; nobody sits at two handles.                                   *)
Move ==
  /\ moves < MaxMoves
  /\ moves' = moves + 1
  /\ \E h \in Handles, fp \in Fps \cup {NoFp} :
       /\ fp # at[h]
       /\ fp = NoFp \/ \A g \in Handles : at[g] # fp
       /\ at' = [at EXCEPT ![h] = fp]
  /\ UNCHANGED <<managerVars, asked, holders, given, consent, dropped, warned,
                 userSteps>>

WithinBounds == outgoing'.key <= MaxKey /\ lastEph' <= MaxEph

Next == \/ Relay
        \/ LanesEmpty /\ (FromPeer \/ UserStep \/ Speak \/ Move) /\ WithinBounds

Spec == Init /\ [][Next]_vars

-----------------------------------------------------------------------------
(* The rows of the four tables about a handle agree: two identities are    *)
(* never pinned to one handle (so get_peer_by_handle has one answer), and  *)
(* a session, a recipient or a cached request of h belongs to the identity *)
(* pinned at h, however commands, handshakes, moves and restarts mix.      *)
OnePeerPerHandle ==
  \A f, g \in Fps : Pinned(f) /\ peers[f].handle = peers[g].handle => f = g
SessionIsPinned ==
  \A h \in Handles : HasSession(h) => peers[incoming[h].fp].handle = h
RecipientIsPinned ==
  \A h \in Handles : recipients[h] # NoFp => peers[recipients[h]].handle = h
RequestIsPinned ==
  \A h \in Handles : inbound[h].fp # NoFp => peers[inbound[h].fp].handle = h
KeyringAgrees ==
  OnePeerPerHandle /\ SessionIsPinned /\ RecipientIsPinned /\ RequestIsPinned

(* Whoever can open the line now on a lane is a recipient, or was one when *)
(* the user forgot it: in particular nobody revoked, before or after any   *)
(* rotation, reads on.                                                     *)
Recipients == {recipients[h] : h \in Handles}
LineReadersAreRecipients ==
  \A x \in Lanes, g \in given :
    x.m.type = "RPE2E01" /\ x.m.key = g.key => g.fp \in Recipients \cup dropped

(* Why: every copy of our current key, relayed, queued or on a lane, is    *)
(* wrapped for a recipient unless the key is already due for rotation, and *)
(* a line is only ever on its lane under the current key.                  *)
QueuedWraps == UNION {{rekeys[h][i] : i \in 1 .. Len(rekeys[h])} : h \in Handles}
LaneWraps == {[fp |-> x.m.for, key |-> x.m.key] :
                x \in {y \in Lanes : y.m.type \in {"KEYRSP", "REKEY"}}}
Wrapped == given \cup QueuedWraps \cup LaneWraps
KeyHoldersAreRecipients ==
  /\ \A w \in Wrapped : w.key \in 1 .. outgoing.key
  /\ ~outgoing.rotate =>
       \A w \in Wrapped : w.key = outgoing.key => w.fp \in Recipients \cup dropped
  /\ \A x \in Lanes :
       x.m.type = "RPE2E01" => x.m.key = outgoing.key /\ ~outgoing.rotate

(* A revoked session row becomes trusted again by a command of the user.   *)
RevokedStaysRevoked ==
  [][\A h \in Handles :
       incoming[h].status = "revoked" /\ incoming'[h].status = "trusted" =>
         userSteps' # userSteps]_vars

(* The zero-filled placeholder of a cached request is never trusted.       *)
PlaceholderNeverTrusted ==
  \A h \in Handles : Trusted(h) => incoming[h].key # 0

(* In normal mode a peer gets our key for the first time only once the     *)
(* user has vouched for it.                                                *)
Readers == {g.fp : g \in given}
NormalModeAsksFirst ==
  [][mode = "normal" /\ autotrust = {} => Readers' \ Readers \subseteq consent]_vars

(* Reverifying a handle after a changed-fingerprint warning installs the   *)
(* new identity, and after a changed-handle warning lets it speak there.   *)
ReverifyInstallsNewKey ==
  [][\A w \in warned \ warned' : w.change = "FingerprintChanged" =>
       peers'[w.fp] = [handle |-> w.h, status |-> "trusted"]]_vars
ReverifyAcceptsNewHandle ==
  [][\A w \in warned \ warned' : w.change = "HandleChanged" =>
       Acceptable(w.fp, w.h)']_vars

(* docs/src/content/e2e.md: forgetting a peer gives a clean slate, so a    *)
(* forgotten peer that has not handshaken since has nothing queued for it. *)
CleanSlate ==
  \A w \in QueuedWraps : w.fp \notin dropped \ Recipients

(* While the conversation is enabled no line leaves in the clear.          *)
EnabledNeverInTheClear ==
  mode # "disabled" => \A x \in Lanes : x.m.type # "PLAIN"

(* For TLC: handles and identities are interchangeable.                    *)
Symmetry == Permutations(Handles) \cup Permutations(Fps)
-----------------------------------------------------------------------------
(***************************************************************************)
(* Proofs, for every number of handles, identities and steps: type         *)
(* correctness, then the agreement of the keyring tables, then that        *)
(* whoever can open a line is a recipient.                                 *)
(***************************************************************************)
USE NoHandleAssumption, NoFpAssumption

(* The strict install and the status update keep the table's type.         *)
LEMMA InstallType ==
  ASSUME incoming \in [Handles -> Sessions], NEW h \in Handles, NEW s \in Sessions
  PROVE  InstallStrict(h, s) \in [Handles -> Sessions]
  BY DEF InstallStrict

LEMMA StatusType ==
  ASSUME incoming \in [Handles -> Sessions], NEW h \in Handles, NEW st \in Statuses
  PROVE  WithStatus(h, st) \in [Handles -> Sessions]
  BY DEF WithStatus, Sessions

LEMMA PeerType ==
  ASSUME peers \in [Fps -> PeerRows], NEW h \in Handles, NEW fp \in Fps,
         NEW st \in Statuses
  PROVE  /\ WithPeer(fp, h, st) \in [Fps -> PeerRows]
         /\ SeenPeer(fp, h) \in [Fps -> PeerRows]
  BY DEF WithPeer, SeenPeer, PeerRows, Statuses

LEMMA SessionType ==
  ASSUME NEW fp \in Fps, NEW key \in Nat, NEW st \in Statuses
  PROVE  [fp |-> fp, key |-> key, status |-> st] \in Sessions
  BY DEF Sessions

(* The empty rows are rows.                                                *)
LEMMA EmptyRowTypes ==
  NoSession \in Sessions /\ NoRequest \in Requests /\ NoPeer \in PeerRows
  BY DEF NoSession, NoRequest, NoPeer, Sessions, Requests, PeerRows, Statuses

(* Taking our key leaves a well-typed key row and REKEY queues.            *)
LEMMA TakeKeyType ==
  ASSUME ManagerTypeOK, NEW pt
  PROVE  /\ KeyToUse \in Nat
         /\ [key |-> KeyToUse, rotate |-> FALSE] \in KeyRows
         /\ QueuedRekeys(pt) \in [Handles -> Seq(Wraps)]
  <1>1. KeyToUse \in Nat
    BY DEF ManagerTypeOK, KeyToUse, KeyRows
  <1>2. ASSUME NEW h \in Handles, recipients[h] # NoFp
        PROVE  Append(rekeys[h], [fp |-> recipients[h], key |-> KeyToUse]) \in Seq(Wraps)
    <2>1. recipients[h] \in Fps
      BY <1>2 DEF ManagerTypeOK
    <2>2. [fp |-> recipients[h], key |-> KeyToUse] \in Wraps
      BY <1>1, <2>1 DEF Wraps
    <2>3. rekeys[h] \in Seq(Wraps)
      BY DEF ManagerTypeOK
    <2> QED BY <2>2, <2>3, AppendProperties
  <1> QED BY <1>1, <1>2 DEF ManagerTypeOK, QueuedRekeys, KeyRows

LEMMA MsgType ==
  ASSUME NEW t \in MsgTypes, NEW e \in Nat, NEW k \in Nat, NEW fp \in Fps \cup {NoFp}
  PROVE  Msg(t, e, k, fp) \in Msgs
  BY DEF Msg, Msgs

(* Appending well-typed messages to one lane keeps the lanes well typed.   *)
LEMMA LaneType ==
  ASSUME lane \in [Handles -> Seq(Msgs)], NEW h \in Handles, NEW m \in Msgs, NEW n \in Msgs
  PROVE  /\ [lane EXCEPT ![h] = Append(@, m)] \in [Handles -> Seq(Msgs)]
         /\ [lane EXCEPT ![h] = @ \o <<m, n>>] \in [Handles -> Seq(Msgs)]
  <1>1. Append(lane[h], m) \in Seq(Msgs)
    BY AppendProperties
  <1>2. <<m, n>> \in Seq(Msgs)
    OBVIOUS
  <1>3. lane[h] \o <<m, n>> \in Seq(Msgs)
    BY <1>2, ConcatProperties
  <1> QED BY <1>1, <1>3

(* A new request of ours, and the lane it is put on.                       *)
LEMMA RequestType ==
  ASSUME ManagerTypeOK, NEW to \in Handles \cup {NoHandle}, NewRequest(to)
  PROVE  /\ pending' \in SUBSET Asks /\ lastEph' \in Nat
         /\ Msg("KEYREQ", lastEph + 1, 0, NoFp) \in Msgs
  <1>1. lastEph \in Nat /\ pending \in SUBSET Asks
    BY DEF ManagerTypeOK
  <1>2. [eph |-> lastEph + 1, to |-> to] \in Asks
    BY <1>1 DEF Asks
  <1>3. Msg("KEYREQ", lastEph + 1, 0, NoFp) \in Msgs
    BY <1>1, MsgType DEF MsgTypes
  <1> QED BY <1>1, <1>2, <1>3 DEF NewRequest

(* Answering a request keeps what it touches well typed.                   *)
LEMMA ServeType ==
  ASSUME ManagerTypeOK, NEW h \in Handles, NEW fp \in Fps, NEW eph \in Nat,
         NEW allowOut, NEW pt, Serve(h, fp, eph, allowOut, pt)
  PROVE  /\ outgoing' \in KeyRows
         /\ rekeys' \in [Handles -> Seq(Wraps)]
         /\ recipients' \in [Handles -> Fps \cup {NoFp}]
         /\ pending' \in SUBSET Asks
         /\ lastEph' \in Nat
         /\ lane' \in [Handles -> Seq(Msgs)]
  <1>1. lastEph \in Nat /\ pending \in SUBSET Asks /\ lane \in [Handles -> Seq(Msgs)]
    BY DEF ManagerTypeOK
  <1>2. Msg("KEYRSP", eph, KeyToUse, fp) \in Msgs
    BY TakeKeyType, MsgType DEF MsgTypes
  <1>4. outgoing' \in KeyRows /\ rekeys' \in [Handles -> Seq(Wraps)]
    BY TakeKeyType DEF Serve, TakeKey
  <1>5. recipients' \in [Handles -> Fps \cup {NoFp}]
    BY DEF ManagerTypeOK, Serve
  <1>6. CASE NewRequest(h) /\
             lane' = [lane EXCEPT ![h] = @ \o <<Msg("KEYRSP", eph, KeyToUse, fp),
                                       Msg("KEYREQ", lastEph + 1, 0, NoFp)>>]
    <2>1. pending' \in SUBSET Asks /\ lastEph' \in Nat
          /\ Msg("KEYREQ", lastEph + 1, 0, NoFp) \in Msgs
      BY <1>6, RequestType
    <2>2. lane' \in [Handles -> Seq(Msgs)]
      BY <1>1, <1>2, <1>6, <2>1, LaneType
    <2> QED BY <1>4, <1>5, <2>1, <2>2
  <1>7. CASE lane' = [lane EXCEPT ![h] = Append(@, Msg("KEYRSP", eph, KeyToUse, fp))]
             /\ UNCHANGED <<pending, lastEph>>
    BY <1>1, <1>2, <1>4, <1>5, <1>7, LaneType
  <1> QED BY <1>6, <1>7 DEF Serve

(* What a line puts on the lanes is well typed.                            *)
LEMMA SentType ==
  ASSUME lane \in [Handles -> Seq(Msgs)], NEW present, NEW resolved, NEW line \in Msgs,
         NEW queues \in [Handles -> Seq(Wraps)]
  PROVE  Sent(present, line, queues, resolved) \in [Handles -> Seq(Msgs)]
  <1>1. ASSUME NEW q \in Seq(Wraps)
        PROVE  RekeyMsgs(q) \in Seq(Msgs)
    <2>1. ASSUME NEW i \in 1 .. Len(q)
          PROVE  Msg("REKEY", 0, q[i].key, q[i].fp) \in Msgs
      <3>1. q[i] \in Wraps
        BY ElementOfSeq
      <3> QED BY <3>1, MsgType DEF MsgTypes, Wraps
    <2>2. Len(q) \in Nat
      BY LenProperties
    <2> QED BY <2>1, <2>2, IsASeq DEF RekeyMsgs
  <1>2. ASSUME NEW h \in Handles
        PROVE  /\ Append(lane[h], line) \in Seq(Msgs)
               /\ RekeyMsgs(queues[h]) \in Seq(Msgs)
               /\ <<>> \in Seq(Msgs)
               /\ lane[h] \in Seq(Msgs)
    BY <1>1, AppendProperties, EmptySeq
  <1>3. ASSUME NEW h \in Handles
        PROVE  (IF h \in present THEN Append(lane[h], line) ELSE lane[h]) \o
               (IF h \in resolved THEN RekeyMsgs(queues[h]) ELSE <<>>) \in Seq(Msgs)
    BY <1>2, ConcatProperties
  <1> QED BY <1>3 DEF Sent

LEMMA LineMsgType ==
  ASSUME ManagerTypeOK
  PROVE  /\ Msg("RPE2E01", 0, KeyToUse, NoFp) \in Msgs
         /\ Msg("RPE2E01", 0, 0, NoFp) \in Msgs
         /\ Msg("PLAIN", 0, 0, NoFp) \in Msgs
  BY TakeKeyType, MsgType DEF MsgTypes

LEMMA SpeakType ==
  ASSUME ManagerTypeOK, NEW present, NEW resolved,
         \/ EncryptLine(present, resolved)
         \/ EncryptOversizeLine(present, resolved)
         \/ EncryptElsewhere(resolved)
  PROVE  ManagerTypeOK'
  <1>0. lane \in [Handles -> Seq(Msgs)] /\ rekeys \in [Handles -> Seq(Wraps)]
    BY DEF ManagerTypeOK
  <1>1. ASSUME NEW line \in Msgs, SendLine(present, resolved, line)
        PROVE  ManagerTypeOK'
    <2>1. lane' \in [Handles -> Seq(Msgs)]
      BY <1>0, <1>1, TakeKeyType, SentType DEF SendLine
    <2>2. rekeys' \in [Handles -> Seq(Wraps)]
      BY <1>1, EmptySeq DEF SendLine
    <2>3. outgoing' \in KeyRows
      BY <1>1, TakeKeyType DEF SendLine
    <2> QED BY <1>1, <2>1, <2>2, <2>3 DEF SendLine, ManagerTypeOK
  <1>2. CASE EncryptElsewhere(resolved)
    <2>1. lane' \in [Handles -> Seq(Msgs)]
      BY <1>0, <1>2, LineMsgType, SentType DEF EncryptElsewhere
    <2>2. rekeys' \in [Handles -> Seq(Wraps)]
      BY <1>2, EmptySeq DEF EncryptElsewhere
    <2> QED BY <1>2, <2>1, <2>2 DEF EncryptElsewhere, ManagerTypeOK
  <1> QED BY <1>1, <1>2, LineMsgType DEF EncryptLine, EncryptOversizeLine

-----------------------------------------------------------------------------
(* Every action of the manager keeps its tables well typed.                *)
LEMMA HandshakeStepType ==
  ASSUME ManagerTypeOK, NEW h \in Handles, NEW fp \in Fps, NEW eph \in Nat,
         NEW key \in Nat, NEW allowOut,
         \/ ServeKeyReq(h, fp, eph, allowOut)
         \/ CacheKeyReq(h, fp, eph)
         \/ IgnoreKeyReq(h, fp)
         \/ ReceiveKeyRsp(h, fp, eph, key)
         \/ ReceiveRekey(h, fp, key)
         \/ RequestMissingKey(h, key)
  PROVE  ManagerTypeOK'
  <1>0. incoming \in [Handles -> Sessions] /\ peers \in [Fps -> PeerRows]
        /\ lane \in [Handles -> Seq(Msgs)]
    BY DEF ManagerTypeOK
  <1> Statuses = {"none", "pending", "trusted", "revoked"}
    BY DEF Statuses
  <1>1. CASE ServeKeyReq(h, fp, eph, allowOut)
    <2>1. Serve(h, fp, eph, allowOut, peers') /\ UNCHANGED <<incoming, mode, autotrust, inbound>>
      BY <1>1 DEF ServeKeyReq
    <2>2. peers' \in [Fps -> PeerRows]
      BY <1>0, <1>1, PeerType DEF ServeKeyReq
    <2> QED BY <2>1, <2>2, ServeType DEF ManagerTypeOK
  <1>2. CASE CacheKeyReq(h, fp, eph)
    <2>1. incoming' \in [Handles -> Sessions]
      BY <1>0, <1>2, SessionType, InstallType DEF CacheKeyReq
    <2>2. [fp |-> fp, eph |-> eph] \in Requests
      BY DEF Requests
    <2>3. inbound' \in [Handles -> Requests]
      BY <1>2, <2>2 DEF CacheKeyReq, ManagerTypeOK
    <2>4. peers' \in [Fps -> PeerRows]
      BY <1>0, <1>2, PeerType DEF CacheKeyReq
    <2> QED BY <1>2, <2>1, <2>3, <2>4 DEF CacheKeyReq, ManagerTypeOK
  <1>3. CASE IgnoreKeyReq(h, fp)
    <2>1. peers' \in [Fps -> PeerRows]
      BY <1>0, <1>3, PeerType DEF IgnoreKeyReq
    <2> QED BY <1>3, <2>1 DEF IgnoreKeyReq, ManagerTypeOK
  <1>4. CASE ReceiveKeyRsp(h, fp, eph, key)
    <2>1. incoming' \in [Handles -> Sessions]
      BY <1>0, <1>4, SessionType, InstallType DEF ReceiveKeyRsp
    <2>2. peers' \in [Fps -> PeerRows]
      BY <1>0, <1>4, PeerType DEF ReceiveKeyRsp
    <2>3. pending' \in SUBSET Asks
      BY <1>4 DEF ReceiveKeyRsp, ManagerTypeOK
    <2> QED BY <1>4, <2>1, <2>2, <2>3 DEF ReceiveKeyRsp, ManagerTypeOK
  <1>5. CASE ReceiveRekey(h, fp, key)
    <2>1. incoming' \in [Handles -> Sessions]
      BY <1>0, <1>5, SessionType, InstallType DEF ReceiveRekey
    <2> QED BY <1>5, <2>1 DEF ReceiveRekey, ManagerTypeOK
  <1>6. CASE RequestMissingKey(h, key)
    <2>1. pending' \in SUBSET Asks /\ lastEph' \in Nat
          /\ Msg("KEYREQ", lastEph + 1, 0, NoFp) \in Msgs
      BY <1>6, RequestType DEF RequestMissingKey
    <2>2. lane' \in [Handles -> Seq(Msgs)]
      BY <1>0, <1>6, <2>1, LaneType DEF RequestMissingKey
    <2> QED BY <1>6, <2>1, <2>2 DEF RequestMissingKey, ManagerTypeOK
  <1> QED BY <1>1, <1>2, <1>3, <1>4, <1>5, <1>6

LEMMA CommandStepType ==
  ASSUME ManagerTypeOK, NEW h \in Handles, NEW allowOut,
         \/ AcceptCached(h, allowOut)
         \/ AcceptWithoutRequest(h)
         \/ Decline(h)
         \/ Unrevoke(h)
         \/ Revoke(h)
         \/ ForgetHere(h)
         \/ Purge(h)
         \/ Handshake(h)
  PROVE  ManagerTypeOK'
  <1>0. incoming \in [Handles -> Sessions] /\ peers \in [Fps -> PeerRows]
        /\ inbound \in [Handles -> Requests] /\ lane \in [Handles -> Seq(Msgs)]
    BY DEF ManagerTypeOK
  <1> Statuses = {"none", "pending", "trusted", "revoked"}
    BY DEF Statuses
  <1>1. CASE AcceptCached(h, allowOut)
    <2>1. inbound[h].fp \in Fps /\ inbound[h].eph \in Nat
      BY <1>0, <1>1 DEF AcceptCached, Requests
    <2>2. Serve(h, inbound[h].fp, inbound[h].eph, allowOut, peers')
          /\ UNCHANGED <<incoming, mode, autotrust>>
      BY <1>1 DEF AcceptCached
    <2>3. peers' \in [Fps -> PeerRows]
      BY <1>0, <1>1, <2>1, PeerType DEF AcceptCached
    <2>4. inbound' \in [Handles -> Requests]
      BY <1>0, <1>1, EmptyRowTypes DEF AcceptCached
    <2>5. /\ outgoing' \in KeyRows
          /\ rekeys' \in [Handles -> Seq(Wraps)]
          /\ recipients' \in [Handles -> Fps \cup {NoFp}]
          /\ pending' \in SUBSET Asks
          /\ lastEph' \in Nat
          /\ lane' \in [Handles -> Seq(Msgs)]
      BY <2>1, <2>2, ServeType
    <2> QED BY <2>2, <2>3, <2>4, <2>5 DEF ManagerTypeOK
  <1>2. ASSUME NEW st \in {"revoked", "trusted"}, FlipStatus(h, st)
        PROVE  ManagerTypeOK'
    <2>1. incoming' \in [Handles -> Sessions]
      BY <1>0, <1>2, StatusType DEF FlipStatus
    <2> QED BY <1>2, <2>1 DEF FlipStatus, ManagerTypeOK
  <1>4. CASE Revoke(h)
    <2>1. incoming' \in [Handles -> Sessions]
      BY <1>0, <1>4, StatusType DEF Revoke
    <2>2. outgoing' \in KeyRows
      BY <1>4 DEF Revoke, MarkRotation, KeyRows, ManagerTypeOK
    <2>3. recipients' \in [Handles -> Fps \cup {NoFp}]
      BY <1>4 DEF Revoke, ManagerTypeOK
    <2> QED BY <1>4, <2>1, <2>2, <2>3 DEF Revoke, ManagerTypeOK
  <1>7. CASE ForgetHere(h)
    <2>1. incoming' \in [Handles -> Sessions] /\ inbound' \in [Handles -> Requests]
      BY <1>0, <1>7, EmptyRowTypes DEF ForgetHere
    <2> QED BY <1>7, <2>1 DEF ForgetHere, ManagerTypeOK
  <1>8. CASE Purge(h)
    <2>1. incoming' \in [Handles -> Sessions] /\ inbound' \in [Handles -> Requests]
          /\ peers' \in [Fps -> PeerRows]
      BY <1>0, <1>8, EmptyRowTypes DEF Purge
    <2>2. recipients' \in [Handles -> Fps \cup {NoFp}] /\ pending' \in SUBSET Asks
      BY <1>8 DEF Purge, ManagerTypeOK
    <2> QED BY <1>8, <2>1, <2>2 DEF Purge, ManagerTypeOK
  <1>9. CASE Handshake(h)
    <2>1. pending' \in SUBSET Asks /\ lastEph' \in Nat
          /\ Msg("KEYREQ", lastEph + 1, 0, NoFp) \in Msgs
      BY <1>9, RequestType DEF Handshake
    <2>2. lane' \in [Handles -> Seq(Msgs)]
      BY <1>0, <1>9, <2>1, LaneType DEF Handshake
    <2> QED BY <1>9, <2>1, <2>2 DEF Handshake, ManagerTypeOK
  <1> QED BY <1>1, <1>2, <1>4, <1>7, <1>8, <1>9
          DEF AcceptWithoutRequest, Decline, Unrevoke

LEMMA ConfigureStepType ==
  ASSUME ManagerTypeOK, Configure \/ Restart
  PROVE  ManagerTypeOK'
  <1>1. CASE Rotate
    <2>1. outgoing' \in KeyRows
      BY <1>1 DEF Rotate, MarkRotation, KeyRows, ManagerTypeOK
    <2> QED BY <1>1, <2>1 DEF Rotate, ManagerTypeOK
  <1>2. CASE \E m \in Modes \cup {"disabled"} : SetMode(m)
    BY <1>2 DEF SetMode, ManagerTypeOK
  <1>3. ASSUME NEW hs \in SUBSET Handles, SetAutotrust(hs)
        PROVE  ManagerTypeOK'
    BY <1>3 DEF SetAutotrust, ManagerTypeOK
  <1>4. CASE Restart
    BY <1>4, EmptyRowTypes, EmptySeq DEF Restart, ManagerTypeOK
  <1>5. ASSUME NEW h \in Handles
        PROVE  autotrust \cup {h} \in SUBSET Handles /\ autotrust \ {h} \in SUBSET Handles
    BY DEF ManagerTypeOK
  <1> QED BY <1>1, <1>2, <1>3, <1>4, <1>5 DEF Configure

-----------------------------------------------------------------------------
(* Type correctness of the whole specification.                            *)
LEMMA LanesType ==
  ASSUME ManagerTypeOK, NEW y \in Lanes
  PROVE  y.h \in Handles /\ y.m \in Msgs
  <1>1. PICK h \in Handles : \E i \in 1 .. Len(lane[h]) : y = [h |-> h, m |-> lane[h][i]]
    BY DEF Lanes
  <1>2. PICK i \in 1 .. Len(lane[h]) : y = [h |-> h, m |-> lane[h][i]]
    BY <1>1
  <1>3. lane[h] \in Seq(Msgs)
    BY DEF ManagerTypeOK
  <1>4. lane[h][i] \in Msgs
    BY <1>3, ElementOfSeq
  <1> QED BY <1>2, <1>4

LEMMA PresentType ==
  ASSUME TypeOK, NEW h \in Present
  PROVE  h \in Handles /\ at[h] \in Fps
  BY DEF TypeOK, EnvTypeOK, Present

LEMMA SurfaceType ==
  ASSUME TypeOK, NEW h \in Handles, NEW fp \in Fps, Surface(fp, h)
  PROVE  warned' \in SUBSET [h : Handles, fp : Fps, change : Changes]
  <1>1. ~Acceptable(fp, h) => Classify(fp, h) \in Changes
    BY DEF Acceptable, Classify, Changes
  <1> QED BY <1>1 DEF TypeOK, EnvTypeOK, Surface

LEMMA RelayType ==
  ASSUME TypeOK, Relay
  PROVE  TypeOK'
  <1>1. ManagerTypeOK'
    BY EmptySeq DEF TypeOK, ManagerTypeOK, Relay, keyring, volatile
  <1>2. given' \in SUBSET Wraps
    <2>1. ASSUME NEW y \in Lanes, y.h \in Present, y.m.for = at[y.h]
          PROVE  [fp |-> y.m.for, key |-> y.m.key] \in Wraps
      BY <2>1, LanesType, PresentType DEF Wraps, Msgs, TypeOK, EnvTypeOK
    <2> QED BY <2>1 DEF Relay, TypeOK, EnvTypeOK
  <1>3. asked' \in SUBSET [fp : Fps, eph : Nat]
    <2>1. ASSUME NEW y \in Lanes, y.h \in Present
          PROVE  [fp |-> at[y.h], eph |-> y.m.eph] \in [fp : Fps, eph : Nat]
      BY <2>1, LanesType, PresentType DEF Msgs, TypeOK, EnvTypeOK
    <2> QED BY <2>1 DEF Relay, TypeOK, EnvTypeOK
  <1> QED BY <1>1, <1>2, <1>3 DEF TypeOK, EnvTypeOK, Relay

LEMMA FromPeerType ==
  ASSUME TypeOK, FromPeer
  PROVE  TypeOK'
  <1>0. ManagerTypeOK /\ EnvTypeOK
    BY DEF TypeOK, EnvTypeOK
  <1>1. ASSUME NEW h \in Present, NEW allowOut, KeyReqArrives(h, allowOut)
        PROVE  TypeOK'
    <2>1. h \in Handles /\ at[h] \in Fps
      BY PresentType
    <2>2. ManagerTypeOK'
      <3>1. CASE UNCHANGED managerVars
        BY <1>0, <3>1 DEF managerVars, ManagerTypeOK
      <3>2. CASE ~UNCHANGED managerVars
        BY <1>0, <1>1, <2>1, <3>2, HandshakeStepType DEF KeyReqArrives
      <3> QED BY <3>1, <3>2
    <2>3. EnvTypeOK'
      BY <1>0, <1>1, <2>1, SurfaceType DEF KeyReqArrives, EnvTypeOK
    <2> QED BY <2>2, <2>3 DEF TypeOK, EnvTypeOK
  <1>2. ASSUME NEW h \in Present, NEW eph \in Nat, NEW key \in Nat,
               KeyRspArrives(h, eph, key)
        PROVE  TypeOK'
    <2>1. h \in Handles /\ at[h] \in Fps
      BY PresentType
    <2>2. ManagerTypeOK'
      <3>1. CASE UNCHANGED managerVars
        BY <1>0, <3>1 DEF managerVars, ManagerTypeOK
      <3>2. CASE ~UNCHANGED managerVars
        BY <1>0, <1>2, <2>1, <3>2, HandshakeStepType DEF KeyRspArrives
      <3> QED BY <3>1, <3>2
    <2>3. warned' \in SUBSET [h : Handles, fp : Fps, change : Changes]
      BY <1>0, <1>2, <2>1, SurfaceType DEF KeyRspArrives, EnvTypeOK
    <2>4. EnvTypeOK'
      BY <1>0, <1>2, <2>1, <2>3 DEF KeyRspArrives, EnvTypeOK
    <2> QED BY <2>2, <2>4 DEF TypeOK, EnvTypeOK
  <1>3. ASSUME NEW h \in Present, NEW key \in Nat, RekeyArrives(h, key)
        PROVE  TypeOK'
    <2>1. h \in Handles /\ at[h] \in Fps
      BY PresentType
    <2>2. ManagerTypeOK'
      <3>1. CASE UNCHANGED managerVars
        BY <1>0, <3>1 DEF managerVars, ManagerTypeOK
      <3>2. CASE ~UNCHANGED managerVars
        BY <1>0, <1>3, <2>1, <3>2, HandshakeStepType DEF RekeyArrives
      <3> QED BY <3>1, <3>2
    <2>3. warned' \in SUBSET [h : Handles, fp : Fps, change : Changes]
      BY <1>0, <1>3, <2>1, SurfaceType DEF RekeyArrives, EnvTypeOK
    <2>4. EnvTypeOK'
      BY <1>0, <1>3, <2>1, <2>3 DEF RekeyArrives, EnvTypeOK
    <2> QED BY <2>2, <2>4 DEF TypeOK, EnvTypeOK
  <1>4. ASSUME NEW h \in Present, NEW key \in Nat, ChunkArrives(h, key)
        PROVE  TypeOK'
    <2>1. h \in Handles /\ at[h] \in Fps
      BY PresentType
    <2>2. ManagerTypeOK'
      BY <1>0, <1>4, <2>1, HandshakeStepType DEF ChunkArrives
    <2> QED BY <1>0, <1>4, <2>2 DEF ChunkArrives, TypeOK, EnvTypeOK, envVars
  <1>5. 1 .. MaxEph \subseteq Nat /\ 1 .. MaxPeerKey \subseteq Nat
    OBVIOUS
  <1> QED BY <1>1, <1>2, <1>3, <1>4, <1>5 DEF FromPeer

LEMMA CommandType ==
  ASSUME TypeOK, Command
  PROVE  ManagerTypeOK' /\ consent' \in SUBSET Fps /\ dropped' \in SUBSET Fps
         /\ warned' \in SUBSET [h : Handles, fp : Fps, change : Changes]
  <1>0. ManagerTypeOK /\ EnvTypeOK
    BY DEF TypeOK
  <1>1. PICK h \in Handles :
           \/ /\ \E allowOut \in BOOLEAN : AcceptCached(h, allowOut)
              /\ Vouch(inbound[h].fp)
              /\ UNCHANGED <<dropped, warned>>
           \/ AcceptWithoutRequest(h) /\ Vouch(incoming[h].fp) /\ UNCHANGED <<dropped, warned>>
           \/ Unrevoke(h) /\ Vouch(incoming[h].fp) /\ UNCHANGED <<dropped, warned>>
           \/ h \in Present /\ Handshake(h) /\ Vouch(at[h]) /\ UNCHANGED <<dropped, warned>>
           \/ Decline(h) /\ UNCHANGED <<consent, dropped, warned>>
           \/ Revoke(h) /\ UNCHANGED <<consent, dropped, warned>>
           \/ ForgetHere(h) /\ UNCHANGED <<consent, dropped, warned>>
           \/ Forget(h) /\ UNCHANGED <<consent, warned>>
           \/ Reverify(h) /\ UNCHANGED consent
    BY DEF Command
  <1>2. ManagerTypeOK'
    <2>1. Forget(h) \/ Reverify(h) => Purge(h)
      BY DEF Forget, Reverify
    <2> QED BY <1>0, <1>1, <2>1, CommandStepType
  <1>3. inbound[h].fp \in Fps \cup {NoFp} /\ incoming[h].fp \in Fps \cup {NoFp}
        /\ at[h] \in Fps \cup {NoFp} /\ recipients[h] \in Fps \cup {NoFp}
    BY <1>0 DEF ManagerTypeOK, EnvTypeOK, Requests, Sessions
  <1>4. ASSUME NEW fp \in Fps \cup {NoFp}, Vouch(fp)
        PROVE  consent' \in SUBSET Fps
    BY <1>0, <1>4 DEF Vouch, EnvTypeOK
  <1>5. consent' \in SUBSET Fps
    BY <1>0, <1>1, <1>3, <1>4 DEF EnvTypeOK, Forget, Reverify
  <1>6. dropped' \in SUBSET Fps
    BY <1>0, <1>1, <1>3 DEF EnvTypeOK, Forget, Reverify
  <1>7. warned' \in SUBSET [h : Handles, fp : Fps, change : Changes]
    BY <1>0, <1>1 DEF EnvTypeOK, Forget, Reverify
  <1> QED BY <1>2, <1>5, <1>6, <1>7

(* Every step of the specification keeps every variable well typed.        *)
LEMMA TypeStep ==
  ASSUME TypeOK, [Next]_vars
  PROVE  TypeOK'
  <1>0. ManagerTypeOK /\ EnvTypeOK
    BY DEF TypeOK
  <1>1. CASE Relay
    BY <1>1, RelayType
  <1>2. CASE FromPeer
    BY <1>2, FromPeerType
  <1>3. CASE UserStep
    <2>1. EnvTypeOK' /\ ManagerTypeOK' /\ TRUE
      <3>1. CASE Command
        BY <1>0, <1>3, <3>1, CommandType DEF UserStep, EnvTypeOK
      <3>2. CASE (Configure \/ Restart) /\ UNCHANGED <<consent, dropped, warned>>
        BY <1>0, <1>3, <3>2, ConfigureStepType DEF UserStep, EnvTypeOK
      <3> QED BY <1>3, <3>1, <3>2 DEF UserStep
    <2> QED BY <2>1 DEF TypeOK
  <1>4. CASE Speak
    <2>1. ManagerTypeOK'
      BY <1>0, <1>4, SpeakType DEF Speak
    <2> QED BY <1>0, <1>4, <2>1 DEF Speak, TypeOK, EnvTypeOK, envVars
  <1>5. CASE Move
    BY <1>0, <1>5 DEF Move, TypeOK, ManagerTypeOK, EnvTypeOK, managerVars
  <1>6. CASE UNCHANGED vars
    BY <1>0, <1>6 DEF vars, managerVars, envVars, TypeOK, ManagerTypeOK, EnvTypeOK
  <1> QED BY <1>1, <1>2, <1>3, <1>4, <1>5, <1>6 DEF Next

LEMMA TypeInit == Init => TypeOK
  BY EmptyRowTypes, EmptySeq DEF Init, ManagerInit, TypeOK, ManagerTypeOK, EnvTypeOK, KeyRows, Statuses

(* Type correctness of every reachable state.                              *)
THEOREM TypeCorrect == Spec => []TypeOK
  <1>1. TypeOK /\ [Next]_vars => TypeOK'
    BY TypeStep
  <1> QED BY <1>1, TypeInit, PTL DEF Spec

-----------------------------------------------------------------------------
(* The agreement of the keyring tables.  It is inductive as it stands:     *)
(* every write of a session, a recipient or a cached request of h comes    *)
(* with the identity pinned at h, either by the TOFU classification (New   *)
(* pins it, Known found it pinned) or by an earlier row of the same table. *)

(* The fields of the tables that the agreement is about.                   *)
LEMMA RowFields ==
  ASSUME ManagerTypeOK
  PROVE  /\ \A f \in Fps : peers[f].handle \in Handles \cup {NoHandle}
         /\ \A h \in Handles : /\ incoming[h].fp \in Fps \cup {NoFp}
                               /\ recipients[h] \in Fps \cup {NoFp}
                               /\ inbound[h].fp \in Fps \cup {NoFp}
  BY DEF ManagerTypeOK, PeerRows, Sessions, Requests

(* Pinning an identity the classification accepts moves no other row.      *)
LEMMA PinAgrees ==
  ASSUME ManagerTypeOK, OnePeerPerHandle, NEW h \in Handles, NEW fp \in Fps,
         Acceptable(fp, h) \/ peers[fp].handle = h,
         NEW st, peers' = WithPeer(fp, h, st)
  PROVE  /\ OnePeerPerHandle'
         /\ peers'[fp].handle = h
         /\ \A g \in Fps : Pinned(g) => peers'[g].handle = peers[g].handle
  <1>1. peers \in [Fps -> PeerRows]
    BY DEF ManagerTypeOK
  <1>2. \A g \in Fps : peers'[g].handle = IF g = fp THEN h ELSE peers[g].handle
    BY <1>1 DEF WithPeer
  <1>3. peers[fp].handle = h \/
        (~Pinned(fp) /\ \A g \in Fps : peers[g].handle # h)
    BY DEF Acceptable, Classify
  <1> QED BY <1>2, <1>3 DEF OnePeerPerHandle, Pinned

(* Hence sessions, recipients and requests that were pinned still are.     *)
LEMMA KeepPinned ==
  ASSUME NEW old, NEW h \in Handles, old \in Fps, peers[old].handle = h,
         \A g \in Fps : Pinned(g) => peers'[g].handle = peers[g].handle
  PROVE  peers'[old].handle = h
  BY DEF Pinned

LEMMA InstallAgrees ==
  ASSUME ManagerTypeOK, SessionIsPinned, NEW h \in Handles, NEW fp \in Fps,
         peers'[fp].handle = h,
         \A g \in Fps : Pinned(g) => peers'[g].handle = peers[g].handle,
         NEW k, NEW st,
         \/ incoming' = InstallStrict(h, [fp |-> fp, key |-> k, status |-> st])
         \/ UNCHANGED incoming
  PROVE  SessionIsPinned'
  <1>1. incoming \in [Handles -> Sessions]
    BY DEF ManagerTypeOK
  <1>2. ASSUME NEW g \in Handles, incoming'[g].fp # NoFp
        PROVE  peers'[incoming'[g].fp].handle = g
    <2>1. CASE incoming'[g].fp = incoming[g].fp
      <3>1. incoming[g].fp \in Fps /\ peers[incoming[g].fp].handle = g
        BY <1>2, <2>1, RowFields DEF SessionIsPinned, HasSession
      <3> QED BY <2>1, <3>1, KeepPinned
    <2>2. CASE incoming'[g].fp # incoming[g].fp
      <3>1. g = h /\ incoming'[g].fp = fp
        BY <1>1, <2>2 DEF InstallStrict
      <3> QED BY <3>1
    <2> QED BY <2>1, <2>2
  <1> QED BY <1>2 DEF SessionIsPinned, HasSession

LEMMA RecipientAgrees ==
  ASSUME ManagerTypeOK, RecipientIsPinned, NEW h \in Handles, NEW fp \in Fps,
         peers'[fp].handle = h,
         \A g \in Fps : Pinned(g) => peers'[g].handle = peers[g].handle,
         recipients' = [recipients EXCEPT ![h] = fp] \/ UNCHANGED recipients
  PROVE  RecipientIsPinned'
  <1>1. recipients \in [Handles -> Fps \cup {NoFp}]
    BY DEF ManagerTypeOK
  <1>2. ASSUME NEW g \in Handles, recipients'[g] # NoFp
        PROVE  peers'[recipients'[g]].handle = g
    <2>1. CASE recipients'[g] = recipients[g]
      <3>1. recipients[g] \in Fps /\ peers[recipients[g]].handle = g
        BY <1>1, <1>2, <2>1 DEF RecipientIsPinned
      <3> QED BY <2>1, <3>1, KeepPinned
    <2>2. CASE recipients'[g] # recipients[g]
      BY <1>1, <2>2
    <2> QED BY <2>1, <2>2
  <1> QED BY <1>2 DEF RecipientIsPinned

LEMMA RequestAgrees ==
  ASSUME ManagerTypeOK, RequestIsPinned, NEW h \in Handles, NEW fp \in Fps, NEW eph,
         peers'[fp].handle = h,
         \A g \in Fps : Pinned(g) => peers'[g].handle = peers[g].handle,
         \/ inbound' = [inbound EXCEPT ![h] = [fp |-> fp, eph |-> eph]]
         \/ inbound' = [inbound EXCEPT ![h] = NoRequest]
         \/ UNCHANGED inbound
  PROVE  RequestIsPinned'
  <1>1. inbound \in [Handles -> Requests]
    BY DEF ManagerTypeOK
  <1>2. ASSUME NEW g \in Handles, inbound'[g].fp # NoFp
        PROVE  peers'[inbound'[g].fp].handle = g
    <2>1. CASE inbound'[g].fp = inbound[g].fp
      <3>1. inbound[g].fp \in Fps /\ peers[inbound[g].fp].handle = g
        BY <1>2, <2>1, RowFields DEF RequestIsPinned
      <3> QED BY <2>1, <3>1, KeepPinned
    <2>2. CASE inbound'[g].fp # inbound[g].fp
      BY <1>1, <1>2, <2>2 DEF NoRequest
    <2> QED BY <2>1, <2>2
  <1> QED BY <1>2 DEF RequestIsPinned

(* A handshake message, whatever the classification makes of it.           *)
LEMMA HandshakeAgrees ==
  ASSUME ManagerTypeOK, KeyringAgrees, NEW h \in Handles, NEW fp \in Fps, NEW eph, NEW key,
         NEW allowOut,
         \/ ServeKeyReq(h, fp, eph, allowOut)
         \/ CacheKeyReq(h, fp, eph)
         \/ IgnoreKeyReq(h, fp)
         \/ ReceiveKeyRsp(h, fp, eph, key)
         \/ ReceiveRekey(h, fp, key)
         \/ RequestMissingKey(h, key)
  PROVE  KeyringAgrees'
  <1> USE DEF KeyringAgrees
  <1>1. ASSUME NEW st, Acceptable(fp, h), peers' = WithPeer(fp, h, st),
               NEW k, NEW ss,
               \/ incoming' = InstallStrict(h, [fp |-> fp, key |-> k, status |-> ss])
               \/ UNCHANGED incoming,
               recipients' = [recipients EXCEPT ![h] = fp] \/ UNCHANGED recipients,
               \/ inbound' = [inbound EXCEPT ![h] = [fp |-> fp, eph |-> eph]]
               \/ UNCHANGED inbound
        PROVE  KeyringAgrees'
    <2>1. /\ OnePeerPerHandle'
          /\ peers'[fp].handle = h
          /\ \A g \in Fps : Pinned(g) => peers'[g].handle = peers[g].handle
      BY <1>1, PinAgrees
    <2>2. SessionIsPinned'
      BY <1>1, <2>1, InstallAgrees
    <2>3. RecipientIsPinned'
      BY <1>1, <2>1, RecipientAgrees
    <2>4. RequestIsPinned'
      BY <1>1, <2>1, RequestAgrees
    <2> QED BY <2>1, <2>2, <2>3, <2>4
  <1>2. CASE ServeKeyReq(h, fp, eph, allowOut)
    <2>1. /\ Acceptable(fp, h) /\ peers' = SeenPeer(fp, h)
          /\ recipients' = [recipients EXCEPT ![h] = fp]
          /\ UNCHANGED <<incoming, inbound>>
      BY <1>2 DEF ServeKeyReq, Serve
    <2> QED BY <1>1, <2>1 DEF SeenPeer
  <1>3. CASE CacheKeyReq(h, fp, eph)
    <2>1. /\ Acceptable(fp, h) /\ peers' = SeenPeer(fp, h)
          /\ incoming' = InstallStrict(h, [fp |-> fp, key |-> 0, status |-> "pending"])
          /\ inbound' = [inbound EXCEPT ![h] = [fp |-> fp, eph |-> eph]]
          /\ UNCHANGED recipients
      BY <1>3 DEF CacheKeyReq
    <2> QED BY <1>1, <2>1 DEF SeenPeer
  <1>4. CASE IgnoreKeyReq(h, fp)
    <2>1. /\ Acceptable(fp, h) /\ peers' = SeenPeer(fp, h)
          /\ UNCHANGED <<incoming, recipients, inbound>>
      BY <1>4 DEF IgnoreKeyReq
    <2> QED BY <1>1, <2>1 DEF SeenPeer
  <1>5. CASE ReceiveKeyRsp(h, fp, eph, key)
    <2>1. CASE Acceptable(fp, h)
      <3>1. /\ peers' = WithPeer(fp, h, "trusted")
            /\ incoming' = InstallStrict(h, [fp |-> fp, key |-> key, status |-> "trusted"])
            /\ UNCHANGED <<recipients, inbound>>
        BY <1>5, <2>1 DEF ReceiveKeyRsp
      <3> QED BY <1>1, <2>1, <3>1
    <2>2. CASE ~Acceptable(fp, h)
      BY <1>5, <2>2 DEF ReceiveKeyRsp, OnePeerPerHandle, SessionIsPinned,
         RecipientIsPinned, RequestIsPinned, HasSession, Pinned
    <2> QED BY <2>1, <2>2
  <1>6. CASE ReceiveRekey(h, fp, key)
    <2>1. /\ peers[fp].handle = h
          /\ incoming' = InstallStrict(h, [fp |-> fp, key |-> key, status |-> "trusted"])
          /\ UNCHANGED <<peers, recipients, inbound>>
      BY <1>6 DEF ReceiveRekey, Classify
    <2>2. SessionIsPinned'
      BY <2>1, InstallAgrees
    <2> QED BY <2>1, <2>2 DEF OnePeerPerHandle, RecipientIsPinned, RequestIsPinned, Pinned
  <1>7. CASE RequestMissingKey(h, key)
    BY <1>7 DEF RequestMissingKey, OnePeerPerHandle, SessionIsPinned,
       RecipientIsPinned, RequestIsPinned, HasSession, Pinned
  <1> QED BY <1>2, <1>3, <1>4, <1>5, <1>6, <1>7

(* Commands that only shrink the tables, with the peers as they are.       *)
LEMMA ShrinkAgrees ==
  ASSUME KeyringAgrees, UNCHANGED peers,
         \A g \in Handles : incoming'[g].fp \in {incoming[g].fp, NoFp},
         \A g \in Handles : recipients'[g] \in {recipients[g], NoFp},
         \A g \in Handles : inbound'[g].fp \in {inbound[g].fp, NoFp}
  PROVE  KeyringAgrees'
  BY DEF KeyringAgrees, OnePeerPerHandle, SessionIsPinned, RecipientIsPinned,
         RequestIsPinned, HasSession, Pinned

LEMMA PurgeAgrees ==
  ASSUME ManagerTypeOK, KeyringAgrees, NEW h \in Handles, Purge(h)
  PROVE  KeyringAgrees'
  <1>1. /\ peers \in [Fps -> PeerRows]
        /\ incoming \in [Handles -> Sessions]
        /\ recipients \in [Handles -> Fps \cup {NoFp}]
        /\ inbound \in [Handles -> Requests]
    BY DEF ManagerTypeOK
  <1>2. \A f \in Fps : peers'[f].handle =
          IF peers[f].handle = h THEN NoHandle ELSE peers[f].handle
    BY <1>1 DEF Purge, NoPeer
  <1>3. \A g \in Handles : /\ incoming'[g].fp = IF g = h THEN NoFp ELSE incoming[g].fp
                           /\ recipients'[g] = IF g = h THEN NoFp ELSE recipients[g]
                           /\ inbound'[g].fp = IF g = h THEN NoFp ELSE inbound[g].fp
    BY <1>1 DEF Purge, NoSession, NoRequest
  <1>4. OnePeerPerHandle'
    BY <1>2 DEF KeyringAgrees, OnePeerPerHandle, Pinned
  <1>5. SessionIsPinned'
    BY <1>2, <1>3, RowFields DEF KeyringAgrees, SessionIsPinned, HasSession
  <1>6. RecipientIsPinned'
    BY <1>2, <1>3, RowFields DEF KeyringAgrees, RecipientIsPinned
  <1>7. RequestIsPinned'
    BY <1>2, <1>3, RowFields DEF KeyringAgrees, RequestIsPinned
  <1> QED BY <1>4, <1>5, <1>6, <1>7 DEF KeyringAgrees

LEMMA CommandAgrees ==
  ASSUME ManagerTypeOK, KeyringAgrees, NEW h \in Handles, NEW allowOut,
         \/ AcceptCached(h, allowOut)
         \/ AcceptWithoutRequest(h)
         \/ Decline(h)
         \/ Unrevoke(h)
         \/ Revoke(h)
         \/ ForgetHere(h)
         \/ Purge(h)
         \/ Handshake(h)
  PROVE  KeyringAgrees'
  <1>0. /\ peers \in [Fps -> PeerRows]
        /\ incoming \in [Handles -> Sessions]
        /\ recipients \in [Handles -> Fps \cup {NoFp}]
        /\ inbound \in [Handles -> Requests]
    BY DEF ManagerTypeOK
  <1>1. CASE AcceptCached(h, allowOut)
    <2>1. /\ inbound[h].fp \in Fps
          /\ peers[inbound[h].fp].handle = h
      BY <1>0, <1>1, RowFields DEF AcceptCached, KeyringAgrees, RequestIsPinned
    <2>2. /\ peers' = WithPeer(inbound[h].fp, h, "trusted")
          /\ recipients' = [recipients EXCEPT ![h] = inbound[h].fp]
          /\ inbound' = [inbound EXCEPT ![h] = NoRequest]
          /\ UNCHANGED incoming
      BY <1>1 DEF AcceptCached, Serve
    <2>3. /\ OnePeerPerHandle'
          /\ peers'[inbound[h].fp].handle = h
          /\ \A g \in Fps : Pinned(g) => peers'[g].handle = peers[g].handle
      BY <2>1, <2>2, PinAgrees DEF KeyringAgrees
    <2>4. SessionIsPinned'
      BY <2>1, <2>2, <2>3, InstallAgrees DEF KeyringAgrees
    <2>5. RecipientIsPinned'
      BY <2>1, <2>2, <2>3, RecipientAgrees DEF KeyringAgrees
    <2>6. RequestIsPinned'
      BY <2>1, <2>2, <2>3, RequestAgrees DEF KeyringAgrees
    <2> QED BY <2>3, <2>4, <2>5, <2>6 DEF KeyringAgrees
  <1>2. ASSUME NEW st, FlipStatus(h, st)
        PROVE  KeyringAgrees'
    BY <1>0, <1>2, ShrinkAgrees DEF FlipStatus, WithStatus, Sessions
  <1>3. CASE Revoke(h)
    BY <1>0, <1>3, ShrinkAgrees DEF Revoke, WithStatus, Sessions
  <1>4. CASE ForgetHere(h)
    BY <1>0, <1>4, ShrinkAgrees DEF ForgetHere, NoSession, NoRequest
  <1>5. CASE Purge(h)
    BY <1>5, PurgeAgrees
  <1>6. CASE Handshake(h)
    BY <1>6, ShrinkAgrees DEF Handshake
  <1> QED BY <1>1, <1>2, <1>3, <1>4, <1>5, <1>6
          DEF AcceptWithoutRequest, Decline, Unrevoke

LEMMA AgreementStep ==
  ASSUME TypeOK, KeyringAgrees, [Next]_vars
  PROVE  KeyringAgrees'
  <1>0. ManagerTypeOK
    BY DEF TypeOK
  <1>1. CASE UNCHANGED <<peers, incoming, recipients, inbound>>
    BY <1>1, ShrinkAgrees
  <1>2. CASE FromPeer
    <2>1. PICK h \in Present :
            \/ \E allowOut \in BOOLEAN : KeyReqArrives(h, allowOut)
            \/ \E eph \in 1 .. MaxEph, key \in 1 .. MaxPeerKey : KeyRspArrives(h, eph, key)
            \/ \E key \in 1 .. MaxPeerKey : RekeyArrives(h, key)
            \/ \E key \in 1 .. MaxPeerKey : ChunkArrives(h, key)
      BY <1>2 DEF FromPeer
    <2>2. h \in Handles /\ at[h] \in Fps
      BY PresentType
    <2>3. CASE UNCHANGED managerVars
      BY <1>1, <2>3 DEF managerVars
    <2>4. CASE ~UNCHANGED managerVars
      BY <1>0, <2>1, <2>2, <2>4, HandshakeAgrees
         DEF KeyReqArrives, KeyRspArrives, RekeyArrives, ChunkArrives
    <2> QED BY <2>3, <2>4
  <1>3. CASE UserStep
    <2>1. CASE Command
      <3>1. PICK h \in Handles :
               \/ \E allowOut \in BOOLEAN : AcceptCached(h, allowOut)
               \/ AcceptWithoutRequest(h) \/ Unrevoke(h) \/ Handshake(h)
               \/ Decline(h) \/ Revoke(h) \/ ForgetHere(h) \/ Purge(h)
        BY <2>1 DEF Command, Forget, Reverify
      <3> QED BY <1>0, <3>1, CommandAgrees
    <2>2. CASE Configure
      BY <1>1, <2>2 DEF Configure, Rotate, SetMode, SetAutotrust
    <2>3. CASE Restart
      BY <2>3, ShrinkAgrees DEF Restart, NoRequest
    <2> QED BY <1>3, <2>1, <2>2, <2>3 DEF UserStep
  <1>4. CASE Relay \/ Speak \/ Move \/ UNCHANGED vars
    BY <1>1, <1>4 DEF Relay, keyring, volatile, Speak, EncryptLine, EncryptOversizeLine,
       EncryptElsewhere, SendLine, Move, vars, managerVars
  <1> QED BY <1>2, <1>3, <1>4 DEF Next

LEMMA AgreementInit == Init => KeyringAgrees
  BY DEF Init, ManagerInit, KeyringAgrees, OnePeerPerHandle, SessionIsPinned,
         RecipientIsPinned, RequestIsPinned, Pinned, HasSession, NoPeer, NoSession, NoRequest

(* The four tables about a handle agree in every reachable state.          *)
THEOREM KeyringAgreement == Spec => []KeyringAgrees
  <1>1. TypeOK /\ KeyringAgrees /\ [Next]_vars => TypeOK' /\ KeyringAgrees'
    BY TypeStep, AgreementStep
  <1> QED BY <1>1, TypeInit, AgreementInit, PTL DEF Spec

-----------------------------------------------------------------------------
(* Who can open a line.  LineReadersAreRecipients says nothing of wraps    *)
(* still queued or on a lane, nor of a rotation not yet done, so it is not *)
(* inductive; KeyHoldersAreRecipients is, given the agreement of the       *)
(* tables: a recipient row is never taken over by another identity.        *)

LEMMA NoLanes ==
  ASSUME LanesEmpty
  PROVE  Lanes = {} /\ LaneWraps = {}
  BY DEF Lanes, LanesEmpty, LaneWraps

(* What is on the lanes after a handshake message or two are put on one.   *)
LEMMA LanesAppended ==
  ASSUME ManagerTypeOK, LanesEmpty, NEW h \in Handles, NEW m \in Msgs, NEW n \in Msgs,
         \/ lane' = [lane EXCEPT ![h] = Append(@, m)]
         \/ lane' = [lane EXCEPT ![h] = @ \o <<m, n>>]
  PROVE  \A x \in Lanes' : x.m \in {m, n}
  <1>1. lane \in [Handles -> Seq(Msgs)] /\ \A g \in Handles : lane[g] = <<>>
    BY DEF ManagerTypeOK, LanesEmpty
  <1>2. lane'[h] = <<m>> \/ lane'[h] = <<m, n>>
    BY <1>1
  <1>3. \A g \in Handles : g # h => lane'[g] = <<>>
    BY <1>1
  <1>4. SUFFICES ASSUME NEW g \in Handles, NEW i \in 1 .. Len(lane'[g])
                 PROVE  lane'[g][i] \in {m, n}
    BY DEF Lanes
  <1>5. g = h
    BY <1>3, <1>4
  <1> QED BY <1>2, <1>4, <1>5

(* What is on the lanes after a line: the line, then queued REKEYs.        *)
RekeyOf(x, queues) ==
  /\ x.h \in Handles
  /\ \E i \in 1 .. Len(queues[x.h]) :
       x.m = Msg("REKEY", 0, queues[x.h][i].key, queues[x.h][i].fp)
InQueue(w, queues) ==
  \E h \in Handles : \E i \in 1 .. Len(queues[h]) : w = queues[h][i]

LEMMA LanesSpoken ==
  ASSUME LanesEmpty, NEW present, NEW resolved, NEW line \in Msgs,
         NEW queues \in [Handles -> Seq(Wraps)],
         lane' = Sent(present, line, queues, resolved)
  PROVE  \A x \in Lanes' : (x.m = line /\ present # {}) \/ RekeyOf(x, queues)
  <1>0. SUFFICES ASSUME NEW x \in Lanes'
                 PROVE  (x.m = line /\ present # {}) \/ RekeyOf(x, queues)
    OBVIOUS
  <1>9. PICK g \in Handles : \E i \in 1 .. Len(lane'[g]) : x = [h |-> g, m |-> lane'[g][i]]
    BY DEF Lanes
  <1>1. PICK j \in 1 .. Len(lane'[g]) : x = [h |-> g, m |-> lane'[g][j]]
    BY <1>9
  <1> DEFINE q == queues[g]
             head == IF g \in present THEN <<line>> ELSE <<>>
             tail == IF g \in resolved THEN RekeyMsgs(q) ELSE <<>>
  <1>2. q \in Seq(Wraps)
    OBVIOUS
  <1>3. Append(lane[g], line) = <<line>> /\ lane[g] = <<>>
    <2>1. lane[g] = <<>>
      BY DEF LanesEmpty
    <2>2. Append(<<>>, line) = <<line>>
      OBVIOUS
    <2> QED BY <2>1, <2>2
  <1>4. lane'[g] = head \o tail
    BY <1>3 DEF Sent
  <1>5. RekeyMsgs(q) \in Seq(Msgs) /\ Len(RekeyMsgs(q)) = Len(q)
    <2>1. ASSUME NEW i \in 1 .. Len(q)
          PROVE  Msg("REKEY", 0, q[i].key, q[i].fp) \in Msgs
      <3>1. q[i] \in Wraps
        BY <1>2, ElementOfSeq
      <3> QED BY <3>1, MsgType DEF MsgTypes, Wraps
    <2>2. Len(q) \in Nat
      BY <1>2, LenProperties
    <2>3. RekeyMsgs(q) \in Seq(Msgs)
      BY <2>1, <2>2, IsASeq DEF RekeyMsgs
    <2>4. DOMAIN RekeyMsgs(q) = 1 .. Len(q)
      BY DEF RekeyMsgs
    <2> QED BY <2>2, <2>3, <2>4, LenProperties
  <1>6. head \in Seq(Msgs) /\ tail \in Seq(Msgs)
    BY <1>5
  <1>7. CASE j \in 1 .. Len(head)
    <2>1. lane'[g][j] = head[j]
      BY <1>4, <1>6, <1>7, ConcatProperties
    <2> QED BY <1>1, <1>7, <2>1
  <1>8. CASE j \notin 1 .. Len(head)
    <2>0. /\ Len(head) \in Nat /\ Len(tail) \in Nat
          /\ Len(lane'[g]) = Len(head) + Len(tail)
      BY <1>4, <1>6, ConcatProperties, LenProperties
    <2>1. lane'[g][j] = tail[j - Len(head)] /\ j - Len(head) \in 1 .. Len(tail)
      <3> HIDE DEF head, tail, q
      <3>1. j \in Len(head) + 1 .. Len(head) + Len(tail)
        <4>1. j \in 1 .. Len(head) + Len(tail)
          BY <2>0
        <4> QED BY <1>8, <2>0, <4>1
      <3>2. lane'[g][j] = (head \o tail)[j]
        BY <1>4
      <3>3. \A i \in 1 .. Len(head) + Len(tail) :
              (head \o tail)[i] = IF i <= Len(head) THEN head[i] ELSE tail[i - Len(head)]
        BY <1>6, ConcatProperties
      <3> QED BY <2>0, <3>1, <3>2, <3>3
    <2>2. g \in resolved
      BY <2>1
    <2>3. j - Len(head) \in 1 .. Len(q)
      BY <1>5, <2>1, <2>2
    <2>4. x.h = g /\ x.m = RekeyMsgs(q)[j - Len(head)]
      BY <1>1, <2>1, <2>2
    <2> QED BY <2>3, <2>4 DEF RekeyMsgs, RekeyOf
  <1> QED BY <1>7, <1>8

(* Queueing REKEYs adds wraps of the fresh key, for recipients only.       *)
LEMMA QueuedStep ==
  ASSUME ManagerTypeOK, NEW pt, NEW h \in Handles,
         NEW i \in 1 .. Len(QueuedRekeys(pt)[h])
  PROVE  LET w == QueuedRekeys(pt)[h][i]
         IN  w \in QueuedWraps \/ (w.key = KeyToUse /\ w.fp \in Recipients)
  <1>1. rekeys[h] \in Seq(Wraps)
    BY DEF ManagerTypeOK
  <1>2. CASE QueuedRekeys(pt)[h] = rekeys[h]
    BY <1>2 DEF QueuedWraps
  <1>3. CASE QueuedRekeys(pt)[h] =
               Append(rekeys[h], [fp |-> recipients[h], key |-> KeyToUse])
             /\ recipients[h] # NoFp
    <2> DEFINE new == [fp |-> recipients[h], key |-> KeyToUse]
    <2>1. new \in Wraps
      BY <1>3, TakeKeyType DEF ManagerTypeOK, Wraps
    <2>2. CASE i \in 1 .. Len(rekeys[h])
      <3>1. QueuedRekeys(pt)[h][i] = rekeys[h][i]
        BY <1>1, <1>3, <2>1, <2>2, AppendProperties
      <3> QED BY <2>2, <3>1 DEF QueuedWraps
    <2>3. CASE i \notin 1 .. Len(rekeys[h])
      <3>1. Len(QueuedRekeys(pt)[h]) = Len(rekeys[h]) + 1 /\ Len(rekeys[h]) \in Nat
        BY <1>1, <1>3, <2>1, AppendProperties, LenProperties
      <3>2. i = Len(rekeys[h]) + 1
        BY <2>3, <3>1
      <3>3. QueuedRekeys(pt)[h][i] = new
        BY <1>1, <1>3, <2>1, <3>2, AppendProperties
      <3> QED BY <3>3 DEF Recipients
    <2> QED BY <2>2, <2>3
  <1> QED BY <1>2, <1>3 DEF QueuedRekeys

(* A step that takes the key keeps the invariant when the wraps it makes   *)
(* are of that key and for recipients, and no recipient is lost.           *)
LEMMA TakeKeyHolders ==
  ASSUME ManagerTypeOK, KeyHoldersAreRecipients,
         outgoing' = [key |-> KeyToUse, rotate |-> FALSE],
         \A w \in Wrapped' : w \in Wrapped \/ (w.key = KeyToUse /\ w.fp \in Recipients'),
         Recipients \subseteq Recipients' \cup {NoFp},
         NoFp \notin {w.fp : w \in Wrapped},
         UNCHANGED dropped,
         \A x \in Lanes' : x.m.type = "RPE2E01" => x.m.key = KeyToUse
  PROVE  KeyHoldersAreRecipients'
  <1>1. outgoing.key \in Nat /\ outgoing.rotate \in BOOLEAN
    BY DEF ManagerTypeOK, KeyRows
  <1>2. KeyToUse \in 1 .. KeyToUse /\ outgoing.key <= KeyToUse
    BY <1>1 DEF KeyToUse, NeedsFreshKey
  <1>3. ASSUME NEW w \in Wrapped'
        PROVE  /\ w.key \in 1 .. KeyToUse
               /\ w.key = KeyToUse => w.fp \in Recipients' \cup dropped
    <2>1. CASE w.key = KeyToUse /\ w.fp \in Recipients'
      BY <1>2, <2>1
    <2>2. CASE w \in Wrapped
      <3>1. w.key \in 1 .. outgoing.key
        BY <2>2 DEF KeyHoldersAreRecipients
      <3>2. w.key \in 1 .. KeyToUse
        BY <1>1, <1>2, <3>1 DEF KeyToUse
      <3>3. ASSUME w.key = KeyToUse
            PROVE  w.fp \in Recipients' \cup dropped
        <4>1. ~NeedsFreshKey /\ w.key = outgoing.key
          BY <1>1, <3>1, <3>3 DEF KeyToUse
        <4>2. w.fp \in Recipients \cup dropped
          BY <2>2, <4>1 DEF KeyHoldersAreRecipients, NeedsFreshKey
        <4>3. w.fp # NoFp
          BY <2>2
        <4> QED BY <4>2, <4>3
      <3> QED BY <3>2, <3>3
    <2> QED BY <2>1, <2>2
  <1> QED BY <1>3 DEF KeyHoldersAreRecipients

(* A step that wraps nothing keeps it when no recipient is lost, or the    *)
(* key is marked for rotation, or there is no key.                         *)
LEMMA NoWrapHolders ==
  ASSUME ManagerTypeOK, KeyHoldersAreRecipients,
         outgoing'.key = outgoing.key, Wrapped' \subseteq Wrapped,
         \/ outgoing'.rotate
         \/ outgoing.key = 0
         \/ /\ outgoing'.rotate = outgoing.rotate
            /\ Recipients \cup dropped \subseteq Recipients' \cup dropped',
         \A x \in Lanes' : x.m.type # "RPE2E01"
  PROVE  KeyHoldersAreRecipients'
  <1>1. outgoing.key \in Nat
    BY DEF ManagerTypeOK, KeyRows
  <1>2. outgoing.key = 0 => Wrapped' = {}
    BY <1>1 DEF KeyHoldersAreRecipients
  <1> QED BY <1>1, <1>2 DEF KeyHoldersAreRecipients

(* With the lanes empty every wrap is for an identity.                     *)
LEMMA WrappedType ==
  ASSUME TypeOK, LanesEmpty
  PROVE  Wrapped \subseteq Wraps
  <1>1. given \subseteq Wraps /\ \A h \in Handles : rekeys[h] \in Seq(Wraps)
    BY DEF TypeOK, EnvTypeOK, ManagerTypeOK
  <1>2. \A h \in Handles : \A i \in 1 .. Len(rekeys[h]) : rekeys[h][i] \in Wraps
    BY <1>1, ElementOfSeq
  <1> QED BY <1>1, <1>2, NoLanes DEF Wrapped, QueuedWraps

LEMMA ServeHolders ==
  ASSUME TypeOK, KeyHoldersAreRecipients, LanesEmpty, NEW h \in Handles, NEW fp \in Fps,
         NEW eph \in Nat, NEW allowOut, NEW pt, Serve(h, fp, eph, allowOut, pt),
         recipients[h] \in {NoFp, fp}, UNCHANGED <<given, dropped>>
  PROVE  KeyHoldersAreRecipients'
  <1> DEFINE rsp == Msg("KEYRSP", eph, KeyToUse, fp)
             req == Msg("KEYREQ", lastEph + 1, 0, NoFp)
  <1>0. ManagerTypeOK
    BY DEF TypeOK
  <1>1. /\ outgoing' = [key |-> KeyToUse, rotate |-> FALSE]
        /\ rekeys' = QueuedRekeys(pt)
        /\ recipients' = [recipients EXCEPT ![h] = fp]
        /\ \/ lane' = [lane EXCEPT ![h] = Append(@, rsp)]
           \/ lane' = [lane EXCEPT ![h] = @ \o <<rsp, req>>]
    BY DEF Serve, TakeKey
  <1>2. Recipients \subseteq Recipients' \cup {NoFp} /\ fp \in Recipients'
    BY <1>0, <1>1 DEF Recipients, ManagerTypeOK
  <1>3. rsp \in Msgs /\ req \in Msgs
    <2>0. lastEph \in Nat
      BY <1>0 DEF ManagerTypeOK
    <2>1. lastEph + 1 \in Nat /\ KeyToUse \in Nat
      BY <1>0, <2>0, TakeKeyType
    <2>2. {"KEYRSP", "KEYREQ"} \subseteq MsgTypes
      BY DEF MsgTypes
    <2> QED BY <2>1, <2>2, MsgType
  <1>4. \A x \in Lanes' : x.m \in {rsp, req}
    BY <1>0, <1>1, <1>3, LanesAppended
  <1>5. \A x \in Lanes' : x.m.type \in {"KEYRSP", "KEYREQ"}
    BY <1>4 DEF Msg
  <1>6. \A w \in LaneWraps' : w.key = KeyToUse /\ w.fp \in Recipients'
    BY <1>2, <1>4 DEF LaneWraps, Msg
  <1>7. ASSUME NEW g \in Handles, NEW i \in 1 .. Len(rekeys'[g])
        PROVE  rekeys'[g][i] \in QueuedWraps \/
                 (rekeys'[g][i].key = KeyToUse /\ rekeys'[g][i].fp \in Recipients')
    <2>1. rekeys'[g] \in Seq(Wraps)
      BY <1>0, <1>1, TakeKeyType
    <2>2. rekeys'[g][i].fp # NoFp
      <3>1. rekeys'[g][i] \in Wraps
        BY <1>7, <2>1, ElementOfSeq
      <3> QED BY <3>1 DEF Wraps
    <2>3. rekeys'[g][i] \in QueuedWraps \/
            (rekeys'[g][i].key = KeyToUse /\ rekeys'[g][i].fp \in Recipients)
      BY <1>0, <1>1, <1>7, QueuedStep
    <2> QED BY <1>2, <2>2, <2>3
  <1>8. \A w \in Wrapped' : w \in Wrapped \/ (w.key = KeyToUse /\ w.fp \in Recipients')
    BY <1>6, <1>7 DEF Wrapped, QueuedWraps
  <1>9. NoFp \notin {w.fp : w \in Wrapped}
    BY WrappedType DEF Wraps
  <1> QED BY <1>0, <1>1, <1>2, <1>5, <1>8, <1>9, TakeKeyHolders

(* Wraps that leave the queue for a lane.                                  *)
LEMMA QueueLeaves ==
  ASSUME LanesEmpty, NEW present, NEW resolved, NEW line \in Msgs,
         line.type \notin {"KEYRSP", "REKEY"}, NEW queues \in [Handles -> Seq(Wraps)],
         lane' = Sent(present, line, queues, resolved)
  PROVE  /\ \A w \in LaneWraps' : InQueue(w, queues)
         /\ \A x \in Lanes' : x.m.type = "RPE2E01" => x.m = line /\ present # {}
  <1>1. \A x \in Lanes' : (x.m = line /\ present # {}) \/ RekeyOf(x, queues)
    BY LanesSpoken
  <1>2. ASSUME NEW x \in Lanes', x.m.type \in {"KEYRSP", "REKEY"}
        PROVE  InQueue([fp |-> x.m.for, key |-> x.m.key], queues)
    <2>1. PICK i \in 1 .. Len(queues[x.h]) :
            x.h \in Handles /\ x.m = Msg("REKEY", 0, queues[x.h][i].key, queues[x.h][i].fp)
      BY <1>1, <1>2 DEF RekeyOf
    <2>2. queues[x.h][i] \in Wraps
      BY <2>1, ElementOfSeq
    <2>3. [fp |-> x.m.for, key |-> x.m.key] = queues[x.h][i]
      BY <2>1, <2>2 DEF Msg, Wraps
    <2> QED BY <2>1, <2>3 DEF InQueue
  <1>3. ASSUME NEW x \in Lanes', x.m.type = "RPE2E01"
        PROVE  x.m = line /\ present # {}
    <2>1. \A k, f : Msg("REKEY", 0, k, f).type = "REKEY"
      BY DEF Msg
    <2>2. ~RekeyOf(x, queues)
      BY <1>3, <2>1 DEF RekeyOf
    <2> QED BY <1>1, <2>2
  <1> QED BY <1>2, <1>3 DEF LaneWraps

(* A line: the wraps queued so far leave with it, and the fresh key's go   *)
(* to the recipients.                                                      *)
LEMMA LineHolders ==
  ASSUME TypeOK, KeyHoldersAreRecipients, LanesEmpty, UNCHANGED <<given, dropped>>,
         NEW present, NEW resolved,
         NEW line \in {Msg("RPE2E01", 0, KeyToUse, NoFp), Msg("PLAIN", 0, 0, NoFp)},
         SendLine(present, resolved, line)
  PROVE  KeyHoldersAreRecipients'
  <1>0. ManagerTypeOK
    BY DEF TypeOK
  <1>2. /\ outgoing' = [key |-> KeyToUse, rotate |-> FALSE]
        /\ rekeys' = [h \in Handles |-> <<>>]
        /\ UNCHANGED recipients
        /\ lane' = Sent(present, line, QueuedRekeys(peers), resolved)
    BY DEF SendLine
  <1>3. line \in Msgs
    BY <1>0, LineMsgType
  <1>4. line.type \notin {"KEYRSP", "REKEY"} /\ (line.type = "RPE2E01" => line.key = KeyToUse)
    BY DEF Msg
  <1>5. QueuedRekeys(peers) \in [Handles -> Seq(Wraps)]
    BY <1>0, TakeKeyType
  <1>6. /\ \A w \in LaneWraps' : InQueue(w, QueuedRekeys(peers))
        /\ \A x \in Lanes' : x.m.type = "RPE2E01" => x.m = line
    BY <1>2, <1>3, <1>4, <1>5, QueueLeaves
  <1>7. \A w \in LaneWraps' : w \in QueuedWraps \/ (w.key = KeyToUse /\ w.fp \in Recipients)
    BY <1>0, <1>6, QueuedStep DEF InQueue
  <1>8. QueuedWraps' = {}
    BY <1>2 DEF QueuedWraps
  <1>9. \A w \in Wrapped' : w \in Wrapped \/ (w.key = KeyToUse /\ w.fp \in Recipients')
    BY <1>2, <1>7, <1>8 DEF Wrapped, Recipients
  <1>10. Recipients \subseteq Recipients'
    BY <1>2 DEF Recipients
  <1>11. NoFp \notin {w.fp : w \in Wrapped}
    BY WrappedType DEF Wraps
  <1> QED BY <1>0, <1>2, <1>4, <1>6, <1>9, <1>10, <1>11, TakeKeyHolders

LEMMA ElsewhereHolders ==
  ASSUME TypeOK, KeyHoldersAreRecipients, LanesEmpty, UNCHANGED <<given, dropped>>,
         NEW resolved, EncryptElsewhere(resolved)
  PROVE  KeyHoldersAreRecipients'
  <1> DEFINE line == Msg("RPE2E01", 0, 0, NoFp)
  <1>0. ManagerTypeOK /\ rekeys \in [Handles -> Seq(Wraps)]
    BY DEF TypeOK, ManagerTypeOK
  <1>1. /\ UNCHANGED <<outgoing, recipients>>
        /\ rekeys' = [h \in Handles |-> <<>>]
        /\ lane' = Sent({}, line, rekeys, resolved)
    BY DEF EncryptElsewhere
  <1>2. line \in Msgs /\ line.type \notin {"KEYRSP", "REKEY"}
    BY <1>0, LineMsgType DEF Msg
  <1>3. /\ \A w \in LaneWraps' : InQueue(w, rekeys)
        /\ \A x \in Lanes' : x.m.type # "RPE2E01"
    <2> HIDE DEF line
    <2> QED BY <1>0, <1>1, <1>2, QueueLeaves
  <1>4. Wrapped' \subseteq Wrapped
    BY <1>1, <1>3 DEF Wrapped, QueuedWraps, InQueue
  <1>5. Recipients' = Recipients
    BY <1>1 DEF Recipients
  <1> QED BY <1>0, <1>1, <1>3, <1>4, <1>5, NoWrapHolders

LEMMA SpeakHolders ==
  ASSUME TypeOK, KeyHoldersAreRecipients, LanesEmpty, Speak
  PROVE  KeyHoldersAreRecipients'
  BY LineHolders, ElsewhereHolders DEF Speak, EncryptLine, EncryptOversizeLine, envVars

(* The steps that wrap no key and send no line.                            *)
LEMMA StillHolders ==
  ASSUME ManagerTypeOK, KeyHoldersAreRecipients, UNCHANGED given,
         outgoing'.key = outgoing.key, QueuedWraps' \subseteq QueuedWraps,
         \/ outgoing'.rotate
         \/ outgoing.key = 0
         \/ /\ outgoing'.rotate = outgoing.rotate
            /\ Recipients \cup dropped \subseteq Recipients' \cup dropped',
         \A x \in Lanes' : x.m.type = "KEYREQ"
  PROVE  KeyHoldersAreRecipients'
  <1>1. LaneWraps' = {}
    BY DEF LaneWraps
  <1>2. Wrapped' \subseteq Wrapped
    BY <1>1 DEF Wrapped
  <1> QED BY <1>2, NoWrapHolders

LEMMA QuietHolders ==
  ASSUME TypeOK, KeyHoldersAreRecipients, LanesEmpty,
         UNCHANGED <<given, dropped, outgoing, recipients, rekeys, lane>>
  PROVE  KeyHoldersAreRecipients'
  <1>1. Lanes' = {}
    BY DEF Lanes, LanesEmpty
  <1>2. QueuedWraps' = QueuedWraps /\ Recipients' = Recipients
    BY DEF QueuedWraps, Recipients
  <1> QED BY <1>1, <1>2, StillHolders DEF TypeOK

LEMMA AskHolders ==
  ASSUME TypeOK, KeyHoldersAreRecipients, LanesEmpty, NEW h \in Handles,
         lane' = [lane EXCEPT ![h] = Append(@, Msg("KEYREQ", lastEph + 1, 0, NoFp))],
         UNCHANGED <<given, dropped, outgoing, recipients, rekeys>>
  PROVE  KeyHoldersAreRecipients'
  <1> DEFINE req == Msg("KEYREQ", lastEph + 1, 0, NoFp)
  <1>1. lastEph \in Nat /\ ManagerTypeOK
    BY DEF TypeOK, ManagerTypeOK
  <1>2. req \in Msgs /\ req.type = "KEYREQ"
    BY <1>1, MsgType DEF MsgTypes, Msg
  <1>3. \A x \in Lanes' : x.m.type = "KEYREQ"
    <2>1. lane' = [lane EXCEPT ![h] = Append(@, req)]
      OBVIOUS
    <2> HIDE DEF req
    <2>2. \A x \in Lanes' : x.m \in {req, req}
      BY <1>1, <1>2, <2>1, LanesAppended
    <2> QED BY <1>2, <2>2
  <1>4. QueuedWraps' = QueuedWraps /\ Recipients' = Recipients
    BY DEF QueuedWraps, Recipients
  <1> QED BY <1>1, <1>3, <1>4, StillHolders

(* A handle's recipient row is never taken over by another identity.       *)
LEMMA NoTakeover ==
  ASSUME ManagerTypeOK, KeyringAgrees, NEW h \in Handles, NEW fp \in Fps,
         Acceptable(fp, h) \/ peers[fp].handle = h
  PROVE  recipients[h] \in {NoFp, fp}
  <1>1. recipients[h] # NoFp => recipients[h] \in Fps /\ peers[recipients[h]].handle = h
    BY RowFields DEF KeyringAgrees, RecipientIsPinned
  <1>2. peers[fp].handle = h \/
        (~Pinned(fp) /\ \A g \in Fps : peers[g].handle # h)
    BY DEF Acceptable, Classify
  <1> QED BY <1>1, <1>2 DEF KeyringAgrees, OnePeerPerHandle, Pinned

LEMMA FromPeerHolders ==
  ASSUME TypeOK, KeyringAgrees, KeyHoldersAreRecipients, LanesEmpty, FromPeer
  PROVE  KeyHoldersAreRecipients'
  <1>0. ManagerTypeOK
    BY DEF TypeOK
  <1>1. PICK h \in Present :
          \/ \E allowOut \in BOOLEAN : KeyReqArrives(h, allowOut)
          \/ \E eph \in 1 .. MaxEph, key \in 1 .. MaxPeerKey : KeyRspArrives(h, eph, key)
          \/ \E key \in 1 .. MaxPeerKey : RekeyArrives(h, key)
          \/ \E key \in 1 .. MaxPeerKey : ChunkArrives(h, key)
    BY DEF FromPeer
  <1>2. h \in Handles /\ at[h] \in Fps
    BY PresentType
  <1>3. UNCHANGED <<given, dropped>>
    BY <1>1 DEF KeyReqArrives, KeyRspArrives, RekeyArrives, ChunkArrives, envVars
  <1>4. CASE UNCHANGED <<outgoing, recipients, rekeys, lane>>
    BY <1>3, <1>4, QuietHolders
  <1>5. ASSUME NEW allowOut, ServeKeyReq(h, at[h], 1, allowOut)
        PROVE  KeyHoldersAreRecipients'
    <2>1. Acceptable(at[h], h) /\ Serve(h, at[h], 1, allowOut, peers')
      BY <1>5 DEF ServeKeyReq
    <2>2. recipients[h] \in {NoFp, at[h]}
      BY <1>0, <1>2, <2>1, NoTakeover
    <2> QED BY <1>2, <1>3, <2>1, <2>2, ServeHolders
  <1>6. ASSUME NEW key, RequestMissingKey(h, key)
        PROVE  KeyHoldersAreRecipients'
    BY <1>2, <1>3, <1>6, AskHolders DEF RequestMissingKey
  <1> QED BY <1>1, <1>4, <1>5, <1>6
          DEF KeyReqArrives, CacheKeyReq, IgnoreKeyReq, managerVars, KeyRspArrives,
              ReceiveKeyRsp, RekeyArrives, ReceiveRekey, ChunkArrives

LEMMA CommandHolders ==
  ASSUME TypeOK, KeyringAgrees, KeyHoldersAreRecipients, LanesEmpty, UNCHANGED given, Command
  PROVE  KeyHoldersAreRecipients'
  <1>0. ManagerTypeOK /\ outgoing.key \in Nat /\ Lanes = {}
        /\ recipients \in [Handles -> Fps \cup {NoFp}]
    BY NoLanes DEF TypeOK, ManagerTypeOK, KeyRows
  <1>1. PICK h \in Handles :
           \/ (\E allowOut \in BOOLEAN : AcceptCached(h, allowOut)) /\ UNCHANGED dropped
           \/ FlipStatus(h, "trusted") /\ UNCHANGED dropped
           \/ FlipStatus(h, "revoked") /\ UNCHANGED dropped
           \/ Handshake(h) /\ UNCHANGED dropped
           \/ Revoke(h) /\ UNCHANGED dropped
           \/ ForgetHere(h) /\ UNCHANGED dropped
           \/ Purge(h) /\ dropped' = dropped \cup ({recipients[h]} \ {NoFp})
    BY DEF Command, AcceptWithoutRequest, Unrevoke, Decline, Forget, Reverify
  <1>2. ASSUME NEW allowOut, AcceptCached(h, allowOut), UNCHANGED dropped
        PROVE  KeyHoldersAreRecipients'
    <2>1. inbound[h].fp \in Fps /\ inbound[h].eph \in Nat /\ peers[inbound[h].fp].handle = h
      BY <1>0, <1>2, RowFields
         DEF AcceptCached, KeyringAgrees, RequestIsPinned, ManagerTypeOK, Requests
    <2>2. recipients[h] \in {NoFp, inbound[h].fp}
      BY <1>0, <2>1, NoTakeover
    <2>3. Serve(h, inbound[h].fp, inbound[h].eph, allowOut, peers')
      BY <1>2 DEF AcceptCached
    <2> QED BY <1>2, <2>1, <2>2, <2>3, ServeHolders
  <1>3. ASSUME UNCHANGED dropped, UNCHANGED <<outgoing, recipients, rekeys, lane>>
        PROVE  KeyHoldersAreRecipients'
    BY <1>3, QuietHolders
  <1>4. CASE Handshake(h) /\ UNCHANGED dropped
    BY <1>4, AskHolders DEF Handshake
  <1>5. CASE Revoke(h)
    <2>1. outgoing'.key = outgoing.key /\ (outgoing'.rotate \/ outgoing.key = 0)
      BY <1>0, <1>5 DEF Revoke, MarkRotation, ManagerTypeOK, KeyRows
    <2>2. QueuedWraps' = QueuedWraps /\ Lanes' = {}
      BY <1>0, <1>5 DEF Revoke, QueuedWraps, Lanes
    <2> QED BY <1>0, <2>1, <2>2, StillHolders
  <1>6. CASE Purge(h) /\ dropped' = dropped \cup ({recipients[h]} \ {NoFp})
    <2>1. QueuedWraps' = QueuedWraps /\ Lanes' = {} /\ UNCHANGED outgoing
      BY <1>0, <1>6 DEF Purge, QueuedWraps, Lanes
    <2>2. recipients' = [recipients EXCEPT ![h] = NoFp]
      BY <1>6 DEF Purge
    <2>3. Recipients \cup dropped \subseteq Recipients' \cup dropped'
      BY <1>0, <1>6, <2>2 DEF Recipients
    <2> QED BY <1>0, <2>1, <2>3, StillHolders
  <1> QED BY <1>1, <1>2, <1>3, <1>4, <1>5, <1>6 DEF FlipStatus, ForgetHere

LEMMA HoldersStep ==
  ASSUME TypeOK, KeyringAgrees, KeyHoldersAreRecipients, [Next]_vars
  PROVE  KeyHoldersAreRecipients'
  <1>0. ManagerTypeOK
    BY DEF TypeOK
  <1>1. CASE Relay
    <2>1. Lanes' = {}
      BY <1>1 DEF Relay, Lanes
    <2>2. given' \subseteq given \cup LaneWraps
      BY <1>1 DEF Relay, LaneWraps
    <2>3. UNCHANGED <<outgoing, recipients, rekeys, dropped>>
      BY <1>1 DEF Relay, keyring, volatile
    <2>4. Wrapped' \subseteq Wrapped
      BY <2>1, <2>2, <2>3 DEF Wrapped, LaneWraps, QueuedWraps
    <2> QED BY <1>0, <2>1, <2>3, <2>4, NoWrapHolders DEF Recipients
  <1>2. CASE LanesEmpty /\ FromPeer
    BY <1>2, FromPeerHolders
  <1>3. CASE LanesEmpty /\ UserStep
    <2>1. UNCHANGED given
      BY <1>3 DEF UserStep
    <2>2. CASE Command
      BY <1>3, <2>1, <2>2, CommandHolders
    <2>3. CASE Rotate /\ UNCHANGED dropped
      <3>1. outgoing'.key = outgoing.key /\ (outgoing'.rotate \/ outgoing.key = 0)
        BY <1>0, <2>3 DEF Rotate, MarkRotation, ManagerTypeOK, KeyRows
      <3>2. QueuedWraps' = QueuedWraps /\ Lanes' = {}
        BY <1>3, <2>3, NoLanes DEF Rotate, QueuedWraps, Lanes
      <3> QED BY <1>0, <2>1, <3>1, <3>2, StillHolders
    <2>4. CASE Configure /\ ~Rotate /\ UNCHANGED dropped
      BY <1>3, <2>1, <2>4, QuietHolders DEF Configure, SetMode, SetAutotrust
    <2>5. CASE Restart /\ UNCHANGED dropped
      <3>1. QueuedWraps' = {} /\ Lanes' = {} /\ UNCHANGED <<outgoing, recipients>>
        BY <2>5 DEF Restart, QueuedWraps, Lanes
      <3> QED BY <1>0, <2>1, <2>5, <3>1, StillHolders DEF Recipients
    <2> QED BY <1>3, <2>2, <2>3, <2>4, <2>5 DEF UserStep
  <1>4. CASE LanesEmpty /\ Speak
    BY <1>4, SpeakHolders
  <1>5. CASE LanesEmpty /\ Move
    BY <1>5, QuietHolders DEF Move, managerVars
  <1>6. CASE UNCHANGED vars
    BY <1>6 DEF vars, managerVars, envVars, KeyHoldersAreRecipients, Wrapped, QueuedWraps,
       LaneWraps, Lanes, Recipients
  <1> QED BY <1>1, <1>2, <1>3, <1>4, <1>5, <1>6 DEF Next

LEMMA HoldersInit == Init => KeyHoldersAreRecipients
  BY DEF Init, ManagerInit, KeyHoldersAreRecipients, Wrapped, QueuedWraps, LaneWraps, Lanes

(* Every copy of the key in use, handed over, queued or under way, is      *)
(* wrapped for a recipient, unless the key is flagged for rotation         *)
(* (get_or_generate_outgoing_key, e2e/manager.rs).                         *)
THEOREM KeyHolders == Spec => []KeyHoldersAreRecipients
  <1> DEFINE IInv == TypeOK /\ KeyringAgrees /\ KeyHoldersAreRecipients
  <1>1. Init => IInv
    BY TypeInit, AgreementInit, HoldersInit
  <1>2. IInv /\ [Next]_vars => IInv'
    BY TypeStep, AgreementStep, HoldersStep
  <1> QED BY <1>1, <1>2, PTL DEF Spec

(* Whoever can open a line is a recipient or was forgotten as one.         *)
THEOREM LineReaders == Spec => []LineReadersAreRecipients
  <1>1. KeyHoldersAreRecipients => LineReadersAreRecipients
    BY DEF KeyHoldersAreRecipients, LineReadersAreRecipients, Wrapped
  <1> QED BY <1>1, KeyHolders, PTL
=============================================================================
