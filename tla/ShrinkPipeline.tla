--------------------------- MODULE ShrinkPipeline ---------------------------
(***************************************************************************)
(* Lines that wait for the URL shortener: the lanes of the two workers     *)
(* (out: what the user typed, in: what others wrote), the channel of their *)
(* answers, and the main loop that sends, shows and logs.  A channel may   *)
(* be encrypted or not; a query is encrypted for the handle its peer's     *)
(* messages carry, unless encrypting fails: then the text leaves as it is. *)
(***************************************************************************)
EXTENDS Integers, Sequences, SequencesExt, FiniteSets

CONSTANTS Chans, Peers, \* the buffers: channels, and queries by their nick
          Nicks, FirstNick, \* the user's own nicks, and the one to begin with
          QueueCap, \* capacity of each lane
          MaxLines, MaxEvents \* bounds of the model

ShrinkAssumption ==
    /\ Chans \cup Peers # {} /\ Chans \cap Peers = {} /\ FirstNick \in Nicks
    /\ {QueueCap, MaxLines, MaxEvents} \subseteq Nat

VARIABLES
    lane,       \* lane[d]: lines waiting for the worker of direction d
    working,    \* working[d]: the line the worker of d has taken, if any
    delivered,  \* lines on their way back to the main loop
    openBufs, activeBuf,
    peerKnown,  \* the query buffers that have recorded their peer's handle
    ownNick, echoMessage,
    link,       \* "up"; "broken": there is a handle and sending fails; "none": no handle
    typed,      \* every line so far, by id
    wire,       \* lines sent, in order
    screen,     \* lines shown (and logged), in order
    told,       \* ids of lines the user was told something about
    panicked,   \* ids lost in a panic of a worker
    passed,     \* ids let out in the clear although the peer's handle was there
    swallowed,  \* ids typed without a connection that nothing was done about
    shrinkEvents

shrinkVars == <<lane, working, delivered, openBufs, activeBuf, peerKnown, ownNick, link,
                echoMessage, typed, wire, screen, told, panicked, passed, swallowed, shrinkEvents>>
shrinkQueues == <<lane, working, delivered>>
shrinkUser == <<openBufs, activeBuf, peerKnown, ownNick, link, echoMessage>>
shrinkSent == <<wire, screen, told, passed, swallowed>>
shrinkOutcome == <<shrinkSent, panicked>>

Dirs == {"out", "in"}
Bufs == Chans \cup Peers
Lines == [id: 1..MaxLines, dir: Dirs, buf: Bufs, nick: Nicks, handle: BOOLEAN]
TypeOK ==
    /\ lane \in [Dirs -> Seq(Lines)] /\ working \in [Dirs -> Seq(Lines)]
    /\ \A d \in Dirs : Len(lane[d]) <= QueueCap /\ Len(working[d]) <= 1
    /\ delivered \in Seq(Lines) /\ typed \in Seq(Lines)
    /\ openBufs \subseteq Bufs /\ activeBuf \in openBufs /\ peerKnown \subseteq Peers
    /\ ownNick \in Nicks /\ link \in {"up", "broken", "none"} /\ echoMessage \in BOOLEAN
    /\ wire \in Seq([id: 1..MaxLines, nick: Nicks, encrypted: BOOLEAN])
    /\ screen \in Seq([id: 1..MaxLines, buf: Bufs, nick: Nicks])

Init ==
    /\ lane = [d \in Dirs |-> <<>>] /\ working = lane /\ delivered = <<>>
    /\ openBufs = Bufs /\ activeBuf \in Bufs /\ peerKnown \in SUBSET Peers
    /\ ownNick = FirstNick /\ link = "up" /\ echoMessage \in BOOLEAN
    /\ typed = <<>> /\ wire = <<>> /\ screen = <<>> /\ told = {} /\ panicked = {}
    /\ passed = {} /\ swallowed = {} /\ shrinkEvents = 0

----------------------------------------------------------------------------
(* Sending and showing. *)

Shown(l, nick) == [id |-> l.id, buf |-> l.buf, nick |-> nick]

(* Mutant of Captured: the handle taken before the wait is not used. *)
CapturedNever(l) == FALSE
Captured(l) == l.handle
HandleKnown(l) == Captured(l) \/ l.buf \in openBufs \cap peerKnown

\* Without a handle an enabled row under the bare nick refuses the line.  Plain text leaves where
\* nothing is enabled, where the text begins with "." or "!", where the settings cannot be read
\* and where encrypting fails.
E2eEncryptOrPassthrough(l) ==
    IF l.buf \in Chans \/ HandleKnown(l) THEN {"cipher", "plain"} ELSE {"plain", "refused"}
PassesThrough(l, how) ==
    passed' = IF how = "plain" /\ HandleKnown(l) THEN passed \cup {l.id} ELSE passed

SentAs(l, how) == [id |-> l.id, nick |-> ownNick, encrypted |-> how = "cipher"]
LocalEcho(how) == ~ echoMessage \/ how = "cipher"

\* in the buffer of the line, or in the active one if that is closed
DeliverOutgoingError(l) == told' = told \cup {l.id} /\ UNCHANGED <<wire, screen, swallowed>>

\* the line goes out; it is echoed with the nick of the line, if its buffer is still there
SendOutgoingSubstituted(l) ==
    \/ link = "none" /\ DeliverOutgoingError(l) /\ UNCHANGED passed
    \/ \E how \in E2eEncryptOrPassthrough(l) :
        /\ link # "none" /\ PassesThrough(l, how)
        /\ \/ (how = "refused" \/ link = "broken") /\ DeliverOutgoingError(l)
           \/ /\ how # "refused" /\ link = "up" /\ wire' = Append(wire, SentAs(l, how))
              /\ screen' = IF LocalEcho(how) /\ l.buf \in openBufs
                           THEN Append(screen, Shown(l, l.nick)) ELSE screen
              /\ told' = IF LocalEcho(how) /\ l.buf \notin openBufs
                         THEN told \cup {l.id} ELSE told
              /\ UNCHANGED swallowed

\* The same without waiting, where a missing connection is not noticed: the line is only shown,
\* or, left to an echo of the server that cannot come, not even that.
SendNow(l) ==
    \E how \in E2eEncryptOrPassthrough(l) :
        /\ PassesThrough(l, how)
        /\ \/ (how = "refused" \/ link = "broken") /\ DeliverOutgoingError(l)
           \/ /\ how # "refused" /\ link # "broken" /\ UNCHANGED told
              /\ wire' = IF link = "up" THEN Append(wire, SentAs(l, how)) ELSE wire
              /\ screen' = IF LocalEcho(how) THEN Append(screen, Shown(l, l.nick)) ELSE screen
              /\ swallowed' = IF link = "none" /\ ~ LocalEcho(how)
                              THEN swallowed \cup {l.id} ELSE swallowed

\* nothing is shown or logged for a buffer that has been closed
(* Mutant of AddMessageUnshrunk: nobody looks whether the buffer is open. *)
AddOrphan(l) ==
    screen' = Append(screen, Shown(l, l.nick)) /\ UNCHANGED <<wire, told, passed, swallowed>>
AddMessageUnshrunk(l) ==
    /\ screen' = IF l.buf \in openBufs THEN Append(screen, Shown(l, l.nick)) ELSE screen
    /\ UNCHANGED <<wire, told, passed, swallowed>>

----------------------------------------------------------------------------
(* Dispatch. *)

Line(dir, buf) ==
    [id |-> Len(typed) + 1, dir |-> dir, buf |-> buf, nick |-> ownNick,
     handle |-> buf \in peerKnown]

Enqueue(l) == lane' = [lane EXCEPT ![l.dir] = Append(@, l)]
Waits(l, hasUrl) == hasUrl /\ Len(lane[l.dir]) < QueueCap
Arrives(l) ==
    /\ Len(typed) < MaxLines /\ typed' = Append(typed, l)
    /\ UNCHANGED <<working, delivered, panicked, shrinkEvents>>

\* the user presses Enter in the active buffer
HandlePlainMessage(hasUrl) ==
    LET l == Line("out", activeBuf)
    IN  /\ Arrives(l) /\ UNCHANGED shrinkUser
        /\ IF Waits(l, hasUrl) THEN Enqueue(l) /\ UNCHANGED shrinkSent
           ELSE SendNow(l) /\ UNCHANGED lane

\* a message arrives; a private one opens the query buffer and records the handle
HandlePrivmsg(buf, hasUrl) ==
    LET l == Line("in", buf)
    IN  /\ link # "none" /\ buf \in Peers \cup openBufs
        /\ openBufs' = openBufs \cup {buf}
        /\ peerKnown' = peerKnown \cup ({buf} \cap Peers)
        /\ Arrives(l)
        /\ UNCHANGED <<wire, told, passed, swallowed, activeBuf, ownNick, link, echoMessage>>
        /\ IF Waits(l, hasUrl) THEN Enqueue(l) /\ UNCHANGED screen
           ELSE screen' = Append(screen, Shown(l, ownNick)) /\ UNCHANGED lane

----------------------------------------------------------------------------
(* The workers, one line at a time each. *)

Take(d) == [line |-> Head(lane[d]), rest |-> Tail(lane[d])]
WorkerTakes(d) ==
    /\ working[d] = <<>> /\ lane[d] # <<>>
    /\ working' = [working EXCEPT ![d] = <<Take(d).line>>]
    /\ lane' = [lane EXCEPT ![d] = Take(d).rest]
    /\ UNCHANGED <<shrinkUser, shrinkOutcome, delivered, typed, shrinkEvents>>

\* shortened, or the original after an error or the timeout
WorkerAnswers(d) ==
    /\ working[d] # <<>>
    /\ delivered' = delivered \o working[d]
    /\ working' = [working EXCEPT ![d] = <<>>]
    /\ UNCHANGED <<shrinkUser, shrinkOutcome, lane, typed, shrinkEvents>>

\* a panic costs the line, not the worker
WorkerPanics(d) ==
    /\ working[d] # <<>> /\ shrinkEvents < MaxEvents
    /\ panicked' = panicked \cup {working[d][1].id}
    /\ working' = [working EXCEPT ![d] = <<>>] /\ shrinkEvents' = shrinkEvents + 1
    /\ UNCHANGED <<shrinkUser, lane, delivered, typed, shrinkSent>>

ApplyShrinkDeliver ==
    /\ delivered # <<>> /\ delivered' = Tail(delivered)
    /\ LET l == Head(delivered)
       IN  IF l.dir = "out" THEN SendOutgoingSubstituted(l) ELSE AddMessageUnshrunk(l)
    /\ UNCHANGED <<shrinkUser, lane, working, typed, panicked, shrinkEvents>>

----------------------------------------------------------------------------
(* Meanwhile. *)

Meanwhile == shrinkEvents < MaxEvents /\ shrinkEvents' = shrinkEvents + 1
             /\ UNCHANGED <<shrinkQueues, shrinkOutcome, typed>>

CloseBuffer(b) ==
    /\ Meanwhile /\ openBufs \ {b} # {} /\ b \in openBufs
    /\ openBufs' = openBufs \ {b}
    /\ activeBuf' = IF activeBuf = b THEN CHOOSE c \in openBufs \ {b} : TRUE ELSE activeBuf
    /\ peerKnown' = peerKnown \ {b}
    /\ UNCHANGED <<ownNick, link, echoMessage>>
\* /query opens the buffer without a handle; /join and the other buffers as well
OpenBuffer(b) ==
    /\ Meanwhile /\ openBufs' = openBufs \cup {b} /\ activeBuf' = b
    /\ UNCHANGED <<peerKnown, ownNick, link, echoMessage>>
ChangeNick ==
    /\ Meanwhile /\ ownNick' \in Nicks
    /\ UNCHANGED <<openBufs, activeBuf, peerKnown, link, echoMessage>>
\* a connection that is gone leaves its capabilities behind; a new one replaces them
ConnectionChanges ==
    /\ Meanwhile /\ UNCHANGED <<openBufs, activeBuf, peerKnown, ownNick>>
    /\ \/ link = "up" /\ link' \in {"broken", "none"} /\ UNCHANGED echoMessage
       \/ link = "broken" /\ link' = "none" /\ UNCHANGED echoMessage
       \/ link = "none" /\ link' = "up" /\ echoMessage' \in BOOLEAN

Next ==
    \/ \E u \in BOOLEAN : HandlePlainMessage(u) \/ \E b \in Bufs : HandlePrivmsg(b, u)
    \/ \E d \in Dirs : WorkerTakes(d) \/ WorkerAnswers(d) \/ WorkerPanics(d)
    \/ ApplyShrinkDeliver
    \/ \E b \in Bufs : CloseBuffer(b) \/ OpenBuffer(b)
    \/ ChangeNick \/ ConnectionChanges
Spec == Init /\ [][Next]_shrinkVars

----------------------------------------------------------------------------
Waiting == Range(lane["out"]) \cup Range(working["out"]) \cup Range(delivered)
WireIds == {wire[i].id : i \in DOMAIN wire}
ShownIds == {screen[i].id : i \in DOMAIN screen}

(* A line typed while the peer's handle was known leaves in the clear only where the encryption   *)
(* let it pass on its way out, never because its buffer was closed, or reopened without the       *)
(* handle, while the shortener answered. *)
SecretLinesStayEncrypted ==
    \A i \in DOMAIN wire :
        typed[wire[i].id].handle => wire[i].encrypted \/ wire[i].id \in passed

(* No typed line vanishes: it is waiting, sent, shown, reported or lost in a panic; or it was     *)
(* typed without a connection, without waiting, on a server that had promised to echo it. *)
TypedLinesAreAccountedFor ==
    \A i \in DOMAIN typed : typed[i].dir = "out" =>
        typed[i] \in Waiting \/ i \in WireIds \cup ShownIds \cup told \cup panicked \cup swallowed

(* What the shortener delays stays in the order in which it was typed or received. *)
Ordered(s) == \A i, j \in DOMAIN s : i < j /\ s[i].dir = s[j].dir => s[i].id < s[j].id
Before(S, T) == \A l \in S, m \in T : l.dir = m.dir => l.id < m.id
DelayedKeepOrder ==
    /\ Ordered(delivered)
    /\ \A d \in Dirs : /\ Ordered(lane[d]) /\ Before(Range(working[d]), Range(lane[d]))
                       /\ Before(Range(delivered), Range(working[d]) \cup Range(lane[d]))

ClosedBuffersStaySilentStep ==
  Len(screen') > Len(screen) => Last(screen').buf \in openBufs'
(* Nothing is shown or logged in a buffer after it was closed. *)
ClosedBuffersStaySilent == [][ClosedBuffersStaySilentStep]_shrinkVars

(* The echo of a delayed line shows the nick it was sent under. *)
EchoNickIsWireNick ==
    \A i \in DOMAIN wire, j \in DOMAIN screen : wire[i].id = screen[j].id => wire[i].nick = screen[j].nick

(* Lines leave in the order in which the user typed them. *)
TypedOrder == \A i, j \in DOMAIN wire : i < j => wire[i].id < wire[j].id

(* A line that is shown as said was sent. *)
ShownMeansSent ==
    \A i \in DOMAIN screen : typed[screen[i].id].dir = "out" => screen[i].id \in WireIds
=============================================================================
