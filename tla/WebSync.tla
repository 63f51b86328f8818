------------------------------- MODULE WebSync ------------------------------
(***************************************************************************)
(* One browser and the client it mirrors: the buffers of the main loop,    *)
(* the broadcast channel its WebSocket session reads, the snapshot a new   *)
(* session starts from, and what the page keeps.  Buffer "c" is always     *)
(* open; the query "q" comes and goes and becomes "q2" when bob changes    *)
(* his nick.  Logging is off; another client, terminal, writes too.        *)
(***************************************************************************)
EXTENDS Integers, Sequences, SequencesExt, FiniteSets

CONSTANTS BusCap,   \* capacity of the broadcast channel
          Backlog,  \* whether a buffer that is opened again shows its old lines
          Surprises, \* whether buffers are opened and closed by others than the browser
          MaxLines, MaxSteps, MaxSessions \* bounds of the model

VARIABLES
    open, active, previous, log, lastId, seen, \* the main loop: buffers and their lines
    snap,                             \* what a new session is told
    phase, session, wsActive, bus, lagged, \* the WebSocket session and its end of the broadcast
    down, up,                         \* the two directions of the socket
    cBufs, cActive, cMsgs, cLoaded, cPending, \* the page
    wire,                             \* lines the browser typed, where, and where they were sent
    steps

server == <<open, active, previous, log, lastId, seen, snap>>
socket == <<phase, session, wsActive, lagged>>
page == <<cBufs, cActive, cMsgs, cLoaded, cPending>>
webVars == <<server, socket, bus, down, up, page, wire, steps>>

Bufs == {"c", "q", "q2"}
Order == <<"c", "q", "q2">>  \* the buffer list is sorted
Ids == 1..MaxLines
NoBuf == "none"
Events == [t: {"created", "closed", "active", "line", "lines", "init"}, b: Bufs \cup {NoBuf},
           ids: Seq(Ids), bufs: SUBSET Bufs, to: 0..MaxSessions]
Ev(t, b) == [t |-> t, b |-> b, ids |-> <<>>, bufs |-> {}, to |-> 0]
Commands == [t: {"switch", "fetch", "send", "open"}, b: Bufs, by: 1..MaxSessions]

TypeOK ==
    /\ open \subseteq Bufs /\ active \in open /\ previous \in Bufs \cup {NoBuf}
    /\ log \in [Bufs -> Seq(Ids)] /\ seen \subseteq Bufs
    /\ snap \in [open: SUBSET Bufs, active: Bufs]
    /\ phase \in {"off", "opening", "subscribed", "live"} /\ wsActive \in Bufs
    /\ bus \in Seq(Events) /\ Len(bus) <= BusCap /\ down \in Seq(Events) /\ up \in Seq(Commands)
    /\ cBufs \in Seq(Bufs) /\ cActive \in Bufs \cup {NoBuf}
    /\ cMsgs \in [Bufs -> Seq(Ids)] /\ cLoaded \subseteq Bufs /\ cPending \subseteq Bufs

Init ==
    /\ open = {"c", "q"} /\ active \in open /\ previous = NoBuf
    /\ log = [b \in Bufs |-> IF b = "c" THEN <<1>> ELSE <<>>] /\ lastId = 1 /\ seen = open
    /\ snap = [open |-> open, active |-> active]
    /\ phase = "off" /\ session = 0 /\ wsActive = "c" /\ bus = <<>> /\ lagged = FALSE
    /\ down = <<>> /\ up = <<>>
    /\ cBufs = <<>> /\ cActive = NoBuf /\ cMsgs = [b \in Bufs |-> <<>>]
    /\ cLoaded = {} /\ cPending = {} /\ wire = <<>> /\ steps = 0

----------------------------------------------------------------------------
(* The main loop. *)

\* every subscriber gets the event; the oldest ones a slow one has not read are dropped
Publish(events) ==
    LET all == bus \o events
        excess == Len(all) - BusCap
    IN IF phase \in {"subscribed", "live"}
       THEN /\ bus' = IF excess > 0 THEN SubSeq(all, excess + 1, Len(all)) ELSE all
            /\ lagged' = (lagged \/ excess > 0)
       ELSE UNCHANGED <<bus, lagged>>

RefreshSnapshot == snap' = [open |-> open', active |-> active']

\* set_active_buffer
SwitchEvents(b) == IF active # b THEN <<Ev("active", b)>> ELSE <<>>
Activate(b) == active' = b /\ previous' = IF active # b THEN active ELSE previous

\* a buffer that is opened, with what it holds at first
OldLines(b) == IF Backlog /\ b \in seen THEN <<lastId + 1>> ELSE <<>>
AddBuffer(b, lines) ==
    /\ open' = open \cup {b} /\ seen' = seen \cup {b}
    /\ log' = [log EXCEPT ![b] = lines]
Line(b, id) == [Ev("line", b) EXCEPT !.ids = <<id>>]

Step == steps < MaxSteps /\ steps' = steps + 1

\* a line of somebody else, or typed in the terminal
LineArrives(b) ==
    /\ Step /\ b \in open /\ lastId < MaxLines
    /\ lastId' = lastId + 1 /\ log' = [log EXCEPT ![b] = Append(@, lastId')]
    /\ Publish(<<Line(b, lastId')>>)
    /\ UNCHANGED <<open, active, previous, seen, snap, phase, session, wsActive, down, up, page, wire>>

\* the first line of a query opens it, in the background
QueryArrives ==
    /\ Step /\ Surprises /\ {"q", "q2"} \cap open = {} /\ lastId + 2 <= MaxLines
    /\ lastId' = lastId + Len(OldLines("q")) + 1
    /\ AddBuffer("q", Append(OldLines("q"), lastId'))
    /\ Publish(<<Ev("created", "q"), Line("q", lastId')>>)
    /\ UNCHANGED <<active, previous>> /\ RefreshSnapshot
    /\ UNCHANGED <<phase, session, wsActive, down, up, page, wire>>

TerminalSwitches(b) ==
    /\ Step /\ b \in open \ {active}
    /\ Activate(b) /\ Publish(SwitchEvents(b)) /\ UNCHANGED <<open, log, lastId, seen>> /\ RefreshSnapshot
    /\ UNCHANGED <<phase, session, wsActive, down, up, page, wire>>

\* remove_buffer: back to the previous buffer or the first one, without an event
FallBack == IF previous \in open' THEN previous ELSE "c"
RemoveBuffer(b) ==
    /\ Step /\ Surprises /\ b \in open \ {"c"}
    /\ open' = open \ {b} /\ log' = [log EXCEPT ![b] = <<>>]
    /\ IF active = b
       THEN active' = FallBack /\ previous' = NoBuf
       ELSE UNCHANGED <<active, previous>>
    /\ Publish(<<Ev("closed", b)>>) /\ RefreshSnapshot
    /\ UNCHANGED <<lastId, seen, phase, session, wsActive, down, up, page, wire>>

\* rename_query_buffers: no event, so the snapshot waits for the next tick
RenameQueryBuffers ==
    /\ Step /\ "q" \in open /\ "q2" \notin open
    /\ open' = (open \ {"q"}) \cup {"q2"} /\ seen' = seen \cup {"q2"}
    /\ log' = [log EXCEPT !["q2"] = log["q"], !["q"] = <<>>]
    /\ active' = IF active = "q" THEN "q2" ELSE active
    /\ UNCHANGED <<previous, lastId, snap, phase, session, wsActive, bus, lagged, down, up, page, wire>>

Tick ==
    /\ snap # [open |-> open, active |-> active]
    /\ snap' = [open |-> open, active |-> active]
    /\ UNCHANGED <<open, active, previous, log, lastId, seen, socket, bus, down, up, page, wire, steps>>

----------------------------------------------------------------------------
(* Commands of the browser. *)

\* set_active_buffer_silent
FlippedTo(b) == IF b \in open THEN b ELSE active

WebSwitch(cmd) ==
    /\ UNCHANGED <<open, log, lastId, seen, wire>>
    /\ IF cmd.b \in open
       THEN Activate(cmd.b) /\ Publish(SwitchEvents(cmd.b)) /\ RefreshSnapshot
       ELSE UNCHANGED <<active, previous, snap, bus, lagged>>
    /\ wsActive' = IF cmd.by = session THEN cmd.b ELSE wsActive

\* web_fetch_messages: what the buffer holds, and no answer for one that holds nothing
WebFetch(cmd) ==
    /\ IF cmd.b \in open /\ log[cmd.b] # <<>>
       THEN Publish(<<[Ev("lines", cmd.b) EXCEPT !.ids = log[cmd.b], !.to = cmd.by]>>)
       ELSE UNCHANGED <<bus, lagged>>
    /\ UNCHANGED <<open, active, previous, log, lastId, seen, snap, wsActive, wire>>

\* web_run_command with a line: sent to and echoed in the buffer that is active meanwhile
WebSend(cmd) ==
    /\ wire' = Append(wire, [typed |-> cmd.b, sent |-> FlippedTo(cmd.b)])
    /\ IF lastId < MaxLines
       THEN /\ lastId' = lastId + 1
            /\ log' = [log EXCEPT ![FlippedTo(cmd.b)] = Append(@, lastId')]
            /\ Publish(<<Line(FlippedTo(cmd.b), lastId')>>)
       ELSE UNCHANGED <<lastId, log, bus, lagged>>
    /\ UNCHANGED <<open, active, previous, seen, snap, wsActive>>

\* the same with /query bob, which opens and shows his buffer for the time of the command
WebOpen(cmd) ==
    LET fresh == "q" \notin open
        switch == IF FlippedTo(cmd.b) # "q" THEN <<Ev("active", "q")>> ELSE <<>>
    IN /\ IF fresh
          THEN lastId' = lastId + Len(OldLines("q")) /\ AddBuffer("q", OldLines("q"))
          ELSE UNCHANGED <<open, seen, log, lastId>>
       /\ Publish((IF fresh THEN <<Ev("created", "q")>> ELSE <<>>) \o switch)
       /\ previous' = IF switch # <<>> THEN FlippedTo(cmd.b) ELSE previous
       /\ UNCHANGED active /\ RefreshSnapshot
       /\ UNCHANGED <<wsActive, wire>>

HandleWebCommand ==
    /\ up # <<>> /\ up' = Tail(up)
    /\ LET cmd == Head(up)
       IN \/ cmd.t = "switch" /\ WebSwitch(cmd)
          \/ cmd.t = "fetch" /\ WebFetch(cmd)
          \/ cmd.t = "send" /\ WebSend(cmd)
          \/ cmd.t = "open" /\ lastId + Len(OldLines("q")) <= MaxLines /\ WebOpen(cmd)
    /\ UNCHANGED <<phase, session, down, page, steps>>

----------------------------------------------------------------------------
(* The WebSocket session. *)

WsHandler ==
    /\ phase = "off" /\ session < MaxSessions
    /\ phase' = "opening" /\ session' = session + 1 /\ wsActive' = snap.active
    /\ UNCHANGED <<server, bus, lagged, down, up, page, wire, steps>>

Subscribe ==
    /\ phase = "opening" /\ phase' = "subscribed" /\ bus' = <<>> /\ lagged' = FALSE
    /\ UNCHANGED <<server, session, wsActive, down, up, page, wire, steps>>

SyncInit == [Ev("init", wsActive) EXCEPT !.bufs = snap.open]

SendSyncInit ==
    /\ phase = "subscribed" /\ phase' = "live" /\ down' = Append(down, SyncInit)
    /\ UNCHANGED <<server, session, wsActive, bus, lagged, up, page, wire, steps>>

\* a session that lagged starts over, and goes on with what is left of the channel
Resync ==
    /\ phase = "live" /\ lagged /\ lagged' = FALSE /\ down' = Append(down, SyncInit)
    /\ UNCHANGED <<server, phase, session, wsActive, bus, up, page, wire, steps>>

IsTargetedToOther(ev) == ev.to \notin {0, session}
Forward ==
    /\ phase = "live" /\ ~ lagged /\ bus # <<>> /\ bus' = Tail(bus)
    /\ down' = IF IsTargetedToOther(Head(bus)) THEN down ELSE Append(down, Head(bus))
    /\ UNCHANGED <<server, phase, session, wsActive, lagged, up, page, wire, steps>>

\* the socket breaks: what is under way in it is lost, except commands that are with the main loop
Drop ==
    /\ Step /\ phase # "off" /\ phase' = "off" /\ bus' = <<>> /\ lagged' = FALSE /\ down' = <<>>
    /\ \E n \in 0..Len(up) : up' = SubSeq(up, 1, n)
    /\ UNCHANGED <<server, session, wsActive, page, wire>>

----------------------------------------------------------------------------
(* The page. *)

Connected == phase = "live"

\* the effect that runs when the active buffer is set: one fetch per buffer and sync
NeedsFetch(b, loaded, pending) == b # NoBuf /\ b \notin loaded /\ b \notin pending
Show(b, loaded, pending) ==
    /\ cActive' = b /\ cLoaded' = loaded
    /\ cPending' = IF NeedsFetch(b, loaded, pending) THEN pending \cup {b} ELSE pending
    /\ up' = IF NeedsFetch(b, loaded, pending) /\ phase = "live"
             THEN Append(up, [t |-> "fetch", b |-> b, by |-> session]) ELSE up

KeepTheRest == UNCHANGED <<cActive, cLoaded, cPending, up>>

(* Mutant of ForgetMessages: the lines of the last connection stay. *)
ForgetNothing == UNCHANGED cMsgs
ForgetMessages == cMsgs' = [b \in Bufs |-> <<>>]
HandleSyncInit(ev) ==
    /\ ForgetMessages /\ cBufs' = SelectSeq(Order, LAMBDA b : b \in ev.bufs)
    /\ Show(ev.b, {}, {})

Known(b) == ToSet(cMsgs[b])
AppendNew(b, id) == IF id \in Known(b) THEN cMsgs[b] ELSE Append(cMsgs[b], id)
HandleNewMessage(ev) ==
    /\ cMsgs' = [cMsgs EXCEPT ![ev.b] = AppendNew(ev.b, ev.ids[1])]
    /\ UNCHANGED cBufs /\ KeepTheRest

FreshLines(ev) == SelectSeq(ev.ids, LAMBDA id : id \notin Known(ev.b))
HandleMessages(ev) ==
    /\ cMsgs' = [cMsgs EXCEPT ![ev.b] = FreshLines(ev) \o @]
    /\ cLoaded' = cLoaded \cup {ev.b}
    /\ UNCHANGED <<cBufs, cActive, cPending, up>>

HandleBufferCreated(ev) ==
    /\ cBufs' = Append(cBufs, ev.b) /\ UNCHANGED cMsgs /\ Show(ev.b, cLoaded, cPending)

HandleBufferClosed(ev) ==
    LET rest == SelectSeq(cBufs, LAMBDA b : b # ev.b)
        next == IF rest = <<>> THEN NoBuf ELSE rest[1]
    IN /\ cBufs' = rest /\ cMsgs' = [cMsgs EXCEPT ![ev.b] = <<>>]
       /\ IF cActive = ev.b THEN Show(next, cLoaded \ {ev.b}, cPending)
          ELSE cLoaded' = cLoaded \ {ev.b} /\ UNCHANGED <<cActive, cPending, up>>

HandleActiveBufferChanged(ev) ==
    /\ UNCHANGED <<cBufs, cMsgs>>
    /\ IF cActive # ev.b THEN Show(ev.b, cLoaded, cPending) ELSE KeepTheRest

HandleEvent ==
    /\ down # <<>> /\ down' = Tail(down)
    /\ LET ev == Head(down)
       IN \/ ev.t = "init" /\ HandleSyncInit(ev)
          \/ ev.t = "line" /\ HandleNewMessage(ev)
          \/ ev.t = "lines" /\ HandleMessages(ev)
          \/ ev.t = "created" /\ HandleBufferCreated(ev)
          \/ ev.t = "closed" /\ HandleBufferClosed(ev)
          \/ ev.t = "active" /\ HandleActiveBufferChanged(ev)
    /\ UNCHANGED <<server, socket, bus, wire, steps>>

\* a click in the buffer list, a line or a command in the input; without a connection they are lost
Send(cmds) == up' = IF Connected THEN up \o cmds ELSE up
Command(t, b) == [t |-> t, b |-> b, by |-> session]

Click(b) ==
    /\ Step /\ Connected /\ b \in ToSet(cBufs) \ {cActive}
    /\ cActive' = b
    /\ cPending' = IF NeedsFetch(b, cLoaded, cPending) THEN cPending \cup {b} ELSE cPending
    /\ up' = Append(up, Command("switch", b))
             \o (IF NeedsFetch(b, cLoaded, cPending) THEN <<Command("fetch", b)>> ELSE <<>>)
    /\ UNCHANGED <<server, socket, bus, down, cBufs, cMsgs, cLoaded, wire>>

Type(t) ==
    /\ Step /\ cActive # NoBuf /\ t \in {"send", "open"} /\ Send(<<Command(t, cActive)>>)
    /\ UNCHANGED <<server, socket, bus, down, page, wire>>

----------------------------------------------------------------------------

Next ==
    \/ \E b \in Bufs : LineArrives(b) \/ TerminalSwitches(b) \/ RemoveBuffer(b) \/ Click(b)
    \/ QueryArrives \/ RenameQueryBuffers \/ Tick
    \/ HandleWebCommand \/ HandleEvent
    \/ WsHandler \/ Subscribe \/ SendSyncInit \/ Resync \/ Forward \/ Drop
    \/ \E t \in {"send", "open"} : Type(t)

Spec == Init /\ [][Next]_webVars

----------------------------------------------------------------------------

Quiet == phase = "live" /\ bus = <<>> /\ ~ lagged /\ down = <<>> /\ up = <<>>

(* In no buffer does the page show a line twice, or after a later one, whatever is fetched and   *)
(* arrives live, lags and is sent again (web-ui state.rs, NewMessage and Messages).              *)
PageKeepsOrder == \A b \in Bufs : \A i, j \in DOMAIN cMsgs[b] : i < j => cMsgs[b][i] < cMsgs[b][j]

(* Until bob changes his nick: when nothing is under way, the page lists exactly the open        *)
(* buffers and shows all lines of the one it is on, whatever was lost, dropped or sent twice.    *)
PageIsComplete ==
    Quiet /\ "q2" \notin seen
          => /\ ToSet(cBufs) = open
             /\ cActive \in open => cMsgs[cActive] = log[cActive]

(* A line goes to the buffer it was typed in (app/web.rs, web_run_command).                      *)
LinesGoWhereTyped == \A i \in DOMAIN wire : wire[i].sent = wire[i].typed

(* When nothing is under way, browser and terminal are on the same buffer (app/web.rs,           *)
(* drain_pending_web_events).                                                                    *)
ScreensAgree == Quiet => cActive = active

(* After a change of nick too the page lists the open buffers.                                   *)
RenamesAreSeen == Quiet => ToSet(cBufs) = open

(* The page lists a buffer once.                                                                 *)
ListedOnce == Quiet => \A i, j \in DOMAIN cBufs : cBufs[i] = cBufs[j] => i = j
=============================================================================
