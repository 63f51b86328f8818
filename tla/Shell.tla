------------------------------- MODULE Shell --------------------------------
(***************************************************************************)
(* Embedded shells: the sessions of the terminal, each with a buffer of its*)
(* own, the keys that are forwarded to them, and the one session of each   *)
(* web page whose screen is broadcast at most every 100 ms.                *)
(***************************************************************************)
EXTENDS Naturals, FiniteSets, Sequences

CONSTANTS Names,              \* of shell buffers
          Pages,              \* web pages (one websocket each)
          Others,             \* chat buffers
          MAX_WEB_SESSIONS,
          MaxShells, MaxSteps, MaxOutput \* bounds

VARIABLES sessions,           \* of the terminal: id -> its buffer
          buffers, active,    \* shell buffers and Header; the selected buffer
          shellInputActive,
          typed,              \* session -> buffers in which a key for it was typed
          webSessions,        \* pages with a session
          webActive,          \* page -> what it shows: "chat", "shell", "gone"
          version, seen,      \* of a page's screen: as it is, as it was last broadcast
          alive,              \* readers whose process runs: ids and pages
          queue,              \* ShellEvents under way to the main loop
          pending, recent,    \* shell_broadcast_pending; a broadcast in the last 100 ms
          displaced,          \* history: pages that waited and lost the place to another's output
          nextId, steps
tui == <<sessions, buffers, active, shellInputActive, typed, nextId>>
web == <<webSessions, webActive, version, seen, pending, recent, displaced>>
vars == <<tui, web, alive, queue, steps>>

Header == "Shell"
ShellAssumption ==
  /\ \A n \in {MAX_WEB_SESSIONS, MaxShells, MaxSteps, MaxOutput} : n \in Nat
  /\ "none" \notin Pages /\ Header \notin Names /\ Others \cap (Names \cup {Header}) = {}
Ids == 1..MaxShells
Event(k, id) == [kind |-> k, id |-> id]

TypeOK ==
  /\ DOMAIN sessions \subseteq Ids /\ \A i \in DOMAIN sessions : sessions[i] \in Names
  /\ buffers \subseteq Names \cup {Header} /\ active \in Others \cup buffers
  /\ shellInputActive \in BOOLEAN /\ \A i \in Ids : typed[i] \subseteq Others \cup Names \cup {Header}
  /\ webSessions \subseteq Pages /\ Cardinality(webSessions) <= MAX_WEB_SESSIONS
  /\ webActive \in [Pages -> {"chat", "shell", "gone"}]
  /\ version \in [Pages -> 0..MaxOutput] /\ \A p \in Pages : seen[p] <= version[p]
  /\ alive.tui \subseteq Ids /\ alive.web \subseteq Pages
  /\ pending \in Pages \cup {"none"} /\ recent \in BOOLEAN /\ displaced \subseteq Pages
  /\ nextId \in 1..(MaxShells + 1) /\ steps \in 0..MaxSteps

Init ==
  /\ sessions = << >> /\ buffers = {} /\ active \in Others /\ shellInputActive = FALSE
  /\ typed = [i \in Ids |-> {}] /\ nextId = 1
  /\ webSessions = {} /\ webActive = [p \in Pages |-> "chat"]
  /\ version = [p \in Pages |-> 0] /\ seen = [p \in Pages |-> 0]
  /\ alive = [tui |-> {}, web |-> {}] /\ queue = << >>
  /\ pending = "none" /\ recent = FALSE /\ displaced = {} /\ steps = 0

Step == steps < MaxSteps /\ steps' = steps + 1
-----------------------------------------------------------------------------
(* The terminal.                                                                                   *)
IsShell(b) == b \in Names
WithSession(i, b) == [x \in DOMAIN sessions \cup {i} |-> IF x = i THEN b ELSE sessions[x]]
FreeName(n) == n \notin buffers
ShellOpen(n) ==
  /\ Step /\ nextId <= MaxShells /\ FreeName(n)
  /\ sessions' = WithSession(nextId, n) /\ nextId' = nextId + 1
  /\ buffers' = buffers \cup {n, Header} /\ active' = n /\ shellInputActive' = TRUE
  /\ alive' = [alive EXCEPT !.tui = @ \cup {nextId}]
  /\ UNCHANGED <<typed, queue>> /\ UNCHANGED web
(* The program does not start: the connection and its header were made already.                    *)
ShellOpenFails ==
  /\ Step /\ buffers' = buffers \cup {Header}
  /\ UNCHANGED <<sessions, active, shellInputActive, typed, nextId, alive, queue>> /\ UNCHANGED web

(* Buffer b goes, with the sessions of ids; the header goes with the last session.  Selected next  *)
(* is any buffer left.                                                                             *)
FallBack(B) == IF active \in B THEN {active} ELSE B
Removed(ids, b) ==
  /\ sessions' = [x \in DOMAIN sessions \ ids |-> sessions[x]]
  /\ buffers' = (IF DOMAIN sessions \ ids = {} THEN buffers \ {b, Header} ELSE buffers \ {b})
  /\ active' \in FallBack(buffers' \cup Others)
OfActive == {i \in DOMAIN sessions : sessions[i] = active}
CloseShellBuffer ==
  /\ Step /\ IsShell(active)
  /\ LET ended == OfActive \cap alive.tui IN
     /\ Removed(OfActive, active) /\ alive' = [alive EXCEPT !.tui = @ \ OfActive]
     /\ queue' = queue \o [k \in 1..Cardinality(ended) |-> Event("exited", CHOOSE i \in ended : TRUE)]
  /\ shellInputActive' = (shellInputActive /\ DOMAIN sessions' # {})
  /\ UNCHANGED <<typed, nextId>> /\ UNCHANGED web

(* Keys go to the session of the active buffer while a shell is being typed into.                  *)
(* Mutant of Receives: keys go to the shell opened last. *)
LastOpened == {nextId - 1} \cap DOMAIN sessions
Receives == OfActive
ForwardKeyToShell ==
  /\ Step /\ shellInputActive
  /\ typed' = [i \in Ids |-> IF i \in Receives THEN typed[i] \cup {active} ELSE typed[i]]
  /\ UNCHANGED <<sessions, buffers, active, shellInputActive, nextId, alive, queue>>
  /\ UNCHANGED web
LeaveShellInput ==
  /\ shellInputActive /\ shellInputActive' = FALSE
  /\ UNCHANGED <<sessions, buffers, active, typed, nextId, alive, queue, steps>> /\ UNCHANGED web

(* The user selects a buffer; a joined channel, a new connection, a script or a web page selects   *)
(* one without asking.                                                                             *)
Switch(b) ==
  /\ Step /\ b # active /\ active' = b /\ shellInputActive' = IsShell(b)
  /\ UNCHANGED <<sessions, buffers, typed, nextId, alive, queue>> /\ UNCHANGED web
SwitchedByOthers(b) ==
  /\ Step /\ b # active /\ b \in Others /\ active' = b
  /\ UNCHANGED <<sessions, buffers, shellInputActive, typed, nextId, alive, queue>>
  /\ UNCHANGED web
-----------------------------------------------------------------------------
(* Processes: a reader thread reports output, and at last that the process has ended.              *)
ProcessWrites(p) ==
  /\ p \in alive.web /\ version[p] < MaxOutput
  /\ queue' = Append(queue, Event("output", p))
  /\ \A k \in 1..Len(queue) : queue[k].kind = "output" => queue[k].id # p
  /\ UNCHANGED <<alive, steps>> /\ UNCHANGED tui /\ UNCHANGED web
ProcessEnds(i) ==
  /\ Step /\ i \in alive.tui /\ alive' = [alive EXCEPT !.tui = @ \ {i}]
  /\ queue' = Append(queue, Event("exited", i))
  /\ UNCHANGED tui /\ UNCHANGED web
WebProcessEnds(p) ==
  /\ Step /\ p \in alive.web /\ alive' = [alive EXCEPT !.web = @ \ {p}]
  /\ queue' = Append(queue, Event("exitedWeb", p))
  /\ UNCHANGED tui /\ UNCHANGED web
-----------------------------------------------------------------------------
(* A web page: its shell starts with the first size it reports while a shell is its active buffer. *)
Broadcast(p, v, waited) ==
  /\ recent' = TRUE
  /\ seen' = IF webActive[p] = "shell" THEN [seen EXCEPT ![p] = v] ELSE seen
  /\ displaced' = (displaced \cup waited) \ {p}
ShellResize(p) ==
  /\ Step /\ webActive[p] = "shell"
  /\ IF p \in webSessions THEN UNCHANGED <<webSessions, alive>>
     ELSE /\ Cardinality(webSessions) < MAX_WEB_SESSIONS
          /\ webSessions' = webSessions \cup {p} /\ alive' = [alive EXCEPT !.web = @ \cup {p}]
  /\ Broadcast(p, version[p], {})
  /\ UNCHANGED <<webActive, version, pending, queue>> /\ UNCHANGED tui
SwitchBuffer(p, shell) ==
  /\ Step /\ webActive[p] \notin {shell, "gone"} /\ webActive' = [webActive EXCEPT ![p] = shell]
  /\ IF p \in webSessions
     THEN /\ recent' = TRUE /\ seen' = IF shell = "shell" THEN [seen EXCEPT ![p] = version[p]] ELSE seen
          /\ displaced' = displaced \ {p}
     ELSE UNCHANGED <<recent, seen, displaced>>
  /\ UNCHANGED <<webSessions, version, pending, alive, queue>> /\ UNCHANGED tui
(* The page goes: its shell is killed.  Its next connection is a page of another name.             *)
WebDisconnect(p) ==
  /\ Step /\ webActive[p] # "gone" /\ webActive' = [webActive EXCEPT ![p] = "gone"]
  /\ webSessions' = webSessions \ {p} /\ alive' = [alive EXCEPT !.web = @ \ {p}]
  /\ queue' = IF p \in alive.web THEN Append(queue, Event("exitedWeb", p)) ELSE queue
  /\ UNCHANGED <<version, seen, pending, recent, displaced>> /\ UNCHANGED tui

(* handle_shell_event.  Output within 100 ms of a broadcast waits.  There is room for one page:    *)
(* whichever page it is, its output takes the place of the one that waited.                        *)
Throttled(p) == IF recent THEN p ELSE "none"
Waits(p) == Throttled(p)
OutputWeb(p) ==
  /\ IF p \in webSessions
     THEN /\ version' = [version EXCEPT ![p] = @ + 1] /\ pending' = Waits(p)
          /\ IF recent
             THEN /\ displaced' = (displaced \cup ({pending} \ {"none"})) \ {p}
                  /\ UNCHANGED <<recent, seen>>
             ELSE Broadcast(p, version'[p], {pending} \ {"none"})
     ELSE UNCHANGED <<version, pending, recent, seen, displaced>>
  /\ UNCHANGED <<webSessions, webActive, alive>> /\ UNCHANGED tui
ExitedWeb(p) ==
  /\ webSessions' = webSessions \ {p} /\ UNCHANGED <<webActive, version, seen, pending, recent, displaced>>
  /\ UNCHANGED alive /\ UNCHANGED tui
Exited(i) ==
  /\ IF i \in DOMAIN sessions
     THEN /\ Removed({i}, sessions[i])
          /\ shellInputActive' = (shellInputActive /\ IsShell(active') /\ DOMAIN sessions' # {})
     ELSE UNCHANGED <<sessions, buffers, active, shellInputActive>>
  /\ UNCHANGED <<typed, nextId, alive>> /\ UNCHANGED web
(* Mutant of Ended: nothing is done when a shell exits. *)
ExitIgnored(i) == UNCHANGED alive /\ UNCHANGED tui /\ UNCHANGED web
Ended(i) == Exited(i)
HandleShellEvent ==
  /\ queue # << >> /\ queue' = Tail(queue) /\ steps' = steps
  /\ LET e == Head(queue) IN
     \/ e.kind = "exited" /\ Ended(e.id)
     \/ e.kind = "output" /\ OutputWeb(e.id)
     \/ e.kind = "exitedWeb" /\ ExitedWeb(e.id)

(* 100 ms later another broadcast may be made; 150 ms after the last event the waiting page is     *)
(* served.                                                                                         *)
Later == recent /\ recent' = FALSE
         /\ UNCHANGED <<webSessions, webActive, version, seen, pending, displaced, alive, queue, steps>>
         /\ UNCHANGED tui
ServePending ==
  /\ pending # "none" /\ pending' = "none"
  /\ recent' = (recent \/ pending \in webSessions) /\ displaced' = displaced \ {pending}
  /\ seen' = IF pending \in webSessions /\ webActive[pending] = "shell"
             THEN [seen EXCEPT ![pending] = version[pending]] ELSE seen
  /\ UNCHANGED <<webSessions, webActive, version, alive, queue, steps>> /\ UNCHANGED tui

Next ==
  \/ \E n \in Names : ShellOpen(n)
  \/ ShellOpenFails \/ CloseShellBuffer \/ ForwardKeyToShell \/ LeaveShellInput
  \/ \E b \in buffers \cup Others : Switch(b) \/ SwitchedByOthers(b)
  \/ \E p \in Pages : \/ ProcessWrites(p) \/ ShellResize(p)
                      \/ WebProcessEnds(p) \/ WebDisconnect(p)
                      \/ \E s \in {"chat", "shell"} : SwitchBuffer(p, s)
  \/ \E i \in alive.tui : ProcessEnds(i)
  \/ HandleShellEvent \/ Later \/ ServePending
Spec == Init /\ [][Next]_vars
FairSpec == Spec /\ WF_vars(HandleShellEvent) /\ WF_vars(ServePending) /\ WF_vars(Later)
-----------------------------------------------------------------------------
(* Each session has a buffer of its own and each shell buffer a session, through closing, exits    *)
(* reported late and shells of the same name.                                                      *)
SessionsHaveBuffers ==
  /\ \A i, j \in DOMAIN sessions : sessions[i] = sessions[j] => i = j
  /\ {sessions[i] : i \in DOMAIN sessions} = buffers \cap Names
  /\ DOMAIN sessions # {} => Header \in buffers

(* A shell is sent only keys typed while its own buffer was shown.                                 *)
KeysReachTheirShell ==
  \A i \in DOMAIN sessions : typed[i] \subseteq {sessions[i]}

(* The buffer of a shell that ended goes away.                                                     *)
EndedShellsGo == \A i \in Ids : i \in DOMAIN sessions /\ i \notin alive.tui ~> i \notin DOMAIN sessions

(* Every page sees its screen as it is now, if its output pauses and it keeps looking, or waited   *)
(* for the broadcast and lost its place to the output of another page.                             *)
ScreensCatchUp ==
  \A p \in Pages :
    p \in webSessions /\ webActive[p] = "shell" /\ seen[p] # version[p]
      ~> (\/ p \notin webSessions \/ webActive[p] # "shell" \/ seen[p] = version[p]
          \/ p \in displaced)

(* The code does not give these: a shell closed while another runs, or a channel joined meanwhile, *)
(* leaves keys swallowed that no shell gets; a shell that failed to start leaves its header.       *)
KeysAreNotSwallowed == shellInputActive => IsShell(active)
HeaderGoesWithTheLast == Header \in buffers => DOMAIN sessions # {}
=============================================================================
