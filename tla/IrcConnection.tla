---------------------------- MODULE IrcConnection ----------------------------
(***************************************************************************)
(* The life of one IRC connection id in the client: the Connection record, *)
(* the irc_handles entry, the tasks that dial, register and read, and the  *)
(* events they send to the main loop (src/app/irc.rs, src/irc/mod.rs,      *)
(* src/irc/events.rs, src/commands/handlers_irc.rs and handlers_ui.rs).    *)
(*                                                                         *)
(* Every attempt runs in a task of its own, whose events reach the main    *)
(* loop in the order it sent them and interleave freely with those of      *)
(* other tasks.  Nothing in an event says which attempt it came from.      *)
(***************************************************************************)
EXTENDS Naturals, Sequences, FiniteSets

CONSTANTS Tasks,        \* task slots, reused once an attempt has been forgotten
          NoTask,       \* no handle
          AutoReconnect,\* auto_reconnect of the server's configuration
          Impatient,    \* may the user /connect while an attempt is under way?
          MaxRetries,   \* reconnect_max_retries; attempts are counted up to one more
          MaxUserSteps  \* bound on the commands

ASSUME ConnectionAssumption ==
  /\ NoTask \notin Tasks
  /\ AutoReconnect \in BOOLEAN /\ Impatient \in BOOLEAN
  /\ MaxRetries \in Nat /\ MaxUserSteps \in Nat

VARIABLES
  status,    \* Connection.status, "none" when there is no Connection
  should,    \* Connection.should_reconnect
  timer,     \* Connection.next_reconnect: "none", "waiting" or "due"
  attempts,  \* Connection.reconnect_attempts
  handle,    \* the task whose sender irc_handles holds, or NoTask
  task,      \* stage of each task's attempt
  quitting,  \* tasks on whose connection a QUIT was sent
  muted,     \* tasks whose outgoing half was aborted
  events,    \* per task, events on their way to the main loop
  offline,   \* history: the last command was /disconnect
  userSteps  \* commands so far

record == <<status, should, timer, attempts>>
vars == <<status, should, timer, attempts, handle, task, quitting, muted,
          events, offline, userSteps>>

Statuses == {"none", "Connecting", "Connected", "Disconnected", "Error"}
Stages   == {"free", "dialing", "registering", "up", "ended"}
IrcEvents == {"HandleReady", "Connected", "ERROR", "Disconnected", "Failed"}

(* Types of every variable. *)
TypeOK ==
  /\ status \in Statuses
  /\ should \in BOOLEAN
  /\ timer \in {"none", "waiting", "due"}
  /\ attempts \in 0 .. MaxRetries + 1
  /\ handle \in Tasks \cup {NoTask}
  /\ task \in [Tasks -> Stages]
  /\ quitting \in SUBSET Tasks
  /\ muted \in SUBSET Tasks
  /\ events \in [Tasks -> Seq(IrcEvents)]
  /\ \A t \in Tasks : Len(events[t]) <= 4
  /\ offline \in BOOLEAN
  /\ userSteps \in 0 .. MaxUserSteps

Init ==
  /\ status = "none" /\ should = FALSE /\ timer = "none" /\ attempts = 0
  /\ handle = NoTask
  /\ task = [t \in Tasks |-> "free"]
  /\ quitting = {} /\ muted = {}
  /\ events = [t \in Tasks |-> <<>>]
  /\ offline = FALSE
  /\ userSteps = 0

-----------------------------------------------------------------------------
(* A task: connect_server, then its reader.  The stream may end at any     *)
(* stage, with or without an ERROR line and an I/O error.                  *)
Live(t) == task[t] \in {"dialing", "registering", "up"}
HasSession(t) == task[t] \in {"registering", "up"}
Forgotten(t) == ~Live(t) /\ events[t] = <<>>

Emit(t, evs) == events' = [events EXCEPT ![t] = @ \o evs]
TaskStep(t, stage, evs) ==
  /\ task' = [task EXCEPT ![t] = stage]
  /\ Emit(t, evs)
  /\ UNCHANGED <<record, handle, quitting, muted, offline, userSteps>>

DialFails(t) == task[t] = "dialing" /\ TaskStep(t, "ended", <<"Failed">>)
DialSucceeds(t) == task[t] = "dialing" /\ TaskStep(t, "registering", <<"HandleReady">>)
Welcomed(t) == task[t] = "registering" /\ TaskStep(t, "up", <<"Connected">>)
StreamEnds(t) ==
  /\ HasSession(t)
  /\ \E errorLine \in {<<>>, <<"ERROR">>}, last \in {"Disconnected", "Failed"} :
       TaskStep(t, "ended", errorLine \o <<last>>)

(* A new attempt in the lowest free slot.                                  *)
Spawn ==
  \E t \in Tasks :
    /\ Forgotten(t)
    /\ task' = [task EXCEPT ![t] = "dialing"]
    /\ quitting' = quitting \ {t} /\ muted' = muted \ {t}

-----------------------------------------------------------------------------
(* The main loop handles one event.                                        *)

(* The handle is replaced, whichever attempt it belonged to.               *)
HandleReady(t) ==
  /\ handle' = t
  /\ UNCHANGED <<record, muted>>

HandleConnected ==
  /\ IF status # "none"
     THEN status' = "Connected" /\ attempts' = 0 /\ timer' = "none"
     ELSE UNCHANGED <<status, attempts, timer>>
  /\ UNCHANGED <<should, handle, muted>>

HandleError ==
  /\ status' = IF status # "none" THEN "Error" ELSE status
  /\ UNCHANGED <<should, timer, attempts, handle, muted>>

Unmake == muted' = muted \cup ({handle} \ {NoTask}) /\ handle' = NoTask
Ended(last) == IF last = "Failed" THEN "Error" ELSE "Disconnected"
(* Mutants of HandleDisconnected: no reconnect after a clean end; the      *)
(* handle stays.                                                           *)
HandleDisconnectedCleanIsFinal(last) ==
  /\ IF status # "none"
     THEN /\ status' = Ended(last)
          /\ timer' = IF should /\ last = "Failed" THEN "waiting" ELSE timer
     ELSE UNCHANGED <<status, timer>>
  /\ Unmake
  /\ UNCHANGED <<should, attempts>>
HandleDisconnectedKeepingHandle(last) ==
  /\ IF status # "none"
     THEN status' = Ended(last) /\ timer' = IF should THEN "waiting" ELSE timer
     ELSE UNCHANGED <<status, timer>>
  /\ UNCHANGED <<should, attempts, handle, muted>>
(* Disconnected with or without an error: the reconnect is scheduled, and  *)
(* the handle is removed with its outgoing half, whoever holds it.         *)
HandleDisconnected(last) ==
  /\ IF status # "none"
     THEN status' = Ended(last) /\ timer' = IF should THEN "waiting" ELSE timer
     ELSE UNCHANGED <<status, timer>>
  /\ Unmake
  /\ UNCHANGED <<should, attempts>>

HandleEvent(t) ==
  /\ events[t] # <<>>
  /\ LET e == Head(events[t]) IN
       \/ e = "HandleReady" /\ HandleReady(t)
       \/ e = "Connected" /\ HandleConnected
       \/ e = "ERROR" /\ HandleError
       \/ e \in {"Disconnected", "Failed"} /\ HandleDisconnected(e)
  /\ events' = [events EXCEPT ![t] = Tail(@)]
  /\ UNCHANGED <<task, quitting, offline, userSteps>>

TimerExpires ==
  /\ timer = "waiting" /\ timer' = "due"
  /\ UNCHANGED <<status, should, attempts, handle, task, quitting, muted,
                 events, offline, userSteps>>

(* Mutant of CheckReconnects: a single retry.                              *)
CheckReconnectsOnce ==
  /\ status \in {"Disconnected", "Error"}
  /\ should /\ timer = "due" /\ handle = NoTask
  /\ attempts = 0 /\ attempts' = 1
  /\ timer' = "none"
  /\ status' = "Connecting"
  /\ Spawn
  /\ UNCHANGED <<should, handle, events, offline, userSteps>>
(* check_reconnects, on the one-second tick.                               *)
CheckReconnects ==
  /\ status \in {"Disconnected", "Error"}
  /\ should /\ timer = "due" /\ handle = NoTask
  /\ attempts' = IF attempts <= MaxRetries THEN attempts + 1 ELSE attempts
  /\ timer' = "none"
  /\ status' = "Connecting"
  /\ Spawn
  /\ UNCHANGED <<should, handle, events, offline, userSteps>>

-----------------------------------------------------------------------------
(* Commands.                                                               *)

(* Mutant of Connect: the handle is not looked at.                         *)
ConnectAgain ==
  /\ ~Impatient => status # "Connecting"
  /\ status' = "Connecting" /\ should' = AutoReconnect
  /\ timer' = "none" /\ attempts' = 0
  /\ Spawn
  /\ offline' = FALSE
  /\ UNCHANGED <<handle, events>>
(* /connect, and the autoconnect at start: a fresh Connection.             *)
Connect ==
  /\ handle = NoTask
  /\ ~Impatient => status # "Connecting"
  /\ status' = "Connecting" /\ should' = AutoReconnect
  /\ timer' = "none" /\ attempts' = 0
  /\ Spawn
  /\ offline' = FALSE
  /\ UNCHANGED <<handle, events>>

(* Mutant of Disconnect: only the timer is reset.                          *)
DisconnectKeepingFlag ==
  /\ status # "none"
  /\ timer' = "none"
  /\ quitting' = quitting \cup ({handle} \ {NoTask})
  /\ offline' = TRUE
  /\ UNCHANGED <<status, should, attempts, handle, task, muted, events>>
(* /disconnect: QUIT goes out if there is a handle; the record and the     *)
(* handle stay until the stream ends.                                      *)
Disconnect ==
  /\ status # "none"
  /\ should' = FALSE /\ timer' = "none"
  /\ quitting' = quitting \cup ({handle} \ {NoTask})
  /\ offline' = TRUE
  /\ UNCHANGED <<status, attempts, handle, task, muted, events>>

(* Mutant of Close: the status is not looked at.                           *)
CloseAnyway ==
  /\ status # "none"
  /\ status' = "none" /\ should' = FALSE /\ timer' = "none" /\ attempts' = 0
  /\ UNCHANGED <<handle, task, quitting, muted, events, offline>>
(* /close of the server buffer forgets the Connection, not the handle.     *)
Close ==
  /\ status \in {"Disconnected", "Error"}
  /\ status' = "none" /\ should' = FALSE /\ timer' = "none" /\ attempts' = 0
  /\ UNCHANGED <<handle, task, quitting, muted, events, offline>>

UserStep ==
  /\ userSteps < MaxUserSteps
  /\ userSteps' = userSteps + 1
  /\ Connect \/ Disconnect \/ Close

TaskNext(t) ==
  DialFails(t) \/ DialSucceeds(t) \/ Welcomed(t) \/ StreamEnds(t) \/ HandleEvent(t)
Next == \/ \E t \in Tasks : TaskNext(t)
        \/ TimerExpires \/ CheckReconnects \/ UserStep
Spec == Init /\ [][Next]_vars

(* The main loop drains its channel and ticks every second; dialling comes *)
(* to an end; a server closes a connection that has sent QUIT or that no   *)
(* longer answers its PINGs; and the network is not down for ever.  Nobody *)
(* has to type a command.                                                  *)
Doomed(t) == t \in quitting \cup muted
MainLoop == /\ \A t \in Tasks : WF_vars(HandleEvent(t))
            /\ WF_vars(TimerExpires) /\ WF_vars(CheckReconnects)
Network  == \A t \in Tasks : /\ SF_vars(DialSucceeds(t))
                             /\ SF_vars(Welcomed(t))
                             /\ WF_vars(Doomed(t) /\ StreamEnds(t))
FairSpec == Spec /\ MainLoop /\ Network

-----------------------------------------------------------------------------
(* A handle in irc_handles is that of an attempt still running, or one     *)
(* whose end is already on its way to the main loop: a dead handle is      *)
(* never left behind, whatever overtakes what.                             *)
Ends == {"Disconnected", "Failed"}
HandleIsNotStale ==
  handle # NoTask =>
    HasSession(handle) \/ \E i \in 1 .. Len(events[handle]) : events[handle][i] \in Ends

(* With auto-reconnect on, a connection is never given up: when nothing is *)
(* running and nothing is on its way, the timer is.                        *)
NeverStuck ==
  status # "none" /\ should /\ (\A t \in Tasks : Forgotten(t)) => timer # "none"

(* After /disconnect nothing dials until the user says /connect.           *)
OfflineMeansNoDialing ==
  [][offline /\ offline' =>
       \A t \in Tasks : task'[t] = "dialing" => task[t] = "dialing"]_vars

(* For a patient user there is one attempt or session at a time, and a     *)
(* connection shown as Connected can be written to.                        *)
AtMostOneSession == Cardinality({t \in Tasks : Live(t)}) <= 1
ConnectedIsUsable == status = "Connected" => handle # NoTask
OneUsableSession == AtMostOneSession /\ ConnectedIsUsable

(* "Disable auto-reconnect when user explicitly disconnects" and           *)
(* "disconnects from the server": nothing brings the connection up again.  *)
DisconnectIsFinal ==
  [][offline /\ offline' /\ status' = "Connected" => status = "Connected"]_vars

(* "Maximum reconnect attempts".                                           *)
RetriesAreBounded == attempts <= MaxRetries

(* With auto-reconnect on, the connection is up and usable again and again *)
(* until the user turns it off or closes it.                               *)
Online == status = "Connected" /\ handle # NoTask
ComesBack ==
  (status # "none" /\ should) ~> (Online \/ ~should \/ status = "none")

(* For a patient user the connection is the link its user was promised.    *)
Phase == CASE status = "none" -> "none"
           [] status = "Connecting" -> "dialing"
           [] status = "Connected" /\ handle # NoTask -> "online"
           [] OTHER -> "offline"
Link == INSTANCE ServerLink WITH phase <- Phase, wanted <- should
LinkSpec == Link!Spec
=============================================================================
