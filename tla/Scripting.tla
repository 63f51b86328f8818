------------------------------ MODULE Scripting ------------------------------
(***************************************************************************)
(* Lua scripts: loading and unloading them, the handlers, commands and     *)
(* timers they register, and the actions they queue for the main loop      *)
(* (scripting/lua/mod.rs, scripting/engine.rs, app/scripting.rs).          *)
(*                                                                         *)
(* Lua runs on the main loop: `running' is the callback it is in.  What a  *)
(* callback asks of the application goes through the bounded channel       *)
(* `queue', which the timer tasks, on threads of their own, feed as well.  *)
(***************************************************************************)
EXTENDS Integers, Sequences, FiniteSets, Functions

CONSTANTS Scripts, Commands, Priorities,
          QueueCap, MaxHandlers, MaxTimers, MaxCalls    \* the bounds
None == [what |-> "none"]

VARIABLES scripts, handlers, commands, timers,      \* of the engine
          registry,                                 \* the callbacks Lua keeps alive
          tasks, queue, scriptCommands,             \* of the application
          running, left, fired,                     \* the callback, the rest of its event
          calls, ids, nextTimer,                    \* API calls made, ids given out
          retired, gone                             \* handlers turned off or used up, scripts unloaded
vars == <<scripts, handlers, commands, timers, registry, tasks, queue, scriptCommands,
          running, left, fired, calls, ids, nextTimer, retired, gone>>
engine == <<handlers, commands, timers, registry>>
app == <<tasks, queue, scriptCommands>>
emission == <<left, fired>>
counters == <<calls, ids, nextTimer>>

ScriptingAssumption ==
  Priorities \subseteq Int /\ {QueueCap, MaxHandlers, MaxTimers, MaxCalls} \subseteq Nat

Key(kind, x) == <<kind, x>>
With(f, key, value) == [k \in DOMAIN f \cup {key} |-> IF k = key THEN value ELSE f[k]]
(* try_send: what does not fit is lost without a word.                     *)
TrySend(a) == queue' = IF Len(queue) < QueueCap THEN Append(queue, a) ELSE queue
Idle == running = None
Call == running.what \notin {"none", "event"} /\ calls < MaxCalls /\ calls' = calls + 1

Init == /\ scripts = {} /\ handlers = {} /\ commands = <<>> /\ timers = <<>> /\ registry = {}
        /\ tasks = <<>> /\ queue = <<>> /\ scriptCommands = {}
        /\ running = None /\ left = {} /\ fired = {}
        /\ calls = 0 /\ ids = 0 /\ nextTimer = 1 /\ retired = {} /\ gone = {}

-----------------------------------------------------------------------------
(* The API a callback is given.                                            *)

(* The list of handlers is sorted by priority after every insertion, and   *)
(* the sort is stable: it is the set of them, in this order.               *)
Precedes(a, b) == a.priority > b.priority \/ (a.priority = b.priority /\ a.id < b.id)

On(p, once) ==
  /\ Call /\ ids < MaxHandlers /\ ids' = ids + 1
  /\ handlers' = handlers \cup
                   {[id |-> ids, priority |-> p, once |-> once, owner |-> running.owner]}
  /\ registry' = registry \cup {Key("handler", ids)}
  /\ UNCHANGED <<scripts, commands, timers, app, running, emission, nextTimer, retired, gone>>

OffNow(id) == registry \ {Key("handler", id)}
Freed(id) == OffNow(id)
Off(id) ==
  /\ Call /\ \E h \in handlers : h.id = id
  /\ handlers' = {h \in handlers : h.id # id}
  /\ registry' = Freed(id) /\ retired' = retired \cup {id}
  /\ UNCHANGED <<scripts, commands, timers, app, running, emission, ids, nextTimer, gone>>

Command(name) ==
  /\ Call
  /\ commands' = With(commands, name, running.owner)
  /\ TrySend([what |-> "register", name |-> name])
  /\ UNCHANGED <<scripts, handlers, timers, registry, tasks, scriptCommands, running, emission,
                 ids, nextTimer, retired, gone>>
RemoveCommand(name) ==
  /\ Call
  /\ commands' = Restrict(commands, DOMAIN commands \ {name})
  /\ TrySend([what |-> "unregister", name |-> name])
  /\ UNCHANGED <<scripts, handlers, timers, registry, tasks, scriptCommands, running, emission,
                 ids, nextTimer, retired, gone>>

(* api.timer and api.timeout: the record now, the task when the action is handled. *)
StartTimer(repeating) ==
  /\ Call /\ nextTimer <= MaxTimers /\ nextTimer' = nextTimer + 1
  /\ timers' = With(timers, nextTimer, running.owner)
  /\ registry' = registry \cup {Key("timer", nextTimer)}
  /\ TrySend([what |-> "start", id |-> nextTimer, repeating |-> repeating])
  /\ UNCHANGED <<scripts, handlers, commands, tasks, scriptCommands, running, emission, ids, retired, gone>>
CancelTimer(id) ==
  /\ Call /\ id \in 1..(nextTimer - 1)
  /\ TrySend([what |-> "cancel", id |-> id])
  /\ UNCHANGED <<scripts, engine, tasks, scriptCommands, running, emission, ids, nextTimer, retired, gone>>

(* Every other request (say, join, raw, echo, switch, set, ...) leaves this module's state alone, *)
(* but takes its place in the channel.                                                            *)
AskIrc == TrySend([what |-> "irc"])
AskUi == TrySend([what |-> "ui"])
Ask == /\ Call /\ (AskIrc \/ AskUi)
       /\ UNCHANGED <<scripts, engine, tasks, scriptCommands, running, emission, ids, nextTimer, retired, gone>>

-----------------------------------------------------------------------------
(* /script load runs setup(): what it registers stays when it then fails.  *)
LoadScript(s) ==
  /\ Idle /\ s \notin scripts /\ gone' = gone \ {s}
  /\ running' = [what |-> "setup", owner |-> s]
  /\ UNCHANGED <<scripts, engine, app, emission, counters, retired>>
SetupReturns(ok) ==
  /\ running.what = "setup" /\ running' = None
  /\ scripts' = IF ok THEN scripts \cup {running.owner} ELSE scripts
  /\ UNCHANGED <<engine, app, emission, counters, retired, gone>>

(* /script unload: the cleanup function runs first, without the script in the list. *)
Unload(s) ==
  /\ Idle /\ s \in scripts /\ scripts' = scripts \ {s}
  /\ running' = [what |-> "cleanup", owner |-> s]
  /\ UNCHANGED <<engine, app, emission, counters, retired, gone>>
TimersOf(s) == {t \in DOMAIN timers : timers[t] = s}
(* Mutant of Dropped: the timers of the script stay. *)
NoTimersOf(s) == {}
Dropped(s) == TimersOf(s)
CleanupReturns ==
  /\ running.what = "cleanup" /\ running' = None
  /\ LET s == running.owner
         mine == {h.id : h \in {x \in handlers : x.owner = s}} IN
     /\ handlers' = {h \in handlers : h.owner # s}
     /\ commands' = Restrict(commands, {c \in DOMAIN commands : commands[c] # s})
     /\ timers' = Restrict(timers, DOMAIN timers \ Dropped(s))
     /\ registry' = registry \ ({Key("handler", h) : h \in mine} \cup {Key("timer", t) : t \in Dropped(s)})
     /\ gone' = gone \cup {s}
  /\ UNCHANGED <<scripts, app, emission, counters, retired>>

(* An event goes to a snapshot of its handlers, the most urgent first, until one suppresses it. *)
Emit ==
  /\ Idle /\ handlers # {}
  /\ running' = [what |-> "event"] /\ left' = handlers /\ fired' = {}
  /\ UNCHANGED <<scripts, engine, app, counters, retired, gone>>
NextHandler ==
  /\ running.what = "event"
  /\ \E h \in left :
     /\ \A g \in left : ~Precedes(g, h)
     /\ left' = left \ {h}
     /\ fired' = IF h.once THEN fired \cup {h.id} ELSE fired
     /\ running' = IF Key("handler", h.id) \in registry
                   THEN [what |-> "handler", owner |-> h.owner, id |-> h.id, priority |-> h.priority]
                   ELSE running
  /\ UNCHANGED <<scripts, engine, app, counters, retired, gone>>
HandlerReturns(suppress) ==
  /\ running.what = "handler" /\ running' = [what |-> "event"]
  /\ left' = IF suppress THEN {} ELSE left
  /\ UNCHANGED <<scripts, engine, app, fired, counters, retired, gone>>
FiredIds == fired
(* Mutant of UsedUp: one-shot handlers stay when a lasting one is there. *)
FiredToTheEnd == IF \E h \in handlers : ~h.once THEN {} ELSE fired
UsedUp == FiredIds
EmitEnds ==
  /\ running.what = "event" /\ left = {} /\ running' = None
  /\ handlers' = {h \in handlers : h.id \notin UsedUp}
  /\ registry' = registry \ {Key("handler", h) : h \in UsedUp}
  /\ retired' = retired \cup fired /\ fired' = {}
  /\ UNCHANGED <<scripts, commands, timers, app, left, counters, gone>>

HandleCommand(name) ==
  /\ Idle /\ name \in DOMAIN commands
  /\ running' = [what |-> "command", owner |-> commands[name]]
  /\ UNCHANGED <<scripts, engine, app, emission, counters, retired, gone>>
CallbackReturns ==
  /\ running.what \in {"command", "timer"} /\ running' = None
  /\ UNCHANGED <<scripts, engine, app, emission, counters, retired, gone>>

-----------------------------------------------------------------------------
(* The main loop drains the channel; finished tasks are forgotten after a timer fires. *)
HandleScriptAction ==
  /\ Idle /\ queue # <<>> /\ queue' = Tail(queue)
  /\ LET a == Head(queue) IN
     \/ /\ a.what = "register" /\ scriptCommands' = scriptCommands \cup {a.name}
        /\ UNCHANGED <<running, tasks>>
     \/ /\ a.what = "unregister" /\ scriptCommands' = scriptCommands \ {a.name}
        /\ UNCHANGED <<running, tasks>>
     \/ /\ a.what = "start" /\ tasks' = With(tasks, a.id, IF a.repeating THEN "repeating" ELSE "once")
        /\ UNCHANGED <<running, scriptCommands>>
     \/ /\ a.what = "cancel" /\ tasks' = Restrict(tasks, DOMAIN tasks \ {a.id})
        /\ UNCHANGED <<running, scriptCommands>>
     \/ a.what \in {"irc", "ui"} /\ UNCHANGED <<running, tasks, scriptCommands>>
     \/ /\ a.what = "fired"
        /\ running' = IF a.id \in DOMAIN timers
                      THEN [what |-> "timer", owner |-> timers[a.id], id |-> a.id] ELSE running
        /\ tasks' = Restrict(tasks, {t \in DOMAIN tasks : tasks[t] # "finished"})
        /\ UNCHANGED scriptCommands
  /\ UNCHANGED <<scripts, engine, emission, counters, retired, gone>>

(* A task waits for room in the channel; it is aborted while it waits, never after. *)
TimerExpires(t) ==
  /\ tasks[t] \in {"repeating", "once"} /\ Len(queue) < QueueCap
  /\ queue' = Append(queue, [what |-> "fired", id |-> t])
  /\ tasks' = [tasks EXCEPT ![t] = IF @ = "once" THEN "finished" ELSE @]
  /\ UNCHANGED <<scripts, engine, scriptCommands, running, emission, counters, retired, gone>>

ApiCall == \/ Ask
           \/ \E p \in Priorities, once \in BOOLEAN : On(p, once)
           \/ \E id \in 0..(MaxHandlers - 1) : Off(id)
           \/ \E c \in Commands : Command(c) \/ RemoveCommand(c)
           \/ \E r \in BOOLEAN : StartTimer(r)
           \/ \E t \in 1..MaxTimers : CancelTimer(t)
Next == \/ ApiCall
        \/ \E s \in Scripts : LoadScript(s) \/ Unload(s)
        \/ \E b \in BOOLEAN : SetupReturns(b) \/ HandlerReturns(b)
        \/ CleanupReturns \/ Emit \/ NextHandler \/ EmitEnds \/ CallbackReturns
        \/ \E c \in Commands : HandleCommand(c)
        \/ HandleScriptAction
        \/ \E t \in DOMAIN tasks : TimerExpires(t)
Spec == Init /\ [][Next]_vars

-----------------------------------------------------------------------------
TypeOK ==
  /\ scripts \subseteq Scripts /\ gone \subseteq Scripts \ scripts
  /\ \A h \in handlers : h.owner \in Scripts /\ h.priority \in Priorities
  /\ DOMAIN commands \subseteq Commands /\ scriptCommands \subseteq Commands
  /\ Len(queue) <= QueueCap
  /\ DOMAIN tasks \subseteq 1..(nextTimer - 1)
  (* what the engine lists has its callback in Lua's registry, and nothing else is kept there *)
  /\ registry = {Key("handler", h.id) : h \in handlers} \cup {Key("timer", t) : t \in DOMAIN timers}

(* After /script unload nothing of the script runs again, whatever timer had already fired.      *)
UnloadedScriptsAreSilent == ~Idle /\ running.what # "event" => running.owner \notin gone

RetiredHandlersAreSilentStep ==
  running'.what = "handler" /\ running' # running => running'.id \notin retired
(* A handler that was turned off, or a once handler that ran, is not called again: not even by   *)
(* the event that was being delivered when it was turned off.                                    *)
RetiredHandlersAreSilent == [][RetiredHandlersAreSilentStep]_vars

(* Within an event the handlers run from the highest priority to the lowest.                     *)
UrgentFirst == running.what = "handler" => \A h \in left : h.priority <= running.priority

(* Violated by the code: /script unload cleans up the timers of a script (docs/commands/script.md:40). *)
TimersAreCleanedUp ==
  Idle /\ queue = <<>> => \A t \in DOMAIN tasks : tasks[t] = "repeating" => t \in DOMAIN timers
(* Violated by the code: a script that failed to load leaves nothing behind.                     *)
FailedScriptsAreSilent ==
  running.what \in {"handler", "timer", "command"} => running.owner \in scripts
(* Violated by the code: a cancelled timer does not fire again.                                  *)
CancelledTimersAreSilent ==
  [][running'.what = "timer" /\ running # running' => running'.id \in DOMAIN tasks]_vars
(* Violated by the code: the application lists the commands the engine answers.                  *)
CommandsAgree == Idle /\ queue = <<>> => scriptCommands = DOMAIN commands
=============================================================================
