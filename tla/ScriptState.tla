---------------------------- MODULE ScriptState ----------------------------
(***************************************************************************)
(* What Lua scripts know of the application and what they may keep from it *)
(* (src/src/app/scripting.rs, src/src/scripting/engine.rs): the snapshot   *)
(* behind api.store and api.config, which the tick of the main loop renews *)
(* when it is marked dirty, and the messages a script suppresses.  How     *)
(* handlers, commands and timers come and go is in module Scripting.       *)
(***************************************************************************)
EXTENDS Naturals, Sequences, FiniteSets, Functions

CONSTANTS Scripts,     \* in the scripts directory
          Nicks,       \* on one channel
          Buffers, Values,
          Nothing,     \* no value
          QueueCap,    \* of the channel of script actions
          MaxSteps     \* bound

VARIABLES server,      \* who is on the channel, by the server's messages
          users,       \* ... in the nick list
          active,      \* the active buffer
          config,      \* a setting of the configuration
          cachedToml,  \* cached_config_toml
          loaded,      \* the scripts that run
          settings,    \* script_config
          queue,       \* settings on their way to the main loop
          snapshot, dirty,
          steps
vars == <<server, users, active, config, cachedToml, loaded, settings, queue,
          snapshot, dirty, steps>>

ScriptStateAssumption == {QueueCap, MaxSteps} \subseteq Nat

None == [s \in {} |-> Nothing]
Init ==
    /\ server = {} /\ users = {}
    /\ active \in Buffers
    /\ config \in Values /\ cachedToml = Nothing
    /\ loaded = {} /\ settings = None /\ queue = <<>>
    /\ snapshot = [users |-> {}, active |-> Nothing, settings |-> None, config |-> Nothing]
    /\ dirty = TRUE
    /\ steps = 0

Step == steps < MaxSteps /\ steps' = steps + 1

-----------------------------------------------------------------------------
(* A message of the server: scripts see it first.                          *)
Scriptable(kind) == kind # "numeric"   \* emit_irc_to_scripts returns false
StateMutating(kind) == kind \in {"join", "part"}

Members(S, kind, n) == IF kind = "join" THEN S \cup {n}
                       ELSE IF kind = "part" THEN S \ {n} ELSE S

EmitIrcToScripts(kind, suppress) == suppress => loaded # {} /\ Scriptable(kind)

HandleIrcEvent(kind, n, suppress) ==
    /\ Step
    /\ EmitIrcToScripts(kind, suppress)
    /\ server' = Members(server, kind, n)
    /\ users' = IF suppress /\ ~StateMutating(kind) THEN users
                ELSE Members(users, kind, n)
    /\ dirty' = TRUE
    /\ UNCHANGED <<active, config, cachedToml, loaded, settings, queue, snapshot>>

-----------------------------------------------------------------------------
(* A line of the user: /set, a switch of buffers, /script.                 *)
HandleSubmit ==
    /\ Step
    /\ dirty' = TRUE
    /\ UNCHANGED <<server, users, queue, snapshot>>
CmdSet(v) ==
    /\ HandleSubmit
    /\ config' = v /\ cachedToml' = Nothing
    /\ UNCHANGED <<active, loaded, settings>>
CmdSwitch(b) ==
    /\ HandleSubmit
    /\ active' = b
    /\ UNCHANGED <<config, cachedToml, loaded, settings>>

(* /script load, unload, reload and autoload.  A file that fails to load   *)
(* is not loaded, and the old form of a reloaded one is gone by then.      *)
Loaded(S, s, ok) == IF ok THEN S \cup {s} ELSE S
Unloaded(s) == loaded \ {s}
CmdLoad(s, ok) ==
    /\ HandleSubmit
    /\ s \notin loaded
    /\ loaded' = Loaded(loaded, s, ok)
    /\ UNCHANGED <<active, config, cachedToml, settings>>
CmdReload(s, ok) ==
    /\ HandleSubmit
    /\ s \in loaded
    /\ loaded' = Loaded(Unloaded(s), s, ok)
    /\ UNCHANGED <<active, config, cachedToml, settings>>
(* Mutant of Dropped: the settings of every script go.                     *)
AllDropped(s) == None
Dropped(s) == Restrict(settings, DOMAIN settings \ {s})
CmdUnload(s) ==
    /\ HandleSubmit
    /\ s \in loaded
    /\ loaded' = Unloaded(s)
    /\ settings' = Dropped(s)
    /\ UNCHANGED <<active, config, cachedToml>>
AutoloadScripts(S) ==
    /\ HandleSubmit
    /\ loaded' = loaded \cup S
    /\ UNCHANGED <<active, config, cachedToml, settings>>

(* A key, the mouse or the web client change the state as well, and leave  *)
(* no mark; the form of a server forgets the cached configuration.         *)
SwitchByKey(b) ==
    /\ Step
    /\ active' = b
    /\ UNCHANGED <<server, users, config, cachedToml, loaded, settings, queue,
                   snapshot, dirty>>
WizardSave(v) ==
    /\ Step
    /\ config' = v /\ cachedToml' = Nothing
    /\ UNCHANGED <<server, users, active, loaded, settings, queue, snapshot, dirty>>

-----------------------------------------------------------------------------
(* api.config.set asks the main loop; what does not fit is lost.           *)
ConfigSet(s, v) ==
    /\ Step
    /\ s \in loaded
    /\ queue' = IF Len(queue) < QueueCap THEN Append(queue, <<s, v>>) ELSE queue
    /\ UNCHANGED <<server, users, active, config, cachedToml, loaded, settings,
                   snapshot, dirty>>

(* Mutant of Marked: an action of a script leaves no mark.                 *)
MarkedBefore == dirty
Marked == TRUE
HandleScriptAction ==
    /\ queue # <<>>
    /\ queue' = Tail(queue)
    /\ settings' = [s \in DOMAIN settings \cup {Head(queue)[1]} |->
                      IF s = Head(queue)[1] THEN Head(queue)[2] ELSE settings[s]]
    /\ dirty' = Marked
    /\ UNCHANGED <<server, users, active, config, cachedToml, loaded, snapshot, steps>>

Toml == IF cachedToml = Nothing THEN config ELSE cachedToml
ScriptSnapshot ==
    [users |-> users, active |-> active, settings |-> settings, config |-> Toml]
UpdateScriptSnapshot ==
    /\ dirty
    /\ IF loaded = {} THEN UNCHANGED <<snapshot, cachedToml>>
       ELSE /\ cachedToml' = Toml
            /\ snapshot' = ScriptSnapshot
    /\ dirty' = (loaded = {})
    /\ UNCHANGED <<server, users, active, config, loaded, settings, queue, steps>>

Next ==
    \/ \E kind \in {"join", "part", "text", "numeric"}, n \in Nicks, b \in BOOLEAN :
          HandleIrcEvent(kind, n, b)
    \/ \E v \in Values : CmdSet(v) \/ WizardSave(v)
    \/ \E b \in Buffers : CmdSwitch(b) \/ SwitchByKey(b)
    \/ \E s \in Scripts, ok \in BOOLEAN : CmdLoad(s, ok) \/ CmdReload(s, ok)
    \/ \E s \in Scripts : CmdUnload(s)
    \/ \E S \in SUBSET (Scripts \ loaded) : AutoloadScripts(S)
    \/ \E s \in Scripts, v \in Values : ConfigSet(s, v)
    \/ HandleScriptAction \/ UpdateScriptSnapshot

Spec == Init /\ [][Next]_vars

-----------------------------------------------------------------------------
(* What api.store and api.config answer.                                   *)
ActiveBuffer == snapshot.active
BufferNicks == snapshot.users
ConfigGet(s) == IF s \in DOMAIN snapshot.settings THEN snapshot.settings[s] ELSE Nothing
AppConfigGet == snapshot.config

TypeOK ==
    /\ server \subseteq Nicks /\ users \subseteq Nicks /\ active \in Buffers
    /\ config \in Values /\ cachedToml \in Values \cup {Nothing}
    /\ loaded \subseteq Scripts /\ DOMAIN settings \subseteq Scripts
    /\ Len(queue) <= QueueCap /\ dirty \in BOOLEAN

(* Scripts decide what is shown, never who is on a channel.                *)
MembersStayTrue == users = server

(* What is marked reaches the scripts: without a mark they see the nick    *)
(* lists and their settings as they are, also those loaded later than the  *)
(* changes were made.                                                      *)
SnapshotKeepsUp ==
    loaded # {} /\ ~dirty =>
        /\ BufferNicks = users
        /\ \A s \in loaded : s \in DOMAIN settings => ConfigGet(s) = settings[s]

SettingsStayStep ==
  \A s \in DOMAIN settings : s \in loaded' => s \in DOMAIN settings'
(* A script keeps its settings while it is loaded, whatever the others do. *)
SettingsStay == [][SettingsStayStep]_vars

(* Violated: the snapshot is not renewed by the tick after a key, the web  *)
(* client or the form of a server changed the state.                       *)
SnapshotIsATickOld ==
    loaded # {} /\ ~dirty => ActiveBuffer = active /\ AppConfigGet = config

(* Violated: the settings a script asks for last are stored after it was   *)
(* unloaded, and those of one that failed to reload stay.                  *)
SettingsAreCleared == queue = <<>> => DOMAIN settings \subseteq loaded
=============================================================================
