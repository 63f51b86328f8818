--------------------------- MODULE Configuration ---------------------------
(* The configuration and its copies: app.config in memory, config.toml, the credentials in .env,
   and what the running program derived from it (AppState, the DCC manager, the web server).
   Commands: /set (settings.rs), /flood, /ignore, /unignore, /reload, /server add and remove, the
   server wizard of the terminal and of the web page (handlers_admin.rs, app/input.rs,
   app/web.rs, wizard/server.rs), and a restart.
   Four settings stand for their kinds: "scrollback" for those /set and /reload copy at once,
   "dcc" for those only /set copies, "web" for those that restart the web server, "ignores" for
   the ignore list.  Values are numbers; a credential 0 is none.  Writing a file may fail, at
   most MaxFaults times. *)
EXTENDS Naturals, FiniteSets

CONSTANTS ServerIds,  \* the names of servers the user chooses
          MaxValue, MaxFaults, MaxCommands

ConfigurationAssumption == {MaxValue, MaxFaults, MaxCommands} \subseteq Nat

VARIABLES mem,       \* app.config: setting -> value
          servers,   \* app.config.servers: the credential of every server
          webPass,   \* app.config.web.password
          disk,      \* config.toml: setting -> value, and the servers without credentials
          diskServers,
          env,       \* .env: key -> value
          runtime,   \* the copies in use
          restartPending,
          wizard,    \* the open server wizard: "closed", "add" or the server it edits
          reloaded, faults, commands,
          chosen,    \* the web password last chosen with /set, 0 if none
          saved      \* the servers an open add wizard has put into the configuration

configVars == <<mem, servers, webPass, disk, diskServers, env, runtime, restartPending, wizard,
                reloaded, faults, commands, chosen, saved>>

Settings == {"scrollback", "dcc", "web", "ignores"}
Values == 0..MaxValue
NewIds == {"net", "net2"}            \* the id of a new server and the one used when it is taken
Ids == ServerIds \cup NewIds
PasswordKey(id) == id                \* <ID>_PASSWORD; the server "web" has the key of the web password
EnvKeys == Ids \cup {"web"}

TypeOK ==
    /\ mem \in [Settings -> Values] /\ disk \in [Settings -> Values] /\ runtime \in [Settings -> Values]
    /\ DOMAIN servers \subseteq Ids /\ \A id \in DOMAIN servers : servers[id] \in Values
    /\ webPass \in Values /\ diskServers \subseteq Ids /\ env \in [EnvKeys -> Values]
    /\ restartPending \in BOOLEAN /\ wizard \in {"closed", "add"} \cup Ids

Init ==
    /\ mem = [s \in Settings |-> 0] /\ disk = mem /\ runtime = mem
    /\ servers = [id \in {} |-> 0] /\ diskServers = {}
    /\ env = [k \in EnvKeys |-> 0] /\ webPass = 0
    /\ restartPending = FALSE /\ wizard = "closed" /\ reloaded = FALSE
    /\ faults = 0 /\ commands = 0 /\ chosen = 0 /\ saved = {}

Command == commands < MaxCommands /\ commands' = commands + 1
With(f, key, value) == [k \in DOMAIN f \cup {key} |-> IF k = key THEN value ELSE f[k]]
Without(f, key) == [k \in DOMAIN f \ {key} |-> f[k]]

\* save_config writes the whole configuration, or fails
SaveConfig(ok) ==
    IF ok THEN disk' = mem' /\ diskServers' = DOMAIN servers' /\ UNCHANGED faults
    ELSE faults < MaxFaults /\ faults' = faults + 1 /\ UNCHANGED <<disk, diskServers>>

\* set_env_value and remove_env_value
WriteEnv(key, value) == env' = [env EXCEPT ![key] = value]

----------------------------------------------------------------------------
(* Settings. *)

\* the copies /set brings up to date
CopiedBySet(setting, value) == IF setting \in {"scrollback", "dcc"} THEN With(runtime, setting, value) ELSE runtime

\* a value that does not parse changes nothing and is not a step
CmdSet(setting, value, ok) ==
    /\ Command /\ setting # "ignores"
    /\ mem' = [mem EXCEPT ![setting] = value]
    /\ runtime' = CopiedBySet(setting, value)
    /\ restartPending' = (restartPending \/ setting = "web")
    /\ UNCHANGED servers /\ SaveConfig(ok)
    /\ UNCHANGED <<webPass, env, wizard, reloaded, chosen, saved>>

CmdSetWebPassword(value, ok) ==
    /\ Command /\ value > 0
    /\ webPass' = value /\ chosen' = value /\ restartPending' = TRUE
    /\ WriteEnv(PasswordKey("web"), value)
    /\ UNCHANGED <<mem, servers>> /\ SaveConfig(ok)
    /\ UNCHANGED <<runtime, wizard, reloaded, saved>>

CmdFlood(value, ok) ==
    /\ Command
    /\ mem' = [mem EXCEPT !["scrollback"] = value]
    /\ runtime' = With(runtime, "scrollback", value)
    /\ UNCHANGED servers /\ SaveConfig(ok)
    /\ UNCHANGED <<webPass, env, restartPending, wizard, reloaded, chosen, saved>>

\* /ignore and /unignore change the configuration and the file
CmdIgnore(value, ok) ==
    /\ Command
    /\ mem' = [mem EXCEPT !["ignores"] = value]
    /\ UNCHANGED servers /\ SaveConfig(ok)
    /\ UNCHANGED <<webPass, env, runtime, restartPending, wizard, reloaded, chosen, saved>>

\* apply_credentials: .env wins where it has a value
Credential(id, old) == IF env[PasswordKey(id)] > 0 THEN env[PasswordKey(id)] ELSE old

CopiedByReload == [s \in Settings |-> IF s \in {"scrollback", "ignores"} THEN mem'[s] ELSE runtime[s]]
CmdReload(envOk) ==
    /\ Command
    /\ mem' = disk
    /\ servers' = [id \in diskServers |-> IF envOk THEN Credential(id, 0) ELSE 0]
    /\ webPass' = IF envOk THEN env[PasswordKey("web")] ELSE 0
    /\ IF envOk THEN UNCHANGED faults ELSE faults < MaxFaults /\ faults' = faults + 1
    /\ runtime' = CopiedByReload
    /\ wizard' = "closed" /\ saved' = {} /\ reloaded' = TRUE
    /\ UNCHANGED <<disk, diskServers, env, restartPending, chosen>>

\* the user's editor
EditFile(setting, value) ==
    /\ Command /\ disk' = [disk EXCEPT ![setting] = value] /\ disk' # disk
    /\ UNCHANGED <<mem, servers, webPass, diskServers, env, runtime, restartPending, wizard, reloaded,
                   faults, chosen, saved>>

\* the main loop restarts the web server with the configuration of that moment
RestartWebServer ==
    /\ restartPending /\ restartPending' = FALSE
    /\ runtime' = With(runtime, "web", mem["web"])
    /\ UNCHANGED <<mem, servers, webPass, disk, diskServers, env, wizard, reloaded, faults, commands, chosen, saved>>

----------------------------------------------------------------------------
(* Servers. *)

\* what becomes of a credential: kept ({}), or set to a value ({v}; {0} removes it)
Keep == {}
Updates == {Keep} \cup {{v} : v \in Values}
Resolved(id, update) ==
    IF update # Keep THEN CHOOSE v \in update : TRUE ELSE IF id \in DOMAIN servers THEN servers[id] ELSE 0

\* the configuration first, the secret only when that was written
(* Mutant of EnvAfterSave: the secret is written even when the file is not. *)
EnvFirst(id, update, ok) == IF update = Keep THEN UNCHANGED env ELSE WriteEnv(PasswordKey(id), Resolved(id, update))
EnvAfterSave(id, update, ok) ==
    IF update = Keep \/ ~ ok THEN UNCHANGED env ELSE WriteEnv(PasswordKey(id), Resolved(id, update))
ApplyServerConfig(id, update, ok) ==
    /\ servers' = With(servers, id, Resolved(id, update))
    /\ UNCHANGED mem /\ SaveConfig(ok)
    /\ EnvAfterSave(id, update, ok)
    /\ UNCHANGED <<webPass, runtime, restartPending, reloaded, chosen>>

CmdServerAdd(id, update, ok) ==
    Command /\ ApplyServerConfig(id, update, ok) /\ UNCHANGED <<wizard, saved>>

\* a failed save brings the entry back; else its credential goes from .env
RemovedIfSaved(id, ok) == servers' = IF ok THEN Without(servers, id) ELSE servers
CmdServerRemove(id, ok) ==
    /\ Command /\ id \in DOMAIN servers
    /\ RemovedIfSaved(id, ok)
    /\ UNCHANGED mem /\ SaveConfig(ok)
    /\ EnvAfterSave(id, {0}, ok)
    /\ UNCHANGED <<webPass, runtime, restartPending, wizard, reloaded, chosen, saved>>

OpenServerWizard(which) ==
    /\ Command /\ wizard = "closed" /\ which \in {"add"} \cup DOMAIN servers
    /\ wizard' = which /\ saved' = {}
    /\ UNCHANGED <<mem, servers, webPass, disk, diskServers, env, runtime, restartPending, reloaded, faults, chosen>>

\* a new server takes a free id; the wizard stays open when the save fails
UniqueId == IF "net" \in DOMAIN servers THEN "net2" ELSE "net"
BuiltId == IF wizard = "add" THEN UniqueId ELSE wizard
WizardSave(update, ok) ==
    /\ Command /\ wizard # "closed" /\ (wizard = "add" => UniqueId \notin DOMAIN servers)  \* bound: two new servers
    /\ ApplyServerConfig(BuiltId, update, ok)
    /\ wizard' = IF ok THEN "closed" ELSE wizard
    /\ saved' = IF wizard = "add" THEN saved \cup {BuiltId} ELSE saved

\* the form of the web page: a new server, or the one it was opened for
WebSaveServer(id, update, ok) ==
    /\ Command /\ id \in {UniqueId} \cup DOMAIN servers
    /\ ApplyServerConfig(id, update, ok)
    /\ UNCHANGED <<wizard, saved>>

CloseWizard ==
    /\ wizard # "closed" /\ wizard' = "closed" /\ saved' = {}
    /\ UNCHANGED <<mem, servers, webPass, disk, diskServers, env, runtime, restartPending, reloaded, faults, commands, chosen>>

Restart ==
    /\ mem' = disk /\ runtime' = disk
    /\ servers' = [id \in diskServers |-> Credential(id, 0)] /\ webPass' = env[PasswordKey("web")]
    /\ restartPending' = FALSE /\ wizard' = "closed" /\ saved' = {} /\ reloaded' = FALSE
    /\ UNCHANGED <<disk, diskServers, env, faults, commands, chosen>>

Next ==
    \/ \E v \in Values, ok \in BOOLEAN :
           \/ \E s \in Settings : CmdSet(s, v, ok)
           \/ CmdSetWebPassword(v, ok) \/ CmdFlood(v, ok) \/ CmdIgnore(v, ok)
    \/ \E ok \in BOOLEAN : CmdReload(ok)
    \/ \E s \in Settings, v \in Values : EditFile(s, v)
    \/ RestartWebServer
    \/ \E id \in ServerIds, u \in Updates, ok \in BOOLEAN : CmdServerAdd(id, u, ok) \/ WizardSave(u, ok)
    \/ \E id \in Ids, u \in Updates, ok \in BOOLEAN : WebSaveServer(id, u, ok)
    \/ \E id \in Ids, ok \in BOOLEAN : CmdServerRemove(id, ok)
    \/ \E w \in {"add"} \cup Ids : OpenServerWizard(w)
    \/ CloseWizard \/ Restart

Spec == Init /\ [][Next]_configVars

----------------------------------------------------------------------------
(* The copies in use follow the configuration: those of /set always (the web server once it has
   restarted), as long as no /reload has changed the configuration since the program started;
   those /reload copies even then. *)
RuntimeFollowsConfig ==
    /\ runtime["scrollback"] = mem["scrollback"]
    /\ ~ reloaded => runtime["dcc"] = mem["dcc"] /\ (restartPending \/ runtime["web"] = mem["web"])

(* Unless a file could not be written, or the web password's key is shared, a restart brings back
   every server with the credential it has in memory, and no other. *)
RestartKeepsServers ==
    faults = 0 /\ "web" \notin DOMAIN servers =>
        /\ diskServers = DOMAIN servers
        /\ \A id \in diskServers : env[PasswordKey(id)] = servers[id]

(* A save that fails leaves no secret in .env for a server that is not in config.toml. *)
NoOrphanedSecret == \A id \in Ids \ {"web"} : env[PasswordKey(id)] > 0 => id \in diskServers

(* A server that was removed stays away, and one whose removal could not be saved is still there. *)
RemovalIsConsistent == diskServers \subseteq DOMAIN servers

(* An ignore rule works as soon as the command has answered.  It does not: the list the handlers
   read is only filled by /reload and at the start. *)
IgnoreTakesEffect == commands > 0 /\ ~ reloaded => runtime["ignores"] = mem["ignores"]

(* /reload brings every copy up to date.  It leaves those of DCC, the web server, URL shortening
   and spell checking as they were. *)
ReloadReachesEverything == runtime["dcc"] = mem["dcc"]

(* The password of the web front end is the one last chosen.  A server called web has the same
   key in .env, and adding or removing it changes that password. *)
WebPasswordIsItsOwn == chosen > 0 /\ faults = 0 => env["web"] = chosen

(* One form adds one server.  Saving again after a failed save adds a second one, because the
   first is in memory already. *)
OneFormOneServer == Cardinality(saved) <= 1

(* What is in memory will be back after a restart once a later save succeeds.  The server is, its
   password is not: it was not written because the first save had failed. *)
LaterSaveRepairs == \A id \in diskServers \cap DOMAIN servers : id # "web" => env[PasswordKey(id)] = servers[id]
=============================================================================
