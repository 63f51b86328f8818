----------------------------- MODULE MCServices -----------------------------
(***************************************************************************)
(* The services beside the conversations, part by part: the limits on key  *)
(* requests, flood protection, the netsplit tracker, the keyring file, the *)
(* configuration and its files, the script engine, what scripts see of the *)
(* program, the setup wizard, and the files behind the web front end. Each *)
(* part runs by itself.                                                    *)
(***************************************************************************)
EXTENDS E2eRateLimiter, FiniteSets, TLC

VARIABLE part
VARIABLES flood_now, protection, exempt, times, blocked, storm, texts, queries, flood_shown,
          flood_messages
VARIABLES present, groups, index, netjoins, hidden, back, splits_steps
VARIABLES ring, memory, file_file, temp, reads, asked, file_saved, restored, file_steps
VARIABLES mem, servers, webPass, disk, diskServers, env, runtime, restartPending, config_wizard,
          reloaded, config_faults, config_commands, chosen, config_saved
VARIABLES scripts, handlers, scripts_commands, timers, scripts_registry, tasks, scripts_queue,
          scriptCommands, running, left, fired, calls, ids, nextTimer, retired, gone
VARIABLES server, users, active, config, cachedToml, loaded, settings, state_queue, snapshot,
          state_dirty, state_steps
VARIABLES wizard_wizard, frame, handed, complete, typed, keys
VARIABLES thumbs_registry, thumbs_shown, request, holds, dir, prune,
          thumbs_messages, requests, thumbs_faults
VARIABLES login_now, sessions, login_dirty, lastSaved, login_file, created, used, out, stale, harmed,
          login_steps, login_faults

limitsVars == <<now, lastSent, net, recent, backoffUntil, lastKeyReq, spacing, accepted,
                refused, manual>>
floodVars == <<flood_now, protection, exempt, times, blocked, storm, texts, queries,
               flood_shown, flood_messages>>
splitsVars == <<present, groups, index, netjoins, hidden, back, splits_steps>>
fileVars == <<ring, memory, file_file, temp, reads, asked, file_saved, restored, file_steps>>
configVars == <<mem, servers, webPass, disk, diskServers, env, runtime, restartPending,
                config_wizard, reloaded, config_faults, config_commands, chosen, config_saved>>
scriptsVars == <<scripts, handlers, scripts_commands, timers, scripts_registry, tasks,
                 scripts_queue, scriptCommands, running, left, fired, calls, ids, nextTimer,
                 retired, gone>>
stateVars == <<server, users, active, config, cachedToml, loaded, settings, state_queue,
               snapshot, state_dirty, state_steps>>
wizardVars == <<wizard_wizard, frame, handed, complete, typed, keys>>
thumbsVars == <<thumbs_registry, thumbs_shown, request, holds, dir, prune,
                thumbs_messages, requests, thumbs_faults>>
loginVars == <<login_now, sessions, login_dirty, lastSaved, login_file, created, used, out, stale, harmed,
               login_steps, login_faults>>
mcVars == <<part, limitsVars, floodVars, splitsVars, fileVars, configVars, scriptsVars, stateVars, wizardVars, thumbsVars, loginVars>>

CONSTANTS FloodNicks, FloodTilde, FloodIgnored, FloodLevels, FloodTexts, FloodChannels,
          THRESHOLD, CTCP_THRESHOLD, STORM_THRESHOLD, DUP_MIN_IN_WINDOW, DUP_THRESHOLD,
          NICK_THRESHOLD, FLOOD_WINDOW, FLOOD_BLOCK,           \* flood protection
          FloodMaxClock, FloodMaxMessages,
          SplitNicks, SplitNetworks, SplitPairs, SplitMaxSteps,   \* the netsplit tracker
          FilePeers, Mine, Other, FileMaxKey, FileMaxSteps,     \* the keyring file
          LoginTokens, max_age, SAVE_DEBOUNCE,                 \* the logins
          LoginMaxTime, LoginMaxSteps, LoginMaxFaults,
          ConfigServerIds, ConfigMaxValue, ConfigMaxFaults, ConfigMaxCommands,
          FormLength, FormMasked, FormToggles, FormSelects,    \* the server form
          FormNumeric, FormSecondPage, FormRequired, FormLocked, FormChars, FormDigits, FormOptions,
          FormDrawsFirst, FormMaxText, FormMaxKeys,
          ScriptNames, ScriptVerbs, ScriptPriorities, ScriptQueueCap,   \* scripts
          ScriptMaxHandlers, ScriptMaxTimers, ScriptMaxCalls,
          StateNicks, StateBuffers, StateValues, Nothing, StateQueueCap, StateMaxSteps,
          ThumbLinks, ThumbDirect, ThumbReaders,               \* the thumbnails
          MAX_REGISTRY_ENTRIES, ThumbMaxPerMessage, ThumbCacheMax,
          ThumbMaxMessages, ThumbMaxRequests, ThumbMaxFaults

(* A form of two pages, whose fields are texts unless said otherwise.      *)
Form == [f \in 1..FormLength |->
           [kind |-> IF f \in FormMasked THEN "masked" ELSE IF f \in FormToggles THEN "toggle"
                     ELSE IF f \in FormSelects THEN "select"
                     ELSE IF f \in FormNumeric THEN "number" ELSE "text",
            page |-> IF f \in FormSecondPage THEN 2 ELSE 1,
            required |-> f \in FormRequired, locked |-> f \in FormLocked]]

(* Who is ignored, at which levels.                                        *)
FloodIgnores == FloodIgnored \X FloodLevels

F == INSTANCE Flood WITH
         Nicks <- FloodNicks, Tilde <- FloodTilde, Ignored <- FloodIgnores,
         Texts <- FloodTexts, Channels <- FloodChannels, WINDOW <- FLOOD_WINDOW,
         BLOCK <- FLOOD_BLOCK, MaxClock <- FloodMaxClock, MaxMessages <- FloodMaxMessages,
         now <- flood_now, shown <- flood_shown, messages <- flood_messages
P == INSTANCE Netsplit WITH
         Nicks <- SplitNicks, Networks <- SplitNetworks, Pairs <- SplitPairs,
         MaxSteps <- SplitMaxSteps, steps <- splits_steps
K == INSTANCE KeyringFile WITH
         Peers <- FilePeers, Mine <- Mine, Other <- Other, MaxKey <- FileMaxKey,
         MaxSteps <- FileMaxSteps, file <- file_file, saved <- file_saved, steps <- file_steps
C == INSTANCE Configuration WITH
         ServerIds <- ConfigServerIds, MaxValue <- ConfigMaxValue,
         MaxFaults <- ConfigMaxFaults, MaxCommands <- ConfigMaxCommands, wizard <- config_wizard, faults <- config_faults, commands <- config_commands,
         saved <- config_saved
S == INSTANCE Scripting WITH
         Scripts <- ScriptNames, Commands <- ScriptVerbs, Priorities <- ScriptPriorities,
         QueueCap <- ScriptQueueCap, MaxHandlers <- ScriptMaxHandlers,
         MaxTimers <- ScriptMaxTimers, MaxCalls <- ScriptMaxCalls, commands <- scripts_commands,
         registry <- scripts_registry, queue <- scripts_queue
T == INSTANCE ScriptState WITH
         Scripts <- ScriptNames, Nicks <- StateNicks, Buffers <- StateBuffers,
         Values <- StateValues, QueueCap <- StateQueueCap, MaxSteps <- StateMaxSteps,
         queue <- state_queue, dirty <- state_dirty, steps <- state_steps
W == INSTANCE Wizard WITH
         Fields <- Form, Chars <- FormChars, Digits <- FormDigits, Options <- FormOptions,
         DrawsFirst <- FormDrawsFirst, MaxText <- FormMaxText, MaxKeys <- FormMaxKeys,
         wizard <- wizard_wizard
N == INSTANCE Thumbnails WITH
         Links <- ThumbLinks, Direct <- ThumbDirect, Readers <- ThumbReaders,
         MAX_REGISTRY_ENTRIES <- MAX_REGISTRY_ENTRIES, MaxPerMessage <- ThumbMaxPerMessage,
         CacheMax <- ThumbCacheMax, MaxMessages <- ThumbMaxMessages,
         MaxRequests <- ThumbMaxRequests, MaxFaults <- ThumbMaxFaults,
         registry <- thumbs_registry, shown <- thumbs_shown,
         messages <- thumbs_messages, faults <- thumbs_faults
L == INSTANCE WebLogin WITH
         Tokens <- LoginTokens, max_age <- max_age, SAVE_DEBOUNCE <- SAVE_DEBOUNCE,
         MaxTime <- LoginMaxTime, MaxSteps <- LoginMaxSteps, MaxFaults <- LoginMaxFaults,
         now <- login_now, dirty <- login_dirty,
         file <- login_file, steps <- login_steps, faults <- login_faults

ASSUME FloodedAssumption == F!FloodAssumption
ASSUME SplitsAssumption == P!NetsplitAssumption
ASSUME FileAssumption == K!KeyringFileAssumption
ASSUME LoginsAssumption == L!LoginAssumption
ASSUME ConfigsAssumption == C!ConfigurationAssumption
ASSUME FormsAssumption == W!WizardAssumption
ASSUME ScriptsAssumption == S!ScriptingAssumption
ASSUME StatesAssumption == T!ScriptStateAssumption
ASSUME ThumbsAssumption == N!ThumbnailsAssumption

(* The variables of a part that does not run have no value of their own.   *)
Idle == "idle"
LimitsOff ==
  /\ now = Idle /\ lastSent = Idle /\ net = Idle /\ recent = Idle /\ backoffUntil = Idle
  /\ lastKeyReq = Idle /\ spacing = Idle /\ accepted = Idle /\ refused = Idle /\ manual = Idle
FloodOff ==
  /\ flood_now = Idle /\ protection = Idle /\ exempt = Idle /\ times = Idle /\ blocked = Idle
  /\ storm = Idle /\ texts = Idle /\ queries = Idle /\ flood_shown = Idle
  /\ flood_messages = Idle
SplitsOff ==
  /\ present = Idle /\ groups = Idle /\ index = Idle /\ netjoins = Idle /\ hidden = Idle
  /\ back = Idle /\ splits_steps = Idle
FileOff ==
  /\ ring = Idle /\ memory = Idle /\ file_file = Idle /\ temp = Idle /\ reads = Idle
  /\ asked = Idle /\ file_saved = Idle /\ restored = Idle /\ file_steps = Idle
ConfigOff ==
  /\ mem = Idle /\ servers = Idle /\ webPass = Idle /\ disk = Idle /\ diskServers = Idle
  /\ env = Idle /\ runtime = Idle /\ restartPending = Idle /\ config_wizard = Idle
  /\ reloaded = Idle /\ config_faults = Idle /\ config_commands = Idle /\ chosen = Idle
  /\ config_saved = Idle
ScriptsOff ==
  /\ scripts = Idle /\ handlers = Idle /\ scripts_commands = Idle /\ timers = Idle
  /\ scripts_registry = Idle /\ tasks = Idle /\ scripts_queue = Idle /\ scriptCommands = Idle
  /\ running = Idle /\ left = Idle /\ fired = Idle /\ calls = Idle /\ ids = Idle
  /\ nextTimer = Idle /\ retired = Idle /\ gone = Idle
StateOff ==
  /\ server = Idle /\ users = Idle /\ active = Idle /\ config = Idle /\ cachedToml = Idle
  /\ loaded = Idle /\ settings = Idle /\ state_queue = Idle /\ snapshot = Idle
  /\ state_dirty = Idle /\ state_steps = Idle
WizardOff ==
  /\ wizard_wizard = Idle /\ frame = Idle /\ handed = Idle /\ complete = Idle /\ typed = Idle
  /\ keys = Idle
ThumbsOff ==
  /\ thumbs_registry = Idle /\ thumbs_shown = Idle /\ request = Idle /\ holds = Idle
  /\ dir = Idle /\ prune = Idle /\ thumbs_messages = Idle /\ requests = Idle
  /\ thumbs_faults = Idle
LoginOff ==
  /\ login_now = Idle /\ sessions = Idle /\ login_dirty = Idle /\ lastSaved = Idle
  /\ login_file = Idle /\ created = Idle /\ used = Idle /\ out = Idle /\ login_steps = Idle
  /\ login_faults = Idle /\ stale = Idle /\ harmed = Idle

LimitsOnly == UNCHANGED <<part, floodVars, splitsVars, fileVars, configVars, scriptsVars, stateVars, wizardVars, thumbsVars, loginVars>>
FloodOnly == UNCHANGED <<part, limitsVars, splitsVars, fileVars, configVars, scriptsVars, stateVars, wizardVars, thumbsVars, loginVars>>
SplitsOnly == UNCHANGED <<part, limitsVars, floodVars, fileVars, configVars, scriptsVars, stateVars, wizardVars, thumbsVars, loginVars>>
FileOnly == UNCHANGED <<part, limitsVars, floodVars, splitsVars, configVars, scriptsVars, stateVars, wizardVars, thumbsVars, loginVars>>
ConfigOnly == UNCHANGED <<part, limitsVars, floodVars, splitsVars, fileVars, scriptsVars, stateVars, wizardVars, thumbsVars, loginVars>>
ScriptsOnly == UNCHANGED <<part, limitsVars, floodVars, splitsVars, fileVars, configVars, stateVars, wizardVars, thumbsVars, loginVars>>
StateOnly == UNCHANGED <<part, limitsVars, floodVars, splitsVars, fileVars, configVars, scriptsVars, wizardVars, thumbsVars, loginVars>>
WizardOnly == UNCHANGED <<part, limitsVars, floodVars, splitsVars, fileVars, configVars, scriptsVars, stateVars, thumbsVars, loginVars>>
ThumbsOnly == UNCHANGED <<part, limitsVars, floodVars, splitsVars, fileVars, configVars, scriptsVars, stateVars, wizardVars, loginVars>>
LoginOnly == UNCHANGED <<part, limitsVars, floodVars, splitsVars, fileVars, configVars, scriptsVars, stateVars, wizardVars, thumbsVars>>

MCInit == \/ part = "limits" /\ Init /\ FloodOff /\ SplitsOff /\ FileOff /\ ConfigOff /\ ScriptsOff /\ StateOff /\ WizardOff /\ ThumbsOff /\ LoginOff
          \/ part = "flood" /\ F!Init /\ LimitsOff /\ SplitsOff /\ FileOff /\ ConfigOff /\ ScriptsOff /\ StateOff /\ WizardOff /\ ThumbsOff /\ LoginOff
          \/ part = "splits" /\ P!Init /\ LimitsOff /\ FloodOff /\ FileOff /\ ConfigOff /\ ScriptsOff /\ StateOff /\ WizardOff /\ ThumbsOff /\ LoginOff
          \/ part = "file" /\ K!Init /\ LimitsOff /\ FloodOff /\ SplitsOff /\ ConfigOff /\ ScriptsOff /\ StateOff /\ WizardOff /\ ThumbsOff /\ LoginOff
          \/ part = "config" /\ C!Init /\ LimitsOff /\ FloodOff /\ SplitsOff /\ FileOff /\ ScriptsOff /\ StateOff /\ WizardOff /\ ThumbsOff /\ LoginOff
          \/ part = "scripts" /\ S!Init /\ LimitsOff /\ FloodOff /\ SplitsOff /\ FileOff /\ ConfigOff /\ StateOff /\ WizardOff /\ ThumbsOff /\ LoginOff
          \/ part = "state" /\ T!Init /\ LimitsOff /\ FloodOff /\ SplitsOff /\ FileOff /\ ConfigOff /\ ScriptsOff /\ WizardOff /\ ThumbsOff /\ LoginOff
          \/ part = "wizard" /\ W!Init /\ LimitsOff /\ FloodOff /\ SplitsOff /\ FileOff /\ ConfigOff /\ ScriptsOff /\ StateOff /\ ThumbsOff /\ LoginOff
          \/ part = "thumbs" /\ N!Init /\ LimitsOff /\ FloodOff /\ SplitsOff /\ FileOff /\ ConfigOff /\ ScriptsOff /\ StateOff /\ WizardOff /\ LoginOff
          \/ part = "login" /\ L!Init /\ LimitsOff /\ FloodOff /\ SplitsOff /\ FileOff /\ ConfigOff /\ ScriptsOff /\ StateOff /\ WizardOff /\ ThumbsOff
MCNext == \/ part = "limits" /\ Next /\ LimitsOnly
          \/ part = "flood" /\ F!Next /\ FloodOnly
          \/ part = "splits" /\ P!Next /\ SplitsOnly
          \/ part = "file" /\ K!Next /\ FileOnly
          \/ part = "config" /\ C!Next /\ ConfigOnly
          \/ part = "scripts" /\ S!Next /\ ScriptsOnly
          \/ part = "state" /\ T!Next /\ StateOnly
          \/ part = "wizard" /\ W!Next /\ WizardOnly
          \/ part = "thumbs" /\ N!Next /\ ThumbsOnly
          \/ part = "login" /\ L!Next /\ LoginOnly
MCSpec == MCInit /\ [][MCNext]_mcVars

-----------------------------------------------------------------------------
(* A back-off ends at most Window + Backoff after the last KEYREQ that got *)
(* through, however often the peer asks while it lasts.                    *)
BackOffsEnd == part = "limits" => BackoffEnds

(* A sender that only asks automatically, through its own limiter, is      *)
(* never refused: the two limits fit together.                             *)
HonestSendersPass == part = "limits" => HonestNeverRefused

(* However the window slides and whenever a back-off clears it, no stretch *)
(* of Window sees more than MaxPerWindow KEYREQs let through.              *)
LimitHolds == [][part = "limits" => WithinLimitStep]_mcVars

(* Within a window no "~" nick gets THRESHOLD messages through, no channel *)
(* shows NICK_THRESHOLD nick changes, and not more than CTCP_THRESHOLD - 1 *)
(* requests pass, whatever was switched on and off, blocked and unblocked  *)
(* in between; a /me is not counted, and passes whatever is blocked.       *)
NobodyFloods == part = "flood" => F!NobodyFloods

(* Nor do the copies of one text, whoever says them.                       *)
CopiesAreBounded == part = "flood" => F!CopiesAreBounded

(* Private messages of fewer than STORM_THRESHOLD different "~" nicks are  *)
(* shown in a window.                                                      *)
NoStorm == part = "flood" => F!NoStorm

(* The index points into the groups, at one that has the nick: a tick that *)
(* drops groups moves the others.                                          *)
IndexIsSound == part = "splits" => P!IndexIsSound

(* What was kept off the screen, a quit or a return, is waiting to be      *)
(* announced, whatever the order of quits, joins, ticks and sleeps.        *)
HiddenIsWaiting == part = "splits" => P!HiddenIsWaiting

(* The keyring always holds an identity, whatever import fails half way    *)
(* (replace_all_for_import empties the table of identities first).         *)
IdentityIsThere == part = "file" => K!IdentityIsThere

(* The file an export names is never a part of a document: a crash or a    *)
(* failure between opening and renaming leaves the one before.             *)
FileIsWhole == part = "file" => K!FileIsWhole

(* Importing what was exported gives back every table as it was exported,  *)
(* whatever was learned, revoked or rotated in between, except for the     *)
(* recipients, which no file holds.                                        *)
RestoreIsExact == part = "file" => K!RestoreIsExact

(* The copies in use follow the configuration: those of /set always (the   *)
(* web server once it has restarted), as long as no /reload has changed    *)
(* the configuration since the program started; those /reload copies even  *)
(* then.                                                                   *)
RuntimeFollowsConfig == part = "config" => C!RuntimeFollowsConfig

(* Unless a file could not be written, or the web password's key is        *)
(* shared, a restart brings back every server with the credential it has   *)
(* in memory, and no other.                                                *)
RestartKeepsServers == part = "config" => C!RestartKeepsServers

(* A save that fails leaves no secret in .env for a server that is not in  *)
(* config.toml.                                                            *)
NoOrphanedSecret == part = "config" => C!NoOrphanedSecret

(* A server that was removed stays away, and one whose removal could not   *)
(* be saved is still there.                                                *)
RemovalIsConsistent == part = "config" => C!RemovalIsConsistent

(* After /script unload nothing of the script runs again, whatever timer   *)
(* had already fired.                                                      *)
UnloadedScriptsAreSilent == part = "scripts" => S!UnloadedScriptsAreSilent

(* A handler that was turned off, or a once handler that ran, is not       *)
(* called again: not even by the event that was being delivered when it    *)
(* was turned off.                                                         *)
RetiredHandlersAreSilent == [][part = "scripts" => S!RetiredHandlersAreSilentStep]_mcVars

(* Within an event the handlers run from the highest priority to the       *)
(* lowest.                                                                 *)
UrgentFirst == part = "scripts" => S!UrgentFirst

(* Scripts decide what is shown, never who is on a channel.                *)
MembersStayTrue == part = "state" => T!MembersStayTrue

(* What is marked reaches the scripts: without a mark they see the nick    *)
(* lists and their settings as they are, also those loaded later than the  *)
(* changes were made.                                                      *)
SnapshotKeepsUp == part = "state" => T!SnapshotKeepsUp

(* A script keeps its settings while it is loaded, whatever the others do. *)
SettingsStay == [][part = "state" => T!SettingsStayStep]_mcVars

(* The text cursor, kept apart from the texts, stays inside the text of    *)
(* the focused field whatever order of keys, clicks, page changes and      *)
(* deletions led there (sync_cursor_to_focus, insert_char, backspace).     *)
CursorIsInTheText == part = "wizard" => W!CursorIsInTheText

(* The focus is on the page that is shown or on a button: no key edits a   *)
(* field the user cannot see. It holds as long as every event meets a      *)
(* fresh frame.                                                            *)
FocusIsOnThePage == part = "wizard" /\ FormDrawsFirst => W!FocusIsOnThePage

(* A server is handed over only with its required values and with numbers  *)
(* that parse, whatever was typed, pasted and deleted on either page.      *)
SavedServersAreComplete == part = "wizard" => W!SavedServersAreComplete

(* Saving the form keeps a stored secret, which the form never received,   *)
(* unless the user typed into its field (resolve_cred, was_touched).       *)
SecretsAreKept == [][part = "wizard" => W!SecretsAreKeptStep]_mcVars

(* A browser, which keeps a thumbnail for a day, is never served a part of *)
(* one: the file is written apart and renamed, through failed writes,      *)
(* crashes, pruning and requests for other links.  The one way to a file   *)
(* that is not whole is two requests that write the same link, as they     *)
(* share its temporary file: such a file is torn (Thumbnails).             *)
ThumbnailsAreWhole == part = "thumbs" => N!ThumbnailsAreWhole

(* When every request and prune is done the cache is within its limit,     *)
(* unless a crash cut the last prune short.                                *)
CacheIsBounded == part = "thumbs" => N!CacheIsBounded

(* Who logged in is let in for max_age, over any restart, as long as the   *)
(* file could be written; but not who logged in over a connection to the   *)
(* old web server, nor who was missing in what such a connection last      *)
(* wrote before a restart.                                                 *)
LoginsSurvive == part = "login" => L!LoginsSurvive

(* Who logged out stays out, over any restart, as long as the file could   *)
(* be written; but not who logged out over a connection to the old web     *)
(* server, nor who was still in what such a connection last wrote before a *)
(* restart.                                                                *)
LoggedOutStaysOut == part = "login" => L!LoggedOutStaysOut

(* A store that holds itself saved is: of what it has, restarting loses    *)
(* nothing, except where the old store was written over it.                *)
CleanMeansSaved == part = "login" => L!CleanMeansSaved

(* The limits over sliding windows stop who sends too much, and nobody     *)
(* else for good (e2e/handshake.rs, irc/flood.rs); messages in the form of *)
(* a /me are outside of them (irc/events.rs).                              *)
WindowsAreKept ==
  /\ part = "limits" => TypeOK
  /\ part = "flood" => F!TypeOK
  /\ BackOffsEnd
  /\ HonestSendersPass
  /\ NobodyFloods
  /\ CopiesAreBounded
  /\ NoStorm

(* A netsplit hides nothing for good (irc/netsplit.rs).                    *)
SplitsAreAnnounced ==
  /\ part = "splits" => P!TypeOK
  /\ IndexIsSound
  /\ HiddenIsWaiting

(* A failed or interrupted export or import leaves what was there, a       *)
(* finished one what it promised (e2e/portable.rs).                        *)
KeyringFilesAreWhole ==
  /\ part = "file" => K!TypeOK
  /\ IdentityIsThere
  /\ FileIsWhole
  /\ RestoreIsExact

(* The copies of the configuration agree, also when one of the writes      *)
(* fails, and the form puts whole servers into it                          *)
(* (commands/handlers_admin.rs, ui/wizard).                                *)
SettingsAgree ==
  /\ part = "config" => C!TypeOK
  /\ part = "wizard" => W!TypeOK
  /\ RuntimeFollowsConfig
  /\ RestartKeepsServers
  /\ NoOrphanedSecret
  /\ RemovalIsConsistent
  /\ CursorIsInTheText
  /\ FocusIsOnThePage
  /\ SavedServersAreComplete

(* Nothing of a script that was unloaded runs, urgent handlers go first,   *)
(* and what scripts are told and may suppress leaves the client's lists    *)
(* and the snapshot of a tick true (scripting/lua/mod.rs,                  *)
(* app/scripting.rs).                                                      *)
ScriptsAreContained ==
  /\ part = "scripts" => S!TypeOK
  /\ part = "state" => T!TypeOK
  /\ UnloadedScriptsAreSilent
  /\ UrgentFirst
  /\ MembersStayTrue
  /\ SnapshotKeepsUp

(* A thumbnail survives crashes in the middle of a write, failed writes    *)
(* and pruning, if not two requests that write it at once, and the files   *)
(* stay within their limit (web/preview.rs).                               *)
ThumbnailsAreKept ==
  /\ part = "thumbs" => N!TypeOK
  /\ ThumbnailsAreWhole
  /\ CacheIsBounded

(* Who logged in stays logged in, and who logged out stays out, over       *)
(* restarts of the program and of its web server, except through the store *)
(* of a web server that was replaced (web/auth.rs, app/web.rs).            *)
LoginsAreKept ==
  /\ part = "login" => L!TypeOK
  /\ LoginsSurvive
  /\ LoggedOutStaysOut
  /\ CleanMeansSaved

(* What no step may do: let a key request through beyond the limit, call a *)
(* handler that has retired, lose a setting, or overwrite a secret that    *)
(* was not touched.                                                        *)
NoStepBreaksAPromise ==
  /\ LimitHolds
  /\ RetiredHandlersAreSilent
  /\ SettingsStay
  /\ SecretsAreKept

=============================================================================
