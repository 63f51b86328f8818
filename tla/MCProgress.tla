----------------------------- MODULE MCProgress -----------------------------
(***************************************************************************)
(* What must go on and come to an end, part by part: the automatic         *)
(* queries, the writer of the log, chains of aliases and pasted lines, the *)
(* shells, the image previews, and the registration of a connection. Each  *)
(* part runs by itself, under the fairness of its own module.              *)
(***************************************************************************)
EXTENDS ChannelQuery, TLC

VARIABLE part
VARIABLES rowTx, log_queue, writing, messages, writer, closing, logClock, rowCount, lost,
          purged, log_faults
VARIABLES aliases, activeBuf, pasteQueue, agenda, source, done, entries
VARIABLES sessions, buffers, active, shellInputActive, typed, webSessions, webActive, version,
          seen, alive, shell_queue, pending, recent, displaced, nextId, steps
VARIABLES preview, images_asked, tasks, events, file, screen, protocol, shows, images_faults
VARIABLES pc, mech, registration_asked, enabled, early, caps, inbox, server, creds, cert,
          notices, shown, changes, missed

queryVars == <<online, handle, queue, inFlight, sentAt, silentWho, silentBans, asked, askedBans,
               crossed, touched, userSteps>>
logVars == <<rowTx, log_queue, writing, messages, writer, closing, logClock, rowCount, lost,
             purged, log_faults>>
commandsVars == <<aliases, activeBuf, pasteQueue, agenda, source, done, entries>>
shellVars == <<sessions, buffers, active, shellInputActive, typed, webSessions, webActive,
               version, seen, alive, shell_queue, pending, recent, displaced, nextId, steps>>
imagesVars == <<preview, images_asked, tasks, events, file, screen, protocol, shows,
                images_faults>>
registrationVars == <<pc, mech, registration_asked, enabled, early, caps, inbox, server, creds,
                      cert, notices, shown, changes, missed>>
mcVars == <<part, queryVars, logVars, commandsVars, shellVars, imagesVars, registrationVars>>

CONSTANTS DESIRED_CAPS,                                       \* of Registration
          MaxNotices, MaxChanges                              \* its bounds
CONSTANTS LastBuffer, BATCH_SIZE, ChannelCap, MAX_PENDING_ROWS, KeepEvents, KeepAll, \* of MessageLog
          MaxRows, MaxClock, MaxFaults                        \* its bounds
CONSTANTS MAX_ALIAS_DEPTH, MAX_PASTE_LINES, Templates, TypedLines, Pastes, Drafts, \* of CommandLine
          MaxEntries                                          \* its bound
CONSTANTS ShellNames, Pages, ChatBuffers, MAX_WEB_SESSIONS,   \* of Shell
          MaxShells, MaxSteps, MaxOutput                      \* its bounds
CONSTANTS Urls, Large, Protocols, OneAtATime,                 \* of ImagePreview
          MaxShows                                            \* its bound, with MaxFaults
ASSUME RegistrationAssumption == MaxNotices \in Nat /\ MaxChanges \in Nat

(* For TLC: aliases that call each other and themselves, take arguments    *)
(* and switch the buffer.                                                  *)
Bodies == {<<"/bl", "$1">>, <<"/go", "c2", ";", "$*">>, <<"/bl", ";", "/al">>}
Lines == {<<"/al", "a">>, <<"/alias", "/al", "/bl">>, <<"/unalias", "/bl">>}
Texts == {<<<<"a">>, <<"/al", "a">>, <<"b">>>>}
Begun == {<<>>, <<"x">>}

L == INSTANCE MessageLog WITH
         queue <- log_queue, faults <- log_faults
ASSUME LogAssumption == L!LogAssumption
C == INSTANCE CommandLine
ASSUME CommandLineAssumption == C!CommandLineAssumption
H == INSTANCE Shell WITH
         Names <- ShellNames, Others <- ChatBuffers, queue <- shell_queue
ASSUME ShellAssumption == H!ShellAssumption
I == INSTANCE ImagePreview WITH
         asked <- images_asked, faults <- images_faults
ASSUME ImageAssumption == I!ImageAssumption
R == INSTANCE Registration WITH asked <- registration_asked

ImageMoves(t) == t \in DOMAIN tasks /\ I!TaskStep(t)
(* The variables of a part that does not run have no value of their own.   *)
Idle == "idle"
QueryOff ==
  /\ online = Idle /\ queue = Idle /\ inFlight = Idle /\ sentAt = Idle /\ silentWho = Idle
  /\ silentBans = Idle /\ asked = Idle /\ askedBans = Idle /\ crossed = Idle /\ touched = Idle
  /\ userSteps = Idle /\ handle = Idle
LogOff ==
  /\ rowTx = Idle /\ log_queue = Idle /\ writing = Idle /\ messages = Idle /\ writer = Idle
  /\ closing = Idle /\ logClock = Idle /\ rowCount = Idle /\ lost = Idle /\ purged = Idle
  /\ log_faults = Idle
CommandsOff ==
  /\ aliases = Idle /\ activeBuf = Idle /\ pasteQueue = Idle /\ agenda = Idle /\ source = Idle
  /\ done = Idle /\ entries = Idle
ShellOff ==
  /\ sessions = Idle /\ buffers = Idle /\ active = Idle /\ shellInputActive = Idle
  /\ typed = Idle /\ webSessions = Idle /\ webActive = Idle /\ version = Idle /\ seen = Idle
  /\ alive = Idle /\ shell_queue = Idle /\ pending = Idle /\ recent = Idle /\ displaced = Idle /\ nextId = Idle
  /\ steps = Idle
ImagesOff ==
  /\ preview = Idle /\ images_asked = Idle /\ tasks = Idle /\ events = Idle /\ file = Idle
  /\ screen = Idle /\ protocol = Idle /\ shows = Idle /\ images_faults = Idle
RegistrationOff ==
  /\ pc = Idle /\ mech = Idle /\ registration_asked = Idle /\ enabled = Idle /\ early = Idle
  /\ caps = Idle /\ inbox = Idle /\ server = Idle /\ creds = Idle /\ cert = Idle
  /\ notices = Idle /\ shown = Idle /\ changes = Idle /\ missed = Idle

QueryOnly == UNCHANGED <<part, logVars, commandsVars, shellVars, imagesVars, registrationVars>>
LogOnly == UNCHANGED <<part, queryVars, commandsVars, shellVars, imagesVars, registrationVars>>
CommandsOnly == UNCHANGED <<part, queryVars, logVars, shellVars, imagesVars, registrationVars>>
ShellOnly == UNCHANGED <<part, queryVars, logVars, commandsVars, imagesVars, registrationVars>>
ImagesOnly == UNCHANGED <<part, queryVars, logVars, commandsVars, shellVars, registrationVars>>
RegistrationOnly == UNCHANGED <<part, queryVars, logVars, commandsVars, shellVars, imagesVars>>

MCInit == \/ part = "query" /\ Init /\ LogOff /\ CommandsOff /\ ShellOff /\ ImagesOff /\ RegistrationOff
          \/ part = "log" /\ L!Init /\ QueryOff /\ CommandsOff /\ ShellOff /\ ImagesOff /\ RegistrationOff
          \/ part = "commands" /\ C!Init /\ QueryOff /\ LogOff /\ ShellOff /\ ImagesOff /\ RegistrationOff
          \/ part = "shell" /\ H!Init /\ QueryOff /\ LogOff /\ CommandsOff /\ ImagesOff /\ RegistrationOff
          \/ part = "images" /\ I!Init /\ QueryOff /\ LogOff /\ CommandsOff /\ ShellOff /\ RegistrationOff
          \/ part = "registration" /\ R!Init /\ QueryOff /\ LogOff /\ CommandsOff /\ ShellOff /\ ImagesOff
MCNext == \/ part = "query" /\ Next /\ QueryOnly
          \/ part = "log" /\ L!Next /\ LogOnly
          \/ part = "commands" /\ C!Next /\ CommandsOnly
          \/ part = "shell" /\ H!Next /\ ShellOnly
          \/ part = "images" /\ I!Next /\ ImagesOnly
          \/ part = "registration" /\ R!Next /\ RegistrationOnly
(* As the part never changes, a step that is fair in one part may share    *)
(* its condition with one of each other part.                              *)
Goes1 == \/ part = "query" /\ Tick /\ QueryOnly
         \/ part = "log" /\ L!Receive /\ LogOnly
         \/ part = "commands" /\ C!RunNext /\ CommandsOnly
         \/ part = "shell" /\ H!HandleShellEvent /\ ShellOnly
         \/ part = "images" /\ I!HandlePreviewEvent /\ ImagesOnly
         \/ part = "registration" /\ R!AnswerLs /\ RegistrationOnly
Goes2 == \/ part = "log" /\ L!FlushTick /\ LogOnly
         \/ part = "commands" /\ C!DrainPasteQueue /\ CommandsOnly
         \/ part = "shell" /\ H!ServePending /\ ShellOnly
         \/ part = "images" /\ ImageMoves(1) /\ ImagesOnly
         \/ part = "registration" /\ R!Authenticates /\ RegistrationOnly
Goes3 == \/ part = "log" /\ L!Flush /\ LogOnly
         \/ part = "shell" /\ H!Later /\ ShellOnly
         \/ part = "images" /\ ImageMoves(2) /\ ImagesOnly
         \/ part = "registration" /\ R!Welcome /\ RegistrationOnly
Goes4 == \/ part = "log" /\ L!ShutDown /\ LogOnly
         \/ part = "images" /\ ImageMoves(3) /\ ImagesOnly
         \/ part = "registration" /\ R!Task /\ RegistrationOnly
Goes5 == \/ part = "registration" /\ R!PlusTimesOut /\ RegistrationOnly
MCSpec ==
  /\ MCInit /\ [][MCNext]_mcVars
  /\ WF_mcVars(Goes1) /\ WF_mcVars(Goes2) /\ WF_mcVars(Goes3)
  /\ WF_mcVars(Goes4) /\ WF_mcVars(Goes5)

-----------------------------------------------------------------------------
(* Nothing waits in the queue without a batch in flight whose timer runs:  *)
(* whichever of a completion, a timeout and a late reply came first.       *)
QueueMoves == part = "query" => SomethingMovesTheQueue

(* "late replies will still be suppressed": an automatic query that is     *)
(* still unanswered has its flag, timed out or not, unless the channel was *)
(* left or queried again meanwhile.                                        *)
LateRepliesStaySilent == part = "query" => LateRepliesAreSilent

(* Every channel that was joined is asked about, whatever the server skips *)
(* or delays, as long as the session lasts.                                *)
ChannelsAreAsked ==
  \A c \in Channels : []<>(part = "query" => c \notin ToSet(queue))

(* The log keeps the order of submission and never holds a row twice: a    *)
(* flush that returned its rows has written none of them, and the rows it  *)
(* returned go ahead of later ones.                                        *)
LogKeepsOrder == part = "log" => L!LogKeepsOrder

(* Every row submitted is on its way, in the table, or gone for a reason   *)
(* the code names: the channel was full, the cap was reached, the database *)
(* failed, or retention deleted it. A clean shutdown in particular leaves  *)
(* nothing behind in the channel or in the queue.                          *)
EveryRowIsAccountedFor == part = "log" => L!EveryRowIsAccountedFor

(* Retention never takes the text of an event and leaves a copy that       *)
(* refers to it, which would be shown as a blank line, whatever batches    *)
(* the rows of one event were written in.                                  *)
CopiesGoWithTheirText == [][part = "log" => L!CopiesGoWithTheirTextStep]_mcVars

(* What the writer accepted does not stay in memory: with the database     *)
(* back, or the rows given up, the channel and the queue are empty again   *)
(* and again.                                                              *)
WriterCatchesUp ==
  []<>(part = "log" => rowTx = <<>> /\ log_queue = <<>> /\ writing = <<>>)

(* Pasted lines are run in the order of the text, and once another text is *)
(* pasted no line of the one before follows.                               *)
PastesInOrder == part = "commands" => C!PastesInOrder

(* Every line is finished, however its aliases call each other or redefine *)
(* themselves, and the client is free for the next key.                    *)
ChainsEnd ==
  []<>(part = "commands" => agenda = <<>>)

(* Each session has a buffer of its own and each shell buffer a session,   *)
(* through closing, exits reported late and shells of the same name.       *)
SessionsHaveBuffers == part = "shell" => H!SessionsHaveBuffers

(* A shell is sent only keys typed while its own buffer was shown.         *)
KeysReachTheirShell == part = "shell" => H!KeysReachTheirShell

(* The buffer of a shell that ended goes away.                             *)
EndedShellsGo ==
  \A i \in H!Ids : []<>(part = "shell" => i \notin DOMAIN sessions \/ i \in alive.tui)

(* Every page sees its screen as it is now, if its output pauses and it    *)
(* keeps looking, or waited for the broadcast and lost its place to the    *)
(* output of another page: there is room for one.                          *)
ScreensCatchUp ==
  \A p \in Pages :
    []<>(part = "shell" => \/ p \notin webSessions \/ webActive[p] # "shell"
                           \/ seen[p] = version[p] \/ p \in displaced)

(* What is shown is what was asked for last: no late result of an earlier  *)
(* link, or of one that was dismissed, takes its place.                    *)
ShownIsAsked == part = "images" => I!ShownIsAsked

(* A dismissed preview leaves nothing on the terminal, for a user who      *)
(* dismisses one before opening the next.                                  *)
NothingLeftOnScreen == part = "images" => I!NothingLeftOnScreen

(* "Loading" ends: in a picture, in an error, or because the user          *)
(* dismissed it.                                                           *)
LoadingEnds ==
  []<>(part = "images" => preview.kind # "loading")

(* With nothing under way the client and the server agree on each          *)
(* capability, over every change, but for those whose last ACK or DEL came *)
(* before the welcome, where the client drops or overwrites it.            *)
CapsAgree == part = "registration" => R!CapsAgree

(* CAP END never cuts off an authentication: after it the client believes  *)
(* in its login exactly if the server does, also if it gave up waiting.    *)
LoginIsMutual == part = "registration" => R!LoginIsMutual

(* Registration ends, or the client waits for a server that fell silent,   *)
(* with a wait that has no timeout: any but that for AUTHENTICATE +.       *)
RegistrationEnds ==
  []<>(part = "registration" => pc = "up" \/ (server.silent /\ pc # "plus"))

(* The queue of automatic queries has somebody to move it, and its late    *)
(* replies show nothing (app/who.rs).                                      *)
QueriesMove ==
  /\ part = "query" => TypeOK
  /\ QueueMoves
  /\ LateRepliesStaySilent

(* The table has the rows that were submitted, in order, but for those     *)
(* whose loss was counted (storage/writer.rs).                             *)
LogIsComplete ==
  /\ part = "log" => L!TypeOK
  /\ LogKeepsOrder
  /\ EveryRowIsAccountedFor

(* What comes later finds what it was meant for: pasted lines, keys for a  *)
(* shell, a picture (app/input.rs, app/shell.rs, app/image.rs).            *)
AnswersFindTheirQuestion ==
  /\ part = "commands" => C!TypeOK
  /\ part = "shell" => H!TypeOK
  /\ part = "images" => I!TypeOK
  /\ PastesInOrder
  /\ SessionsHaveBuffers
  /\ KeysReachTheirShell
  /\ ShownIsAsked
  /\ NothingLeftOnScreen

(* Client and server agree on the login, and on the capabilities but for   *)
(* those whose last change came before the client listens for changes      *)
(* (irc/mod.rs, irc/events.rs).                                            *)
ServerAndClientAgree ==
  /\ part = "registration" => R!TypeOK
  /\ CapsAgree
  /\ LoginIsMutual

(* What was begun comes to an end under the fairness of the main loop and  *)
(* of the tasks, or waits for a server that fell silent, or for another    *)
(* page's output; and the log never keeps half of an event.                *)
WorkIsFinished ==
  /\ ChannelsAreAsked
  /\ WriterCatchesUp
  /\ CopiesGoWithTheirText
  /\ ChainsEnd
  /\ EndedShellsGo
  /\ ScreensCatchUp
  /\ LoadingEnds
  /\ RegistrationEnds

=============================================================================
