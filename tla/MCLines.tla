------------------------------ MODULE MCLines -------------------------------
(***************************************************************************)
(* The lines on their way and afterwards, part by part: the log browser,   *)
(* the mentions, the substitution of short URLs in one line, and the input *)
(* line; then the page of a browser that follows the terminal, its         *)
(* scrolling, its input line and the formatting of a line. Each part runs  *)
(* by itself.                                                              *)
(***************************************************************************)
EXTENDS Naturals, Sequences, TLC

VARIABLE part
VARIABLES dbRows, browser_shown, initialLoaded, exhausted, firstSeen, trimmed, nextId
VARIABLES table, buffer, mentions_shown, enabled, purging, now, lastPurge, counted, badge,
          arrived, cleared, mentions_steps
VARIABLES pendingText, lineIn, lineOut, failures, urlCache, uses
VARIABLES value, cursor, history, historyIndex, savedInput, tab, spell, spellMode, crashed,
          draft, unspelled, stale, adrift, keys
VARIABLES open, sync_active, previous, log, lastId, seen, snap, phase, session, wsActive, bus,
          lagged, down, up, cBufs, cActive, cMsgs, cLoaded, cPending, sync_wire, sync_steps
VARIABLES at, top, height, view, event, skip, frames, pinScheduled, resizeThrottle, missed,
          left, scroll_steps
VARIABLES texts, carets, tabs, visible, typing_active, sent, opened, typing_steps
VARIABLES alphabet, line

browserVars == <<dbRows, browser_shown, initialLoaded, exhausted, firstSeen, trimmed, nextId>>
mentionsVars == <<table, buffer, mentions_shown, enabled, purging, now, lastPurge, counted,
                  badge, arrived, cleared, mentions_steps>>
linksVars == <<pendingText, lineIn, lineOut, failures, urlCache, uses>>
inputVars == <<value, cursor, history, historyIndex, savedInput, tab, spell, spellMode, crashed,
               draft, unspelled, stale, adrift, keys>>
syncVars == <<open, sync_active, previous, log, lastId, seen, snap, phase, session, wsActive,
              bus, lagged, down, up, cBufs, cActive, cMsgs, cLoaded, cPending, sync_wire,
              sync_steps>>
scrollVars == <<at, top, height, view, event, skip, frames, pinScheduled, resizeThrottle,
                missed, left, scroll_steps>>
typingVars == <<texts, carets, tabs, visible, typing_active, sent, opened, typing_steps>>
drawnVars == <<alphabet, line>>
mcVars == <<part, browserVars, mentionsVars, linksVars, inputVars, syncVars, scrollVars,
          typingVars, drawnVars>>

(* Lines with a short URL, with one that begins like another, with the same *)
(* twice, with a trailing mark, and with a bracket.                        *)
SomeTexts == {<<"h">>, <<"h", "a">>, <<"h", "a", "a">>, <<"h", "a", "_", "h", "a", "a">>,
              <<"h", "a", "a", "_", "h", "a">>, <<"h", "a", ".", "_", "h", "a">>,
              <<"h", "a", "a", "a", "_", "h", "a">>, <<"a", "h", "a">>, <<"h", "(", "a">>,
              <<"h", "a", "(", "_", "h", "a">>}
(* "W" takes four bytes and two UTF-16 units. *)
SomeNicks == "b1" :> {<<"a">>, <<"a", "W">>} @@ "b2" :> {<<"W">>}
(* Lines of theme and mIRC codes, of colours, of emotes and of links; the  *)
(* shortest with two hex colours has six characters.                       *)
LongLines == {{"a", "1", ",", "^D", "^Q"}, {"a", "9", "%", "r", "^C"},
              {"a", ":", "1", "http", ")", "^B"}}
SomeAlphabets == {{"a", "1", "%", "_", "N", "r", "^B", "^C", "^O"},
                  {"a", "1", "%", "Z", "z", "N", "U", "I", "|"}, {"a", "1", "9", ",", "^C", "^V", "^O"},
                  {"a", ":", "http", " ", "^V", "%", "ee"}} \cup LongLines

B == INSTANCE LogBrowser WITH
         PAGE_LIMIT <- 2, Scrollback <- 5, DayLength <- 2, MaxRows <- 5, MaxTs <- 2,
         MaxLocals <- 2, shown <- browser_shown
M == INSTANCE Mentions WITH
         Week <- 2, Hour <- 1, Delays <- {0, 3}, Limit <- 2, MaxTime <- 3, MaxMentions <- 3,
         MaxSteps <- 4,
         shown <- mentions_shown, steps <- mentions_steps
U == INSTANCE UrlShortening WITH
         Texts <- SomeTexts, MinLength <- 2, CacheCap <- 2
I == INSTANCE InputLine WITH
         Chars <- {"b", "e", "_", ",", "W"}, MaxHistory <- 2, MaxLength <- 4, MaxKeys <- 5
P == INSTANCE WebSync WITH
         BusCap <- 2, Backlog <- FALSE, Surprises <- TRUE, MaxLines <- 4, MaxSteps <- 3,
         MaxSessions <- 2, active <- sync_active, wire <- sync_wire, steps <- sync_steps
C == INSTANCE ChatView WITH
         SCROLL_THRESHOLD <- 1, Views <- {2, 4}, Growths <- {1, 3}, Card <- 3, MaxHeight <- 8,
         MaxSteps <- 5, steps <- scroll_steps
W == INSTANCE WebInput WITH
         Chars <- {"a", "W", " ", "/", ":"}, Wide <- {"W"}, Commands <- {<<"a">>},
         Paths <- {<<"a">>}, Emotes <- {<<"a">>, <<"W">>}, SetPrefix <- <<"/", "a", " ">>,
         Nicks <- SomeNicks, Dialogs <- {<<"/">>}, Tokens <- {<<"W">>}, Pasted <- {<<"W">>},
         Layouts <- {"desktop", "mobile"}, MaxText <- 5, MaxSteps <- 5, active <- typing_active,
         steps <- typing_steps
F == INSTANCE Formatting WITH
         Alphabets <- SomeAlphabets, HexDigits <- 2, MaxLength <- 5, Longer <- LongLines

(* The variables of a part that does not run have no value of their own.   *)
Idle == "idle"
BrowserOff ==
  /\ dbRows = Idle /\ browser_shown = Idle /\ initialLoaded = Idle /\ exhausted = Idle
  /\ firstSeen = Idle /\ trimmed = Idle /\ nextId = Idle
MentionsOff ==
  /\ table = Idle /\ buffer = Idle /\ mentions_shown = Idle /\ enabled = Idle /\ purging = Idle
  /\ now = Idle /\ lastPurge = Idle /\ counted = Idle /\ badge = Idle /\ arrived = Idle /\ cleared = Idle
  /\ mentions_steps = Idle
LinksOff ==
  /\ pendingText = Idle /\ lineIn = Idle /\ lineOut = Idle /\ failures = Idle /\ urlCache = Idle
  /\ uses = Idle
InputOff ==
  /\ value = Idle /\ cursor = Idle /\ history = Idle /\ historyIndex = Idle /\ savedInput = Idle
  /\ tab = Idle /\ spell = Idle /\ spellMode = Idle /\ crashed = Idle /\ draft = Idle
  /\ unspelled = Idle /\ stale = Idle /\ adrift = Idle /\ keys = Idle
SyncOff ==
  /\ open = Idle /\ sync_active = Idle /\ previous = Idle /\ log = Idle /\ lastId = Idle
  /\ seen = Idle /\ snap = Idle /\ phase = Idle /\ session = Idle /\ wsActive = Idle
  /\ bus = Idle /\ lagged = Idle /\ down = Idle /\ up = Idle /\ cBufs = Idle /\ cActive = Idle
  /\ cMsgs = Idle /\ cLoaded = Idle /\ cPending = Idle /\ sync_wire = Idle /\ sync_steps = Idle
ScrollOff ==
  /\ at = Idle /\ top = Idle /\ height = Idle /\ view = Idle /\ event = Idle /\ skip = Idle
  /\ frames = Idle /\ pinScheduled = Idle /\ resizeThrottle = Idle /\ missed = Idle
  /\ left = Idle /\ scroll_steps = Idle
TypingOff ==
  /\ texts = Idle /\ carets = Idle /\ tabs = Idle /\ visible = Idle /\ typing_active = Idle
  /\ sent = Idle /\ opened = Idle /\ typing_steps = Idle
DrawnOff ==
  /\ alphabet = Idle /\ line = Idle

BrowserOnly == UNCHANGED <<part, mentionsVars, linksVars, inputVars, syncVars, scrollVars, typingVars, drawnVars>>
MentionsOnly == UNCHANGED <<part, browserVars, linksVars, inputVars, syncVars, scrollVars, typingVars, drawnVars>>
LinksOnly == UNCHANGED <<part, browserVars, mentionsVars, inputVars, syncVars, scrollVars, typingVars, drawnVars>>
InputOnly == UNCHANGED <<part, browserVars, mentionsVars, linksVars, syncVars, scrollVars, typingVars, drawnVars>>
SyncOnly == UNCHANGED <<part, browserVars, mentionsVars, linksVars, inputVars, scrollVars, typingVars, drawnVars>>
ScrollOnly == UNCHANGED <<part, browserVars, mentionsVars, linksVars, inputVars, syncVars, typingVars, drawnVars>>
TypingOnly == UNCHANGED <<part, browserVars, mentionsVars, linksVars, inputVars, syncVars, scrollVars, drawnVars>>
DrawnOnly == UNCHANGED <<part, browserVars, mentionsVars, linksVars, inputVars, syncVars, scrollVars, typingVars>>

MCInit == \/ part = "browser" /\ B!Init /\ MentionsOff /\ LinksOff /\ InputOff /\ SyncOff /\ ScrollOff /\ TypingOff /\ DrawnOff
          \/ part = "mentions" /\ M!Init /\ BrowserOff /\ LinksOff /\ InputOff /\ SyncOff /\ ScrollOff /\ TypingOff /\ DrawnOff
          \/ part = "links" /\ U!Init /\ BrowserOff /\ MentionsOff /\ InputOff /\ SyncOff /\ ScrollOff /\ TypingOff /\ DrawnOff
          \/ part = "input" /\ I!Init /\ BrowserOff /\ MentionsOff /\ LinksOff /\ SyncOff /\ ScrollOff /\ TypingOff /\ DrawnOff
          \/ part = "sync" /\ P!Init /\ BrowserOff /\ MentionsOff /\ LinksOff /\ InputOff /\ ScrollOff /\ TypingOff /\ DrawnOff
          \/ part = "scroll" /\ C!Init /\ BrowserOff /\ MentionsOff /\ LinksOff /\ InputOff /\ SyncOff /\ TypingOff /\ DrawnOff
          \/ part = "typing" /\ W!Init /\ BrowserOff /\ MentionsOff /\ LinksOff /\ InputOff /\ SyncOff /\ ScrollOff /\ DrawnOff
          \/ part = "drawn" /\ F!Init /\ BrowserOff /\ MentionsOff /\ LinksOff /\ InputOff /\ SyncOff /\ ScrollOff /\ TypingOff
MCNext == \/ part = "browser" /\ B!Next /\ BrowserOnly
          \/ part = "mentions" /\ M!Next /\ MentionsOnly
          \/ part = "links" /\ U!Next /\ LinksOnly
          \/ part = "input" /\ I!Next /\ InputOnly
          \/ part = "sync" /\ P!Next /\ SyncOnly
          \/ part = "scroll" /\ C!Next /\ ScrollOnly
          \/ part = "typing" /\ W!Next /\ TypingOnly
          \/ part = "drawn" /\ F!Next /\ DrawnOnly
MCSpec == MCInit /\ [][MCNext]_mcVars

-----------------------------------------------------------------------------
(* Paging is lossless: the rows shown are in order, none twice, and no row *)
(* of the table that was there from the start is missing between two rows  *)
(* shown, although pages end inside a second and the daemon writes and     *)
(* purges between two pages.                                               *)
PagesHaveNoHoles == part = "browser" => B!PagesHaveNoHoles

(* Every row stands under the separator of its day, and no separator is    *)
(* repeated, however the pages cut the days.                               *)
EveryDayHasOneHeader == part = "browser" => B!EveryDayHasOneHeader

(* History that is said to end has been loaded to the end, unless lines    *)
(* were dropped again.                                                     *)
TheEndIsTheEnd == part = "browser" => B!TheEndIsTheEnd

(* What /clear removed never comes back, neither when the buffer is hidden *)
(* and shown again nor after a restart (docs/commands/mentions.md: /clear  *)
(* also deletes all mentions from the database).                           *)
ClearedStaysCleared == part = "mentions" => M!ClearedStaysCleared

(* Nothing in the buffer is older than the week and the time between two   *)
(* purges, however often it was hidden, shown or the program restarted.    *)
OldMentionsLeave == part = "mentions" => M!OldMentionsLeave

(* The buffer, when there is one, shows every channel mention of the week  *)
(* that was not cleared, as long as the table holds no more than the       *)
(* buffer can: hiding, showing, restarting and purging lose none.          *)
RecentAreShown == part = "mentions" => M!RecentAreShown

(* When every URL of a line is answered, none is cut, although one URL may *)
(* be the beginning of another and stand in the line several times.        *)
AnsweredLinksAreWhole == part = "links" => U!AnsweredLinksAreWhole

(* The cache holds the URLs used last.                                     *)
CacheHoldsTheMostRecent == part = "links" => U!CacheHoldsTheMostRecent

(* The cursor is between two characters of the text, so that every key     *)
(* finds it there, until a correction is put in that went stale, or in     *)
(* whose word the cursor stands: the keys that edit the text and move the  *)
(* cursor leave spell_state as it is.                                      *)
CursorIsInTheText == part = "input" => I!CursorIsInTheText

(* A correction on offer replaces its word and nothing else, however often *)
(* it is cycled and wherever the cursor goes, until the text is edited by  *)
(* a key that leaves spell_state.                                          *)
CorrectionsAreLocal == part = "input" => I!CorrectionsAreLocal

(* A key ends the program for a stale correction, a cursor that one left   *)
(* inside of a character, or a space of several bytes, and for nothing     *)
(* else.                                                                   *)
CrashesHaveACause == part = "input" => I!CrashesHaveACause

(* A completion that can be cycled is the text: no other key leaves a      *)
(* stale one behind.                                                       *)
TabShowsItsMatch == part = "input" => I!TabShowsItsMatch

(* Leaving the history downwards brings back what was being written.       *)
HistoryKeepsTheDraft == [][part = "input" => I!HistoryKeepsTheDraftStep]_mcVars

(* In no buffer does the page show a line twice, or after a later one,     *)
(* whatever is fetched and arrives live, lags and is sent again (web-ui    *)
(* state.rs, NewMessage and Messages).                                     *)
PageKeepsOrder == part = "sync" => P!PageKeepsOrder

(* Until bob changes his nick: when nothing is under way, the page lists   *)
(* exactly the open buffers and shows all lines of the one it is on,       *)
(* whatever was lost, dropped or sent twice.                               *)
PageIsComplete == part = "sync" => P!PageIsComplete

(* Who is taken to be at the bottom sees it once the frames are drawn,     *)
(* unless a scroll of the user was skipped.                                *)
FollowersAreServed == part = "scroll" => C!FollowersAreServed

(* Messages, images and the window never move somebody who reads further   *)
(* up: once that is known, only a switch of buffers or the button does.    *)
ReadersStay == [][part = "scroll" => C!ReadersStayStep]_mcVars

(* The caret is never in the middle of a character nor past the text,      *)
(* though the program computes it in bytes.                                *)
CaretIsBetween == part = "typing" => W!CaretIsBetween

(* Tab puts its match in the place of the word before the caret, or of all *)
(* that is before it, and leaves what follows the caret as it is.          *)
TabReplacesTheWord == [][part = "typing" => W!TabReplacesTheWordStep]_mcVars

(* The draft of the layout that is hidden stays as it was left.            *)
HiddenDraftsStay == [][part = "typing" => W!HiddenDraftsStayStep]_mcVars

(* A line without emotes is shown with the same text in the same colours   *)
(* and attributes in the terminal and in the browser (theme/parser.rs and  *)
(* web-ui/src/format.rs, two parsers in two crates).                       *)
SameOnBothScreens == part = "drawn" => F!SameOnBothScreens

(* What the browser cuts into links and emotes is, put together, the text  *)
(* that it parsed (linkify_spans, emotify_spans).                          *)
PiecesMakeTheLine == part = "drawn" => F!PiecesMakeTheLine

(* Terminal and browser find the same emotes outside of links, though one  *)
(* looks for them before and the other after the codes are parsed          *)
(* (emotes/parse.rs: keep the two rules in lockstep).                      *)
SameEmotes == part = "drawn" => F!SameEmotes

(* What is shown of the log is what the table has, while it is written,    *)
(* cleared and purged (storage/query.rs, app/log_browser.rs,               *)
(* app/mentions.rs).                                                       *)
PagesAndMentionsAgree ==
  /\ part = "browser" => B!TypeOK
  /\ part = "mentions" => M!TypeOK
  /\ PagesHaveNoHoles
  /\ EveryDayHasOneHeader
  /\ TheEndIsTheEnd
  /\ ClearedStaysCleared
  /\ OldMentionsLeave
  /\ RecentAreShown

(* A correction changes the word it is about until its range goes stale, a *)
(* completion that is cycled is the text, and a short URL takes the place  *)
(* of its long one; a stale range and a wide space are all that ends the   *)
(* program (ui/input.rs, app/shrink.rs, shrink/mod.rs).                    *)
EditsAreLocal ==
  /\ part = "input" => I!TypeOK
  /\ part = "links" => U!TypeOK
  /\ CursorIsInTheText
  /\ CorrectionsAreLocal
  /\ CrashesHaveACause
  /\ TabShowsItsMatch
  /\ AnsweredLinksAreWhole
  /\ CacheHoldsTheMostRecent

(* What no step may do: lose what was being typed when the history was     *)
(* opened, pull down who reads further up, replace other text than the     *)
(* word Tab is at, or touch the draft of the input line that is hidden.    *)
LinesStayWhereTheyWere ==
  /\ HistoryKeepsTheDraft
  /\ ReadersStay
  /\ TabReplacesTheWord
  /\ HiddenDraftsStay

(* The page shows what the client has, whatever was lost on the way, at    *)
(* the end of the list for who follows it, with the caret between two      *)
(* characters (web/ws.rs, app/web.rs, the components of web-ui).           *)
PageIsTrue ==
  /\ part = "sync" => P!TypeOK
  /\ part = "scroll" => C!TypeOK
  /\ part = "typing" => W!TypeOK
  /\ PageKeepsOrder
  /\ PageIsComplete
  /\ FollowersAreServed
  /\ CaretIsBetween


=============================================================================
