------------------------------ MODULE Mentions ------------------------------
(***************************************************************************)
(* Highlights kept twice: as rows of the table "mentions", stored when the *)
(* main loop drains its web events, and as lines of the buffer             *)
(* "_mentions", which exists only while display.mentions_buffer is on and  *)
(* is filled from the table whenever it is created                         *)
(* (src/src/app/mentions.rs, src/src/storage/query.rs).  An hourly purge   *)
(* trims both, the table on a thread of its own.  A page of the web front  *)
(* end shows a count.  The database is there and answers, and links of     *)
(* received lines are not shortened (shrink.enabled, off unless set).      *)
(*                                                                         *)
(* A mention is [id, ts, at, channel]: its place in the order of arrival,  *)
(* the second the server says it was said at, the second it arrived in,    *)
(* and whether it was said in a channel or in a query.                     *)
(***************************************************************************)
EXTENDS Integers, Sequences, FiniteSets, SequencesExt

CONSTANTS Week, Hour,   \* age limit of a mention, time between two purges
          Delays,       \* ages a message arrives with (server-time, a playback)
          Limit,        \* 1000: lines of the buffer, rows read into it
          MaxTime, MaxMentions, MaxSteps  \* bounds

VARIABLES table,    \* the rows, oldest first
          buffer,   \* the lines of "_mentions", oldest first
          shown,    \* the buffer exists
          enabled,  \* display.mentions_buffer
          purging,  \* cutoffs of the purges still waiting for their thread
          now, lastPurge,
          counted,  \* the unread rows, as the snapshot for new pages has them
          badge,    \* what the open page counts; NoPage without one
          arrived,  \* history: the mentions so far
          cleared,  \* history: ids removed by /clear
          steps
vars == <<table, buffer, shown, enabled, purging, now, lastPurge, counted,
          badge, arrived, cleared, steps>>

NoPage == -1
Ids(s) == {s[i].id : i \in DOMAIN s}
Newest(s, n) == IF Len(s) <= n THEN s ELSE SubSeq(s, Len(s) - n + 1, Len(s))
Oldest(s, n) == IF Len(s) <= n THEN s ELSE SubSeq(s, 1, n)
Since(s, cutoff) == SelectSeq(s, LAMBDA m : m.ts > cutoff)
From(s, cutoff) == SelectSeq(s, LAMBDA m : m.ts >= cutoff)

(* ORDER BY timestamp ASC LIMIT: the oldest rows of the week.              *)
Earlier(m, n) == m.ts < n.ts \/ (m.ts = n.ts /\ m.id < n.id)
LoadRecentMentions == Oldest(SortSeq(Since(table, now - Week), Earlier), Limit)

(* create_mentions_buffer: an existing buffer is left as it is.            *)
CreateMentionsBuffer ==
    /\ shown' = TRUE
    /\ buffer' = IF shown THEN buffer ELSE LoadRecentMentions
RemoveBuffer == shown' = FALSE /\ buffer' = <<>>

Init ==
    /\ table = <<>> /\ buffer = <<>> /\ shown \in BOOLEAN /\ enabled = shown
    /\ purging = {} /\ now = 0 /\ lastPurge = 0 /\ counted = 0 /\ badge = NoPage
    /\ arrived = <<>> /\ cleared = {} /\ steps = 0

Step == steps < MaxSteps /\ steps' = steps + 1

(* A message that names us, in a line or in an action: its row is stored   *)
(* and counted; the buffer takes it only when it was said in a channel.    *)
Arriving(channel, delay) ==
    [id |-> Len(arrived) + 1, ts |-> now - delay, at |-> now, channel |-> channel]
AddMentionToBuffer(m) == Newest(Append(buffer, m), Limit)
RecordMention(m) == Append(table, m)
Counted(count) == IF count = NoPage THEN NoPage ELSE count + 1
Highlight(channel, delay) ==
    LET m == Arriving(channel, delay)
    IN  /\ Step /\ Len(arrived) < MaxMentions
        /\ arrived' = Append(arrived, m)
        /\ table' = RecordMention(m)
        /\ buffer' = IF shown /\ channel THEN AddMentionToBuffer(m) ELSE buffer
        /\ badge' = Counted(badge)
        /\ UNCHANGED <<shown, enabled, purging, now, lastPurge, counted, cleared>>

Kept == <<purging, now, lastPurge, counted, badge, arrived>>

(* /close in the buffer and /set display.mentions_buffer false.            *)
Hide == /\ Step /\ enabled' = FALSE /\ RemoveBuffer
        /\ UNCHANGED <<table, cleared, Kept>>
(* /set display.mentions_buffer true.                                      *)
Show == /\ Step /\ enabled' = TRUE /\ CreateMentionsBuffer
        /\ UNCHANGED <<table, cleared, Kept>>
(* /mentions makes the buffer that is missing, if it is switched on.       *)
CmdMentions ==
    /\ Step /\ enabled /\ CreateMentionsBuffer
    /\ UNCHANGED <<table, enabled, cleared, Kept>>
(* /reload takes the setting from the file, whatever was written there,    *)
(* and leaves the buffer.                                                  *)
CmdReload ==
    /\ Step /\ enabled' \in BOOLEAN
    /\ UNCHANGED <<table, buffer, shown, cleared, Kept>>

(* /clear in the buffer empties the table as well (truncate_mentions).     *)
(* Mutant of TruncatedMentions: the rows stay.                             *)
NotTruncated == table
TruncatedMentions == <<>>
CmdClear ==
    /\ Step /\ shown
    /\ buffer' = <<>> /\ table' = TruncatedMentions
    /\ cleared' = cleared \cup Ids(arrived)
    /\ UNCHANGED <<shown, enabled, Kept>>

(* The tick of a second renews the snapshot for new pages: its count is    *)
(* that of the unread rows, or 0 when the log was being written            *)
(* (try_lock).  An hour after the last purge it also trims the buffer and  *)
(* hands the table to a thread.  No row is ever marked read.               *)
Counts == {0, Len(table)}
Retained(s, cutoff) == Newest(From(s, cutoff), Limit)
Tick ==
    /\ now < MaxTime /\ now' = now + 1 /\ counted' \in Counts
    /\ IF now' - lastPurge < Hour
       THEN UNCHANGED <<buffer, purging, lastPurge>>
       ELSE /\ lastPurge' = now'
            /\ purging' = purging \cup {now' - Week}
            /\ buffer' = Retained(buffer, now' - Week)
    /\ UNCHANGED <<table, shown, enabled, badge, arrived, cleared, steps>>

PurgeOldMentions ==
    \E cutoff \in purging :
        /\ table' = From(table, cutoff) /\ purging' = purging \ {cutoff}
        /\ UNCHANGED <<buffer, shown, enabled, now, lastPurge, counted, badge,
                       arrived, cleared, steps>>

(* The program ends and starts again: purges that did not run are lost,    *)
(* and the setting is what the file says by then.                          *)
Restart ==
    /\ Step /\ purging' = {} /\ lastPurge' = now /\ counted' = 0 /\ badge' = NoPage
    /\ enabled' \in BOOLEAN /\ shown' = enabled'
    /\ buffer' = IF enabled' THEN LoadRecentMentions ELSE <<>>
    /\ UNCHANGED <<table, now, arrived, cleared>>

(* A page connects and takes the count of the snapshot: that of the last   *)
(* tick, or of the last change of the buffers since, which renews it too.  *)
SyncInit ==
    /\ Step /\ badge' \in {counted} \cup Counts
    /\ UNCHANGED <<table, buffer, shown, enabled, purging, now, lastPurge,
                   counted, arrived, cleared>>
(* The page asks for the list, which sets its count to zero.               *)
WebFetchMentions ==
    /\ Step /\ badge # NoPage /\ badge' = 0
    /\ UNCHANGED <<table, buffer, shown, enabled, purging, now, lastPurge,
                   counted, arrived, cleared>>

Next == \/ \E c \in BOOLEAN, d \in Delays : Highlight(c, d)
        \/ Hide \/ Show \/ CmdMentions \/ CmdReload \/ CmdClear
        \/ Tick \/ PurgeOldMentions \/ Restart \/ SyncInit \/ WebFetchMentions
Spec == Init /\ [][Next]_vars

-----------------------------------------------------------------------------
TypeOK ==
    /\ Ids(table) \cup Ids(buffer) \subseteq 1..Len(arrived)
    /\ shown \in BOOLEAN /\ enabled \in BOOLEAN /\ (~shown => buffer = <<>>)
    /\ lastPurge <= now /\ counted >= 0 /\ badge >= NoPage /\ Len(buffer) <= Limit
    /\ cleared \subseteq 1..Len(arrived)

(* What /clear removed never comes back, neither when the buffer is hidden *)
(* and shown again nor after a restart (docs/commands/mentions.md: /clear  *)
(* also deletes all mentions from the database).                           *)
ClearedStaysCleared == (Ids(table) \cup Ids(buffer)) \cap cleared = {}

(* A mention older than the week and the time between two purges is not in *)
(* the buffer, however often it was hidden, shown or the program           *)
(* restarted, unless it arrived that old since the last purge.             *)
OldMentionsLeave ==
    \A i \in DOMAIN buffer : \/ now - buffer[i].ts <= Week + Hour
                             \/ now - buffer[i].at <= Hour

(* The buffer, when there is one, shows every channel mention of the week  *)
(* that was not cleared, as long as the table holds no more than the       *)
(* buffer can: hiding, showing, restarting and purging lose none.          *)
Wanted == {i \in DOMAIN arrived : /\ arrived[i].channel /\ i \notin cleared
                                  /\ now - arrived[i].ts < Week}
RecentAreShown ==
    shown /\ Cardinality(Ids(arrived) \ cleared) <= Limit => Wanted \subseteq Ids(buffer)

(* docs/commands/mentions.md: the scrollback is 7 days or 1000 messages,   *)
(* whichever is smaller: the newest of them are the ones shown.            *)
NewestIsShown ==
    shown => \A i \in Wanted : (\A j \in Wanted : j <= i) => i \in Ids(buffer)

(* Hiding the buffer and showing it again leaves what it shows as it was:  *)
(* the lines taken live are those the table gives back.                    *)
HidingChangesNothing ==
    [][ shown /\ ~shown' /\ now = now' => Range(buffer) = Range(LoadRecentMentions) ]_vars

(* A mention the page has fetched is not counted again for the same page   *)
(* or the next one (mark_mentions_read exists for this).                   *)
FetchedIsRead ==
    [][ badge = 0 /\ badge' > 0 => Len(arrived') > Len(arrived) ]_vars
=============================================================================
