----------------------------- MODULE LogBrowser -----------------------------
(***************************************************************************)
(* One buffer of the log browser (repartee l): the table it reads, which   *)
(* the daemon keeps writing and purging, and the lines it shows, loaded    *)
(* page by page from the newest to the oldest.  A row is its SQLite id and *)
(* its time stamp; a shown line is a row, the separator of a day, or a     *)
(* local line (the answer of a command).                                   *)
(***************************************************************************)
EXTENDS Integers, Sequences, SequencesExt, FiniteSets

CONSTANTS
    PAGE_LIMIT,  \* rows per page (INITIAL_LIMIT is the same number)
    Scrollback,  \* display.scrollback_lines
    DayLength,   \* length of a day, in units of time
    MaxRows, MaxTs, MaxLocals \* bounds of the model

VARIABLES
    dbRows,      \* the rows of this buffer, in the order of their ids
    shown,       \* the lines of the buffer
    initialLoaded, \* log_initial_loaded
    exhausted,   \* history_exhausted
    firstSeen,   \* ids in the table when the browser first read it
    trimmed,     \* ids dropped by the scrollback limit (0: a line that is no row)
    nextId

vars == <<dbRows, shown, initialLoaded, exhausted, firstSeen, trimmed, nextId>>

Rows == [kind: {"row"}, id: 1..MaxRows, ts: 0..MaxTs]
Separator(ts) == [kind |-> "day", id |-> 0, ts |-> ts]
Local == [kind |-> "local", id |-> 0, ts |-> MaxTs]
Lines == Rows \cup {Separator(t) : t \in 0..MaxTs} \cup {Local}
IsRow(l) == l.kind = "row"
Ids(s) == {s[i].id : i \in {j \in DOMAIN s : IsRow(s[j])}}
TypeOK ==
    /\ dbRows \in Seq(Rows) /\ shown \in Seq(Lines)
    /\ initialLoaded \in BOOLEAN /\ exhausted \in BOOLEAN
    /\ firstSeen \subseteq 1..MaxRows /\ trimmed \subseteq 0..MaxRows /\ nextId \in 1..MaxRows + 1

\* a log written before the browser starts: time stamps follow the server's clock, not the ids
Init ==
    /\ \E n \in 0..MaxRows : \E ts \in [1..n -> 0..MaxTs] :
           /\ dbRows = [i \in 1..n |-> [kind |-> "row", id |-> i, ts |-> ts[i]]]
           /\ nextId = n + 1
    /\ shown = <<>> /\ initialLoaded = FALSE /\ exhausted = FALSE
    /\ firstSeen = {} /\ trimmed = {}

Day(ts) == ts \div DayLength
Before(r, s) == r.ts < s.ts \/ (r.ts = s.ts /\ r.id < s.id)
Chronological == SortSeq(dbRows, Before)
LastPage(s) == SubSeq(s, IF Len(s) > PAGE_LIMIT THEN Len(s) - PAGE_LIMIT + 1 ELSE 1, Len(s))

(* Mutant of PastCursor: rows of the same second are skipped. *)
PastCursorByTime(r, c) == r.ts < c.ts
PastCursor(r, c) == r.ts < c.ts \/ (r.ts = c.ts /\ r.id < c.id)

\* the newest rows, or the newest of those older than the cursor
GetMessagesPaginated(cursor) ==
    LastPage(SelectSeq(Chronological, LAMBDA r : \A c \in cursor : PastCursor(r, c)))

\* the rows with a separator where the day changes
WithSeparators(rows) ==
    FoldLeftDomain(LAMBDA out, i :
        IF i > 1 /\ Day(rows[i - 1].ts) = Day(rows[i].ts) THEN Append(out, rows[i])
        ELSE out \o <<Separator(rows[i].ts), rows[i]>>, <<>>, rows)

\* the separator at the top goes when the page above ends on the same day
DropSeparator(rows) ==
    IF rows # <<>> /\ shown[1].kind = "day" /\ Day(shown[1].ts) = Day(Last(rows).ts)
    THEN Tail(shown) ELSE shown

\* a page that is not full is the last one
AtTheEnd(rows) == Len(rows) < PAGE_LIMIT

LoadInitialMessages ==
    LET rows == GetMessagesPaginated({})
    IN  /\ ~ initialLoaded
        /\ shown' = WithSeparators(rows) \o shown
        /\ exhausted' = AtTheEnd(rows)
        /\ initialLoaded' = TRUE /\ firstSeen' = Ids(dbRows)
        /\ UNCHANGED <<dbRows, trimmed, nextId>>

\* the page above the oldest row shown; without one only the initial page can be loaded
LoadOlderMessages ==
    LET anchor == SelectSeq(shown, IsRow)
        rows == GetMessagesPaginated({anchor[1]})
    IN  /\ ~ exhausted /\ anchor # <<>>
        /\ shown' = WithSeparators(rows) \o DropSeparator(rows)
        /\ exhausted' = AtTheEnd(rows)
        /\ UNCHANGED <<dbRows, initialLoaded, firstSeen, trimmed, nextId>>

\* a command answers with a line (help, /search); the oldest lines go beyond the scrollback limit
AddLocalMessage ==
    LET all == Append(shown, Local)
        excess == IF Scrollback > 0 /\ Len(all) > Scrollback THEN Len(all) - Scrollback ELSE 0
    IN  /\ Len(SelectSeq(shown, LAMBDA l : l = Local)) < MaxLocals
        /\ shown' = SubSeq(all, excess + 1, Len(all))
        /\ trimmed' = trimmed \cup {l.id : l \in Range(SubSeq(all, 1, excess))}
        /\ UNCHANGED <<dbRows, initialLoaded, exhausted, firstSeen, nextId>>

\* the daemon logs a row, dated by the server
DaemonLogs(ts) ==
    /\ nextId <= MaxRows /\ nextId' = nextId + 1
    /\ dbRows' = Append(dbRows, [kind |-> "row", id |-> nextId, ts |-> ts])
    /\ UNCHANGED <<shown, initialLoaded, exhausted, firstSeen, trimmed>>

\* the daemon deletes what is too old
DaemonPurges(cutoff) ==
    /\ dbRows' = SelectSeq(dbRows, LAMBDA r : r.ts >= cutoff)
    /\ dbRows' # dbRows
    /\ UNCHANGED <<shown, initialLoaded, exhausted, firstSeen, trimmed, nextId>>

Next ==
    \/ LoadInitialMessages \/ LoadOlderMessages \/ AddLocalMessage
    \/ \E t \in 0..MaxTs : DaemonLogs(t) \/ DaemonPurges(t)
Spec == Init /\ [][Next]_vars

----------------------------------------------------------------------------
Loaded == SelectSeq(shown, IsRow)

(* Paging is lossless: the rows shown are in order, none twice, and no row of the table that     *)
(* was there from the start is missing between two rows shown, although pages end inside a       *)
(* second and the daemon writes and purges between two pages. *)
PagesHaveNoHoles ==
    /\ \A i \in 1..Len(Loaded) - 1 : Before(Loaded[i], Loaded[i + 1])
    /\ \A r \in Range(dbRows) :
           r.id \in firstSeen /\ Loaded # <<>> /\ Before(Loaded[1], r) => r \in Range(Loaded)

(* History that is said to end has been loaded to the end, unless lines were dropped again. *)
TheEndIsTheEnd ==
    exhausted => \A r \in Range(dbRows) : r.id \in firstSeen => r.id \in Ids(shown) \cup trimmed

(* Every row stands under the separator of its day, and no separator is repeated, however the    *)
(* pages cut the days. *)
EveryDayHasOneHeader ==
    \A i \in DOMAIN shown : IsRow(shown[i]) /\ trimmed = {} =>
        /\ i > 1 /\ Day(shown[i - 1].ts) = Day(shown[i].ts)
        /\ \A j \in DOMAIN shown : i < j /\ shown[j].kind = "day" => Day(shown[j].ts) # Day(shown[i].ts)

(* Every line of the log can be reached: what the scrollback limit dropped can be loaded again. *)
DroppedLinesComeBack ==
    exhausted => \A r \in Range(dbRows) : r.id \in firstSeen => r.id \in Ids(shown)
=============================================================================
