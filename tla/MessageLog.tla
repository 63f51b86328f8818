----------------------------- MODULE MessageLog -----------------------------
(***************************************************************************)
(* The message log: the rows the handlers submit, the background writer    *)
(* that flushes them in transactions, and the purges. A row keeps what the *)
(* log's own logic looks at: its number (the order of submission), its     *)
(* buffer, its time stamp, whether it is an event and, for the copies of   *)
(* an event seen in several channels, the row that holds the text.         *)
(***************************************************************************)
EXTENDS Integers, Sequences, SequencesExt, FiniteSets

CONSTANTS
    LastBuffer,   \* the chat buffers are numbered in the order of the buffer table
    BATCH_SIZE,   \* rows that trigger a flush
    ChannelCap,   \* capacity of the channel to the writer
    MAX_PENDING_ROWS, \* rows kept in memory while the database refuses them
    KeepEvents,   \* event retention, in units of the clock
    KeepAll,      \* retention of every row
    MaxRows, MaxClock, MaxFaults \* bounds of the model

LogAssumption ==
    \A n \in {LastBuffer, BATCH_SIZE, ChannelCap, MAX_PENDING_ROWS, KeepEvents, KeepAll, MaxRows,
              MaxClock, MaxFaults} : n \in Nat

VARIABLES
    rowTx,     \* rows in the channel to the writer
    queue,     \* rows the writer holds
    writing,   \* rows handed to the blocking flush task
    messages,  \* the table, in the order of insertion
    writer,    \* what the writer task is doing
    closing,   \* the main loop has ended and asked the writer to stop
    logClock,  \* wall clock
    rowCount,  \* rows submitted so far
    lost,      \* rows dropped by the channel, the cap or a failing database
    purged,    \* rows deleted by age
    faults     \* database failures so far

vars == <<rowTx, queue, writing, messages, writer, closing, logClock, rowCount, lost, purged, faults>>

Buffers == 1..LastBuffer
Rows == [id: 1..MaxRows, buf: Buffers, ts: 0..MaxClock, event: BOOLEAN, ref: 0..MaxRows]
Ids(s) == {s[i].id : i \in DOMAIN s}
TypeOK ==
    /\ \A s \in {rowTx, queue, writing, messages} : s \in Seq(Rows)
    /\ Len(rowTx) <= ChannelCap /\ Len(queue) <= MAX_PENDING_ROWS
    /\ writer \in {"waits", "flushes", "last flush", "stopped"}
    /\ closing \in BOOLEAN /\ logClock \in 0..MaxClock /\ rowCount \in 0..MaxRows /\ faults \in 0..MaxFaults
    /\ lost \subseteq 1..MaxRows /\ purged \subseteq 1..MaxRows

Init ==
    /\ rowTx = <<>> /\ queue = <<>> /\ writing = <<>> /\ messages = <<>>
    /\ writer = "waits" /\ closing = FALSE /\ logClock = 0 /\ rowCount = 0
    /\ lost = {} /\ purged = {} /\ faults = 0

----------------------------------------------------------------------------
(* Submission, in the main loop. *)

\* the row of a message of buffer b; a server-time tag may date it back
LogRow(b, event, id, ref, ts) == [id |-> id, buf |-> b, ts |-> ts, event |-> event, ref |-> ref]

\* rows that the bounded channel takes, the rest are dropped
TrySend(rows) == LET room == ChannelCap - Len(rowTx) IN SubSeq(rows, 1, IF room < Len(rows) THEN room ELSE Len(rows))
MaybeLog(rows) ==
    /\ rowCount + Len(rows) <= MaxRows
    /\ rowCount' = rowCount + Len(rows)
    /\ rowTx' = rowTx \o TrySend(rows)
    /\ lost' = lost \cup (Ids(rows) \ Ids(TrySend(rows)))

\* a message of one buffer
AddMessage(b, ts) ==
    /\ writer # "stopped" /\ ~ closing
    /\ MaybeLog(<<LogRow(b, FALSE, rowCount + 1, 0, ts)>>)
    /\ UNCHANGED <<queue, writing, messages, writer, closing, logClock, purged, faults>>

\* the buffers that a QUIT or NICK is seen in, in the order of the table
Affected ==
    {bs \in UNION {[1..n -> Buffers] : n \in Buffers} :
        \A i, j \in DOMAIN bs : i < j => bs[i] < bs[j]}
\* the first row has the text, the others refer to it
FanOut(bs, ts) ==
    [i \in DOMAIN bs |-> LogRow(bs[i], TRUE, rowCount + i, IF i = 1 THEN 0 ELSE rowCount + 1, ts)]
HandleQuit(bs, ts) ==
    /\ writer # "stopped" /\ ~ closing
    /\ MaybeLog(FanOut(bs, ts))
    /\ UNCHANGED <<queue, writing, messages, writer, closing, logClock, purged, faults>>

----------------------------------------------------------------------------
(* The writer task. *)

\* the oldest rows go when the database has refused too many
CapPendingRows(q) == IF Len(q) <= MAX_PENDING_ROWS THEN q ELSE SubSeq(q, Len(q) - MAX_PENDING_ROWS + 1, Len(q))

\* the queue moves into the flush, which runs on another thread
FlushBlocking(q, state) == writing' = q /\ queue' = <<>> /\ writer' = state

\* one row arrives
Receive ==
    /\ writer = "waits" /\ rowTx # <<>>
    /\ rowTx' = Tail(rowTx)
    /\ LET q == CapPendingRows(Append(queue, Head(rowTx)))
       IN  /\ lost' = lost \cup ((Ids(queue) \cup {Head(rowTx).id}) \ Ids(q))
           /\ IF Len(q) >= BATCH_SIZE
              THEN FlushBlocking(q, "flushes")
              ELSE queue' = q /\ UNCHANGED <<writing, writer>>
    /\ UNCHANGED <<messages, closing, logClock, rowCount, purged, faults>>

\* the one-second tick
(* Mutant of FlushTick: only a full batch is written. *)
FlushTickFullBatches ==
    /\ writer = "waits" /\ Len(queue) >= BATCH_SIZE
    /\ FlushBlocking(queue, "flushes")
    /\ UNCHANGED <<rowTx, messages, closing, logClock, rowCount, lost, purged, faults>>
FlushTick ==
    /\ writer = "waits" /\ queue # <<>>
    /\ FlushBlocking(queue, "flushes")
    /\ UNCHANGED <<rowTx, messages, closing, logClock, rowCount, lost, purged, faults>>

\* the main loop has ended: drain the channel, row by row within the cap, and flush once
Drained == CapPendingRows(queue \o rowTx)
ShutDown ==
    /\ closing /\ writer = "waits"
    /\ rowTx' = <<>>
    /\ lost' = lost \cup ((Ids(queue) \cup Ids(rowTx)) \ Ids(Drained))
    /\ IF Drained = <<>> THEN writer' = "stopped" /\ UNCHANGED <<queue, writing>>
       ELSE FlushBlocking(Drained, "last flush")
    /\ UNCHANGED <<messages, closing, logClock, rowCount, purged, faults>>

\* what the writer does once the flush has returned the rows `left`
(* Mutant of Resume: the rows not written are dropped. *)
ResumeForgetting(left) ==
    writing' = <<>> /\ queue' = <<>> /\ writer' = IF writer = "flushes" THEN "waits" ELSE "stopped"
Resume(left) ==
    /\ writing' = <<>>
    /\ IF writer = "flushes" THEN queue' = left /\ writer' = "waits"
       ELSE queue' = <<>> /\ writer' = "stopped"

\* every row inserted and committed
FlushCommits ==
    /\ writing # <<>>
    /\ messages' = messages \o writing
    /\ Resume(<<>>)
    /\ UNCHANGED <<rowTx, closing, logClock, rowCount, lost, purged, faults>>

\* one insert (or its encryption) fails: the row is skipped, the others are committed
FlushSkips(i) ==
    /\ faults < MaxFaults
    /\ messages' = messages \o RemoveAt(writing, i)
    /\ lost' = lost \cup {writing[i].id}
    /\ Resume(<<>>) /\ faults' = faults + 1
    /\ UNCHANGED <<rowTx, closing, logClock, rowCount, purged>>

\* BEGIN fails: the rows come back to be tried again, except after the shutdown
FlushCannotBegin ==
    /\ writing # <<>> /\ faults < MaxFaults
    /\ Resume(writing) /\ faults' = faults + 1
    /\ lost' = IF writer = "last flush" THEN lost \cup Ids(writing) ELSE lost
    /\ UNCHANGED <<rowTx, messages, closing, logClock, rowCount, purged>>

\* COMMIT fails: rolled back and not tried again
FlushCannotCommit ==
    /\ writing # <<>> /\ faults < MaxFaults
    /\ Resume(<<>>) /\ faults' = faults + 1
    /\ lost' = lost \cup Ids(writing)
    /\ UNCHANGED <<rowTx, messages, closing, logClock, rowCount, purged>>

Flush == FlushCommits \/ FlushCannotBegin \/ FlushCannotCommit \/ \E i \in DOMAIN writing : FlushSkips(i)

----------------------------------------------------------------------------
(* Retention and restarts. *)

Old(r, age) == r.ts < logClock - age
(* Mutant of OldEvent: the rows that refer to another one are kept. *)
OldTextOfEvent(r) == r.event /\ r.ref = 0 /\ Old(r, KeepEvents)
OldEvent(r) == r.event /\ Old(r, KeepEvents)
(* Retention deletes the doomed rows, the others stay in their order. *)
Place(stay, i) == Cardinality({j \in stay : j <= i})
Without(doomed) ==
    LET stay == {i \in DOMAIN messages : messages[i] \notin doomed} IN
    [k \in 1..Cardinality(stay) |-> messages[CHOOSE i \in stay : Place(stay, i) = k]]
Delete(doomed) ==
    /\ messages' = Without(doomed)
    /\ purged' = purged \cup {r.id : r \in doomed}

\* the hourly purge of events, while the program runs
PurgeOldEvents ==
    /\ writer # "stopped" /\ ~ closing
    /\ Delete({r \in Range(messages) : OldEvent(r)})
    /\ messages' # messages
    /\ UNCHANGED <<rowTx, queue, writing, writer, closing, logClock, rowCount, lost, faults>>

\* a new process deletes what is too old before its writer starts
Start ==
    /\ writer = "stopped"
    /\ writer' = "waits" /\ closing' = FALSE
    /\ Delete({r \in Range(messages) : Old(r, KeepAll) \/ OldEvent(r)})
    /\ UNCHANGED <<rowTx, queue, writing, logClock, rowCount, lost, faults>>

\* the process is killed: what is not in the table is gone
Crash ==
    /\ writer # "stopped" /\ faults < MaxFaults
    /\ lost' = lost \cup Ids(rowTx) \cup Ids(queue) \cup Ids(writing)
    /\ rowTx' = <<>> /\ queue' = <<>> /\ writing' = <<>> /\ writer' = "stopped"
    /\ faults' = faults + 1
    /\ UNCHANGED <<messages, closing, logClock, rowCount, purged>>

\* the main loop ends
AskToStop ==
    /\ writer # "stopped" /\ ~ closing /\ closing' = TRUE
    /\ UNCHANGED <<rowTx, queue, writing, messages, writer, logClock, rowCount, lost, purged, faults>>

TimePasses ==
    /\ logClock < MaxClock /\ logClock' = logClock + 1
    /\ UNCHANGED <<rowTx, queue, writing, messages, writer, closing, rowCount, lost, purged, faults>>

Next ==
    \/ \E b \in Buffers : AddMessage(b, logClock)
    \/ \E bs \in Affected, ts \in 0..logClock : HandleQuit(bs, ts)
    \/ Receive \/ FlushTick \/ AskToStop \/ ShutDown \/ Flush
    \/ PurgeOldEvents \/ Start \/ Crash \/ TimePasses
Spec == Init /\ [][Next]_vars

\* the writer task is polled and its flush returns
Fairness == WF_vars(Receive) /\ WF_vars(FlushTick) /\ WF_vars(Flush) /\ WF_vars(ShutDown)
FairSpec == Spec /\ Fairness

----------------------------------------------------------------------------
(* The log keeps the order of submission and never holds a row twice: a flush that returned its *)
(* rows has written none of them, and the rows it returned go ahead of later ones. *)
LogKeepsOrder == \A i, j \in DOMAIN messages : i < j => messages[i].id < messages[j].id

(* Every row submitted is on its way, in the table, or gone for a reason the code names: the    *)
(* channel was full, the cap was reached, the database failed, or retention deleted it.  A      *)
(* clean shutdown in particular leaves nothing behind in the channel or in the queue. *)
EveryRowIsAccountedFor ==
    1..rowCount = Ids(rowTx) \cup Ids(queue) \cup Ids(writing) \cup Ids(messages) \cup lost \cup purged

(* Retention never takes the text of an event and leaves a copy that refers to it, which would   *)
(* be shown as a blank line: whatever batches the rows of one event were written in. *)
CopiesGoWithTheirTextStep ==
    \A r \in Range(messages) : r.ref \in purged' \ purged => r.id \in purged'
CopiesGoWithTheirText == [][CopiesGoWithTheirTextStep]_vars

(* What the writer accepted does not stay in memory: with the database back, or the rows given  *)
(* up, the channel and the queue are empty again and again. *)
WriterCatchesUp == []<>(rowTx = <<>> /\ queue = <<>> /\ writing = <<>>)
=============================================================================
