------------------------------- MODULE DccChat -------------------------------
(***************************************************************************)
(* DCC CHAT: the records and line senders of DccManager (src/dcc/mod.rs),  *)
(* the listening, connecting and chatting tasks (src/dcc/chat.rs) and the  *)
(* channel on which they report to the main loop (src/app/dcc.rs), driven  *)
(* by /dcc (src/commands/handlers_dcc.rs), by offers and by the NICK and   *)
(* 401 lines of one connection (src/app/irc.rs).                           *)
(*                                                                         *)
(* A task keeps the id it was spawned with; records and senders are found  *)
(* by their current id, a nick and a number ("alice", "alice2", ...).      *)
(***************************************************************************)
EXTENDS Naturals, Sequences, FiniteSets, SequencesExt, Functions

CONSTANTS Peers, Nobody, \* people
          Nicks, NoNick,
          Tasks, NoTask,
          Tokens, NoToken,
          Nowhere,         \* the address of a passive offer: port 0
          NoRecord,
          MaxConnections,  \* dcc.max_connections
          MaxEvents,       \* capacity of the event channel
          MaxSteps,        \* bound on what the user and the peers do
          Allowed          \* which of "rename", "close", "absent", "collide" happen

ASSUME DccAssumption ==
  /\ Nobody \notin Peers /\ NoNick \notin Nicks /\ NoTask \notin Tasks /\ NoToken \notin Tokens
  /\ Nowhere \notin Peers \cup Tasks /\ Peers \cap Tasks = {}
  /\ MaxConnections \in Nat \ {0} /\ MaxEvents \in Nat \ {0} /\ MaxSteps \in Nat
  /\ Allowed \subseteq {"rename", "close", "absent", "collide"}

States == {"waiting", "listening", "connecting", "connected"}
Records == [state : States, addr : Peers \cup Tasks \cup {Nowhere},
            token : Tokens \cup {NoToken}, who : Peers \cup {Nobody}]
ASSUME NoRecordAssumption == NoRecord \notin Records

Ids == Nicks \X (1 .. MaxConnections + 1)
NoId == <<NoNick, 0>>

VARIABLES
  records,  \* DccManager.records
  senders,  \* DccManager.chat_senders: the task at the other end
  tasks,
  events,   \* the event channel
  nickOf,   \* who has which nick
  asked,    \* our passive offers that were not answered yet
  spent,    \* history: tokens used
  left,     \* history: tasks whose record was closed by nick, and their sender was not
  steps     \* what the user and the peers have done so far

vars == <<records, senders, tasks, events, nickOf, asked, spent, left, steps>>

Stages == {"free", "listening", "connecting", "session", "over"}
(* "who" is history: the person the record is about.                       *)
Record(state, addr, token, who) ==
  [state |-> state, addr |-> addr, token |-> token, who |-> who]
Task(stage, id, peer) == [stage |-> stage, id |-> id, peer |-> peer]
Event(type, t) == [type |-> type, id |-> tasks[t].id, task |-> t]

Open(rs) == {id \in Ids : rs[id] # NoRecord}
Full(rs) == Cardinality(Open(rs)) >= MaxConnections
(* Types of every variable, and the limit on the number of records.        *)
TypeOK ==
  /\ \A id \in Open(records) : records[id] \in Records
  /\ Cardinality(Open(records)) <= MaxConnections
  /\ senders \in [Ids -> Tasks \cup {NoTask}]
  /\ \A t \in Tasks : tasks[t].stage \in Stages /\ tasks[t].id \in Ids \cup {NoId}
  /\ Len(events) <= MaxEvents
  /\ nickOf \in [Peers -> Nicks \cup {NoNick}]
  /\ asked \in SUBSET [peer : Peers, token : Tokens] /\ spent \in SUBSET Tokens
  /\ left \in SUBSET Tasks
  /\ steps \in 0 .. MaxSteps

Init ==
  /\ records = [id \in Ids |-> NoRecord]
  /\ senders = [id \in Ids |-> NoTask]
  /\ tasks = [t \in Tasks |-> Task("free", NoId, Nobody)]
  /\ events = <<>>
  /\ nickOf \in [Peers -> Nicks]
  /\ \A p, q \in Peers : nickOf[p] = nickOf[q] => p = q
  /\ asked = {} /\ spent = {} /\ left = {}
  /\ steps = 0

-----------------------------------------------------------------------------
(* The first free id of a nick.                                            *)
GenerateId(rs, n) ==
  <<n, CHOOSE k \in 1 .. MaxConnections + 1 :
         rs[<<n, k>>] = NoRecord /\ \A j \in 1 .. k - 1 : rs[<<n, j>>] # NoRecord>>
OfNick(rs, n) == {id \in Open(rs) : id[1] = n}
FindPending(rs, n) == {id \in OfNick(rs, n) : rs[id].state \in {"waiting", "listening"}}
WhoIs(n) == IF \E p \in Peers : nickOf[p] = n
            THEN CHOOSE p \in Peers : nickOf[p] = n ELSE Nobody
Token(t) == "collide" \in Allowed \/ t \notin spent

(* accept_dcc_chat: the peer's passive offer is answered with a listener,  *)
(* at any other the address of the record is dialled.  The id's sender is  *)
(* replaced, which closes the line channel of the task that had it.        *)
AcceptDccChat(rs, ss, id) ==
  \E t \in Tasks :
    /\ tasks[t].stage = "free"
    /\ senders' = [ss EXCEPT ![id] = t]
    /\ LET passive == rs[id].addr = Nowhere
           stage == IF passive THEN "listening" ELSE "connecting" IN
       /\ records' = [rs EXCEPT ![id].state = stage]
       /\ tasks' = [tasks EXCEPT ![t] = Task(stage, id, IF passive THEN rs[id].who ELSE rs[id].addr)]

(* The rest of IncomingRequest, once our own offer is out of the way.      *)
Register(rs, ss, p, addr, token, auto) ==
  LET id  == GenerateId(rs, nickOf[p])
      new == [rs EXCEPT ![id] = Record("waiting", addr, token, p)]
  IN \/ Full(rs) /\ records' = rs /\ senders' = ss /\ UNCHANGED tasks
     \/ ~Full(rs) /\ ~auto /\ records' = new /\ senders' = ss /\ UNCHANGED tasks
     \/ /\ ~Full(rs) /\ auto
        /\ \E pending \in FindPending(new, nickOf[p]) : AcceptDccChat(new, ss, pending)

(* IncomingRequest: a Listening record of the nick is taken away and the   *)
(* offer accepted, any other is accepted if its mask says so.              *)
IncomingRequest(p, addr, token) ==
  LET ours == {id \in OfNick(records, nickOf[p]) : records[id].state = "listening"}
  IN \/ ours = {} /\ \E auto \in BOOLEAN : Register(records, senders, p, addr, token, auto)
     \/ \E id \in ours : Register([records EXCEPT ![id] = NoRecord],
                                  [senders EXCEPT ![id] = NoTask], p, addr, token, TRUE)

Offer(p) ==
  /\ nickOf[p] # NoNick
  /\ \/ IncomingRequest(p, p, NoToken) /\ UNCHANGED spent
     \/ \E token \in Tokens :
          Token(token) /\ IncomingRequest(p, Nowhere, token) /\ spent' = spent \cup {token}
  /\ UNCHANGED <<events, nickOf, asked, left>>

(* A peer answers our passive offer with a port: the record that has the   *)
(* token dials it; without one this is an offer like any other.            *)
Response(p) ==
  /\ nickOf[p] # NoNick
  /\ \E ask \in asked :
       LET matching == {id \in Open(records) : records[id].token = ask.token} IN
       /\ ask.peer = p /\ asked' = asked \ {ask}
       /\ \/ \E id \in matching, t \in Tasks :
               /\ tasks[t].stage = "free"
               /\ records' = [records EXCEPT ![id].addr = p, ![id].state = "connecting"]
               /\ senders' = [senders EXCEPT ![id] = t]
               /\ tasks' = [tasks EXCEPT ![t] = Task("connecting", id, p)]
          \/ matching = {} /\ IncomingRequest(p, p, ask.token)
  /\ UNCHANGED <<events, nickOf, spent, left>>

-----------------------------------------------------------------------------
(* /dcc chat nick: a pending record of the nick is accepted, whoever made  *)
(* the offer; otherwise we listen, and offer our port.                     *)
Chat(n) ==
  /\ \/ \E id \in FindPending(records, n) : AcceptDccChat(records, senders, id)
     \/ /\ FindPending(records, n) = {} /\ ~Full(records)
        /\ \E t \in Tasks : LET id == GenerateId(records, n) IN
             /\ tasks[t].stage = "free"
             /\ records' = [records EXCEPT ![id] = Record("listening", t, NoToken, WhoIs(n))]
             /\ senders' = [senders EXCEPT ![id] = t]
             /\ tasks' = [tasks EXCEPT ![t] = Task("listening", id, WhoIs(n))]
  /\ UNCHANGED <<events, nickOf, asked, spent, left>>

(* /dcc chat: the latest of the waiting records, here any of them.         *)
ChatLatest ==
  /\ \E id \in Open(records) :
       records[id].state = "waiting" /\ AcceptDccChat(records, senders, id)
  /\ UNCHANGED <<events, nickOf, asked, spent, left>>

(* /dcc chat -passive nick: only a record and an offer with a token.       *)
ChatPassive(n) ==
  /\ ~Full(records)
  /\ \E token \in Tokens :
       /\ Token(token) /\ spent' = spent \cup {token}
       /\ records' = [records EXCEPT
            ![GenerateId(records, n)] = Record("waiting", Nowhere, token, WhoIs(n))]
       /\ asked' = asked \cup {[peer |-> p, token |-> token] : p \in {WhoIs(n)} \ {Nobody}}
  /\ UNCHANGED <<senders, tasks, events, nickOf, left>>

(* close_by_nick, for /dcc close, /dcc reject and a 401 (no such nick): the *)
(* record goes, the sender and its task stay.                              *)
CloseByNick(n) ==
  /\ \E id \in OfNick(records, n) :
       /\ records' = [records EXCEPT ![id] = NoRecord]
       /\ left' = left \cup ({senders[id]} \ {NoTask})
  /\ UNCHANGED <<senders, tasks, events, nickOf, asked, spent>>
Close(n) == "close" \in Allowed /\ CloseByNick(n)
NoSuchNick(n) == "absent" \in Allowed /\ WhoIs(n) = Nobody /\ CloseByNick(n)

(* update_nick: the records of the old nick get the first free ids of the  *)
(* new one, in whatever order the map gives them; the sender moves along.  *)
FreeIds(n, k) ==
  {id \in Ids : /\ id[1] = n /\ records[id] = NoRecord
                /\ Cardinality({j \in 1 .. id[2] - 1 : records[<<n, j>>] = NoRecord}) < k}
MovedRecords(from) ==
  [id \in Ids |-> IF id \in DOMAIN from THEN records[from[id]]
                  ELSE IF id \in Range(from) THEN NoRecord ELSE records[id]]
(* Mutant of MovedSenders: the senders stay where they were.               *)
LeftSenders(from) == senders
MovedSenders(from) ==
  [id \in Ids |-> IF id \in DOMAIN from /\ senders[from[id]] # NoTask THEN senders[from[id]]
                  ELSE IF id \in Range(from) THEN NoTask ELSE senders[id]]
UpdateNick(old, to) ==
  \E from \in Bijection(FreeIds(to, Cardinality(OfNick(records, old))), OfNick(records, old)) :
    records' = MovedRecords(from) /\ senders' = MovedSenders(from)
Rename(p, to) ==
  /\ "rename" \in Allowed /\ nickOf[p] # NoNick /\ WhoIs(to) = Nobody
  /\ nickOf' = [nickOf EXCEPT ![p] = to]
  /\ UpdateNick(nickOf[p], to)
  /\ UNCHANGED <<tasks, events, asked, spent, left>>
LeaveIrc(p) ==
  /\ "absent" \in Allowed /\ nickOf[p] # NoNick
  /\ nickOf' = [nickOf EXCEPT ![p] = NoNick]
  /\ UNCHANGED <<records, senders, tasks, events, asked, spent, left>>

(* purge_expired, on the tick: a record that waits or listens for longer   *)
(* than the timeout goes, with its sender.                                 *)
(* Mutant of PurgeExpired: the sender stays.                               *)
PurgeExpiredRecord(id) ==
  /\ id \in Open(records) /\ records[id].state \in {"waiting", "listening"}
  /\ records' = [records EXCEPT ![id] = NoRecord]
  /\ UNCHANGED <<senders, tasks, events, nickOf, asked, spent, left, steps>>
PurgeExpired(id) ==
  /\ id \in Open(records) /\ records[id].state \in {"waiting", "listening"}
  /\ records' = [records EXCEPT ![id] = NoRecord]
  /\ senders' = [senders EXCEPT ![id] = NoTask]
  /\ UNCHANGED <<tasks, events, nickOf, asked, spent, left, steps>>

-----------------------------------------------------------------------------
(* The tasks.  A report waits for room in the channel.                     *)
Report(es) == Len(events) + Len(es) <= MaxEvents /\ events' = events \o es
Becomes(t, stage) == tasks' = [tasks EXCEPT ![t].stage = stage]
Ends(t) == tasks' = [tasks EXCEPT ![t] = Task("over", NoId, Nobody)]
OnlyTasks == UNCHANGED <<records, senders, nickOf, asked, spent, left, steps>>

TimesOut(t) ==
  /\ tasks[t].stage \in {"listening", "connecting"}
  /\ Ends(t) /\ Report(<<Event("ChatError", t)>>) /\ OnlyTasks
(* The peer connects to our port, or takes our call.                       *)
Connects(t) ==
  /\ tasks[t].stage \in {"listening", "connecting"} /\ tasks[t].peer \in Peers
  /\ Becomes(t, "session") /\ Report(<<Event("ChatConnected", t)>>) /\ OnlyTasks
(* A task dials our own port.                                              *)
ConnectsToUs(t) ==
  LET u == tasks[t].peer IN
  /\ tasks[t].stage = "connecting" /\ u \in Tasks /\ tasks[u].stage = "listening"
  /\ tasks' = [tasks EXCEPT ![t].stage = "session", ![u] = Task("session", @.id, t)]
  /\ \/ Report(<<Event("ChatConnected", t), Event("ChatConnected", u)>>)
     \/ Report(<<Event("ChatConnected", u), Event("ChatConnected", t)>>)
  /\ OnlyTasks
Line(t) ==
  /\ tasks[t].stage = "session" /\ tasks[t].peer \in Peers
  /\ Report(<<Event("ChatMessage", t)>>) /\ UNCHANGED tasks /\ OnlyTasks
HangsUp(t) ==
  /\ tasks[t].stage = "session"
  /\ tasks[t].peer \in Tasks => tasks[tasks[t].peer].stage = "over"
  /\ Ends(t) /\ Report(<<Event("ChatClosed", t)>>) /\ OnlyTasks
(* The line channel is closed: the writer ends, and the reader with it.    *)
WriterEnds(t) ==
  /\ tasks[t].stage = "session" /\ \A id \in Ids : senders[id] # t
  /\ Ends(t) /\ UNCHANGED events /\ OnlyTasks

(* handle_dcc_event.                                                       *)
(* Mutant of Ended: an error leaves the record.                            *)
EndedSenderOnly(e) ==
  /\ records' = IF e.type = "ChatError" THEN records ELSE [records EXCEPT ![e.id] = NoRecord]
  /\ senders' = [senders EXCEPT ![e.id] = NoTask]
Ended(e) ==
  /\ records' = [records EXCEPT ![e.id] = NoRecord]
  /\ senders' = [senders EXCEPT ![e.id] = NoTask]
HandleDccEvent ==
  /\ events # <<>> /\ events' = Tail(events)
  /\ LET e == Head(events) IN
     CASE e.type = "ChatConnected" ->
            /\ records' = IF records[e.id] = NoRecord THEN records
                          ELSE [records EXCEPT ![e.id].state = "connected"]
            /\ UNCHANGED senders
       [] e.type = "ChatMessage" -> UNCHANGED <<records, senders>>
       [] OTHER -> Ended(e)
  /\ UNCHANGED <<tasks, nickOf, asked, spent, left, steps>>

PeerStep == \E p \in Peers :
  Offer(p) \/ Response(p) \/ LeaveIrc(p) \/ \E n \in Nicks : Rename(p, n)
UserStep == ChatLatest \/ \E n \in Nicks :
  Chat(n) \/ ChatPassive(n) \/ Close(n) \/ NoSuchNick(n)
TaskStep(t) ==
  TimesOut(t) \/ Connects(t) \/ ConnectsToUs(t) \/ Line(t) \/ HangsUp(t) \/ WriterEnds(t)

Next ==
  \/ steps < MaxSteps /\ steps' = steps + 1 /\ (PeerStep \/ UserStep)
  \/ \E id \in Ids : PurgeExpired(id)
  \/ \E t \in Tasks : TaskStep(t)
  \/ HandleDccEvent
Spec == Init /\ [][Next]_vars

(* The tick and the channel are served, a timeout ends every wait of a     *)
(* task, and a task notices that its line channel is closed.  Those that   *)
(* wait for room in the event channel get it in turn (hence SF).  A chat   *)
(* may go on forever, and nobody has to speak.                             *)
FairSpec ==
  /\ Spec /\ WF_vars(HandleDccEvent)
  /\ \A id \in Ids : WF_vars(PurgeExpired(id))
  /\ \A t \in Tasks :
       SF_vars(TimesOut(t) \/ Connects(t) \/ ConnectsToUs(t)) /\ WF_vars(WriterEnds(t))

-----------------------------------------------------------------------------
(* What is typed at a connected record reaches the person it is about (or  *)
(* our own listener), whoever renames, leaves, takes over the nick, or     *)
(* crosses our offer with one of theirs; unless the line channel is still  *)
(* that of a record closed by nick, whose id was given again.              *)
Connected(id) == records[id] # NoRecord /\ records[id].state = "connected"
Running(id) == Connected(id) /\ senders[id] # NoTask /\ tasks[senders[id]].stage = "session"
LinesReachTheirPeer ==
  \A id \in Ids : Running(id) =>
    tasks[senders[id]].peer \in {records[id].who} \cup Tasks \/ senders[id] \in left

(* No line channel, and no session behind it, outlives its record, except  *)
(* where the record was closed by nick (/dcc close, a 401).                *)
SessionsHaveRecords ==
  \A id \in Ids : senders[id] # NoTask => records[id] # NoRecord \/ senders[id] \in left

(* "Close an active DCC CHAT connection" (docs/commands/dcc.md): a closed   *)
(* chat is over (violated: its session goes on), and its line channel      *)
(* serves no other record (violated too: the exception above is needed).   *)
ClosedIsOver == \A id \in Ids : senders[id] # NoTask => records[id] # NoRecord
ClosedIsSilent ==
  \A id \in Ids : Running(id) => tasks[senders[id]].peer \in {records[id].who} \cup Tasks

(* A record does not wait, listen or dial forever.                         *)
Pending(id) == records[id] # NoRecord /\ ~Connected(id)
PendingEnds == \A id \in Ids : Pending(id) ~> ~Pending(id)

(* "if so, accept it rather than initiating a duplicate outgoing offer":   *)
(* what is accepted is never our own offer.                                *)
NeverDialsItself == \A t \in Tasks : tasks[t].stage = "connecting" => tasks[t].peer \notin Tasks

(* A running chat ends by a report of its own task only: not by that of a  *)
(* listener torn down before, nor by a 401.                                *)
EndsByItself ==
  [][\A id \in Ids : Running(id) /\ records'[id] = NoRecord =>
       events' # events /\ Head(events).task = senders[id]]_vars

(* "When a user renames on IRC their DCC record and buffer must follow":   *)
(* the task of a running chat reports under the id of its record.          *)
RenamedIsHeard == \A id \in Ids : Running(id) => tasks[senders[id]].id = id

(* For TLC: people, nicks, tasks and tokens are interchangeable.           *)
Symmetry == Permutations(Peers) \cup Permutations(Nicks)
              \cup Permutations(Tasks) \cup Permutations(Tokens)
=============================================================================
