------------------------------- MODULE NickList -------------------------------
(***************************************************************************)
(* The channel buffers and nick lists of one connection under the server's *)
(* stream: joins, parts, kicks, quits, renames and NAMES, some of them     *)
(* wrapped in IRCv3 batches that are applied when they end or expire       *)
(* (src/irc/events.rs, src/irc/batch.rs, src/app/irc.rs,                   *)
(* src/app/maintenance.rs), across disconnections and rejoins.             *)
(*                                                                         *)
(* No channel is in the server's configuration: those are joined on every  *)
(* connect anyway.                                                         *)
(***************************************************************************)
EXTENDS Naturals, Sequences, FiniteSets, SequencesExt

CONSTANTS Nicks,      \* the other users
          Me,
          Channels,
          Tags,       \* references of batches
          NoTag,
          MaxBatch,   \* MAX_BATCH_MESSAGES
          Tidy,       \* does the server end every batch it starts?
          MaxSteps    \* bound on what others and the user do

ASSUME NickAssumption ==
  /\ Me \notin Nicks /\ NoTag \notin Tags
  /\ MaxBatch \in Nat \ {0} /\ Tidy \in BOOLEAN /\ MaxSteps \in Nat

VARIABLES
  up,       \* is there a session?
  members,  \* at the server: who is in a channel
  lane,     \* the server's messages on their way
  sent,     \* our commands on their way
  buffers,  \* channels with a buffer
  users,    \* Buffer.users
  open,     \* BatchTracker.open: the messages of each open batch
  joined,   \* Connection.joined_channels
  left,     \* history: channels whose buffer went since the user asked for them
  steps     \* what others and the user have done so far

vars == <<up, members, lane, sent, buffers, users, open, joined, left, steps>>

All == Nicks \cup {Me}
Closed == [type |-> "closed", msgs |-> <<>>]
IsOpen(t) == open[t].type # "closed"

(* Types of the client's variables; a channel without a buffer has no list.*)
TypeOK ==
  /\ up \in BOOLEAN
  /\ buffers \in SUBSET Channels
  /\ users \in [Channels -> SUBSET All]
  /\ \A c \in Channels \ buffers : users[c] = {}
  /\ DOMAIN open = Tags
  /\ \A t \in Tags : Len(open[t].msgs) <= MaxBatch
  /\ joined \in SUBSET Channels /\ left \in SUBSET Channels
  /\ steps \in 0 .. MaxSteps

Init ==
  /\ up = FALSE
  /\ members \in [Channels -> SUBSET Nicks]
  /\ lane = <<>> /\ sent = <<>>
  /\ buffers = {} /\ users = [c \in Channels |-> {}]
  /\ open = [t \in Tags |-> Closed]
  /\ joined = {} /\ left = {}
  /\ steps = 0

-----------------------------------------------------------------------------
(* Messages from the server; "GONE" is a PART or a KICK.                   *)
JOIN(n, c)   == [kind |-> "JOIN", nick |-> n, chan |-> c, tag |-> NoTag]
GONE(n, c)   == [kind |-> "GONE", nick |-> n, chan |-> c, tag |-> NoTag]
QUIT(n)      == [kind |-> "QUIT", nick |-> n, tag |-> NoTag]
NICK(n, to)  == [kind |-> "NICK", nick |-> n, to |-> to, tag |-> NoTag]
NAMES(c, ns) == [kind |-> "NAMES", chan |-> c, list |-> ns, tag |-> NoTag]
REFUSED(c)   == [kind |-> "REFUSED", chan |-> c, tag |-> NoTag]
START(t, type) == [kind |-> "START", ref |-> t, type |-> type, tag |-> NoTag]
END(t)       == [kind |-> "END", ref |-> t, tag |-> NoTag]
Tagged(msgs, t) == [i \in DOMAIN msgs |-> [msgs[i] EXCEPT !.tag = t]]

(* The client's view: the buffers and their nick lists.                    *)
View == [buffers |-> buffers, users |-> users]
AddNicks(v, c, ns) ==
  IF c \in v.buffers THEN [v EXCEPT !.users[c] = @ \cup ns] ELSE v
RemoveBuffer(v, c) == [v EXCEPT !.buffers = @ \ {c}, !.users[c] = {}]
Renamed(list, old, new) == IF old \in list THEN (list \ {old}) \cup {new} ELSE list

(* Our own JOIN is ignored when the list is populated, and otherwise       *)
(* starts from an empty one.                                               *)
SelfJoin(v, c) ==
  IF c \in v.buffers /\ v.users[c] # {} THEN v
  ELSE [v EXCEPT !.buffers = @ \cup {c}, !.users[c] = {}]

HandleJoin(v, m) ==
  IF m.nick = Me THEN SelfJoin(v, m.chan) ELSE AddNicks(v, m.chan, {m.nick})
(* Our own PART or KICK removes the buffer, any other a nick.              *)
HandlePart(v, m) ==
  IF m.nick = Me THEN RemoveBuffer(v, m.chan)
  ELSE [v EXCEPT !.users[m.chan] = @ \ {m.nick}]
HandleQuit(v, m) == [v EXCEPT !.users = [c \in Channels |-> @[c] \ {m.nick}]]
HandleNickChange(v, m) ==
  [v EXCEPT !.users = [c \in Channels |-> Renamed(@[c], m.nick, m.to)]]
(* A refused JOIN takes the buffer with it if nobody is listed there.      *)
JoinRefused(v, m) == IF v.users[m.chan] = {} THEN RemoveBuffer(v, m.chan) ELSE v

(* handle_irc_message on one message.                                      *)
Applied(v, m) ==
  CASE m.kind = "JOIN"    -> HandleJoin(v, m)
    [] m.kind = "NAMES"   -> AddNicks(v, m.chan, m.list)
    [] m.kind = "GONE"    -> HandlePart(v, m)
    [] m.kind = "QUIT"    -> HandleQuit(v, m)
    [] m.kind = "NICK"    -> HandleNickChange(v, m)
    [] m.kind = "REFUSED" -> JoinRefused(v, m)

(* process_completed_batch: a netsplit batch applies its QUITs; a netjoin  *)
(* batch adds the nicks of its JOINs, without the handler.                 *)
OfKind(batch, kind) == SelectSeq(batch.msgs, LAMBDA m : m.kind = kind)
ReplayNetsplit(v, batch) == FoldLeft(HandleQuit, v, OfKind(batch, "QUIT"))
ReplayNetjoin(v, batch) ==
  FoldLeft(LAMBDA w, m : AddNicks(w, m.chan, {m.nick}), v, OfKind(batch, "JOIN"))
Replay(v, batch) ==
  IF batch.type = "NETSPLIT" THEN ReplayNetsplit(v, batch) ELSE ReplayNetjoin(v, batch)
See(v) == buffers' = v.buffers /\ users' = v.users

(* The main loop takes a message: BATCH lines drive the tracker, a message *)
(* of an open batch is kept for later, up to a limit, the rest is applied. *)
HandleMessage ==
  /\ lane # <<>> /\ lane' = Tail(lane)
  /\ LET m == Head(lane) IN
     CASE m.kind = "START" ->
            /\ open' = [open EXCEPT ![m.ref] = [type |-> m.type, msgs |-> <<>>]]
            /\ UNCHANGED <<buffers, users>>
       [] m.kind = "END" ->
            /\ IF IsOpen(m.ref) THEN See(Replay(View, open[m.ref])) ELSE UNCHANGED <<buffers, users>>
            /\ open' = [open EXCEPT ![m.ref] = Closed]
       [] m.tag # NoTag /\ IsOpen(m.tag) ->
            /\ open' = [open EXCEPT ![m.tag].msgs = IF Len(@) < MaxBatch THEN Append(@, m) ELSE @]
            /\ UNCHANGED <<buffers, users>>
       [] OTHER -> See(Applied(View, m)) /\ UNCHANGED open
  /\ left' = left \cup (buffers \ buffers')
  /\ UNCHANGED <<up, members, sent, joined, steps>>

(* purge_expired_batches, on the tick: a batch that has been open for a    *)
(* minute is processed as if it had ended.                                 *)
(* Mutant of PurgeExpired: its messages are dropped.                       *)
PurgeExpiredSilently ==
  /\ \E t \in Tags : IsOpen(t) /\ open' = [open EXCEPT ![t] = Closed]
  /\ UNCHANGED <<up, members, lane, sent, buffers, users, joined, left, steps>>
PurgeExpired ==
  /\ \E t \in Tags : /\ IsOpen(t)
                     /\ See(Replay(View, open[t]))
                     /\ open' = [open EXCEPT ![t] = Closed]
  /\ UNCHANGED <<up, members, lane, sent, joined, left, steps>>

(* The Disconnected event: channels are remembered, lists wiped, batches   *)
(* dropped.  What was still on its way is lost.                            *)
Disconnected ==
  /\ up /\ up' = FALSE
  /\ users' = [c \in Channels |-> {}]
  /\ joined' = IF buffers = {} THEN joined ELSE buffers
  /\ open' = [t \in Tags |-> Closed]
  /\ members' = [c \in Channels |-> members[c] \ {Me}]
  /\ lane' = <<>> /\ sent' = <<>>
  /\ UNCHANGED <<buffers, left, steps>>

(* The Connected event: a buffer for every channel to rejoin, and a JOIN.  *)
Connected ==
  /\ ~up /\ up' = TRUE
  /\ buffers' = buffers \cup joined
  /\ sent' = SetToSeq({[cmd |-> "JOIN", chan |-> c] : c \in buffers \cup joined})
  /\ UNCHANGED <<members, lane, users, open, joined, left, steps>>

-----------------------------------------------------------------------------
(* Commands.  /part waits for the echo, /close does not.                   *)
Say(cmd, c) == sent' = IF up THEN Append(sent, [cmd |-> cmd, chan |-> c]) ELSE sent
Join(c) == up /\ Say("JOIN", c) /\ left' = left \ {c} /\ UNCHANGED <<buffers, users>>
Part(c) == up /\ Say("PART", c) /\ UNCHANGED <<buffers, users, left>>
Close(c) ==
  /\ c \in buffers /\ See(RemoveBuffer(View, c))
  /\ Say("PART", c) /\ left' = left \cup {c}
UserStep ==
  /\ \E c \in Channels : Join(c) \/ Part(c) \/ Close(c)
  /\ UNCHANGED <<up, members, lane, open, joined>>

(* The server handles one of our commands.                                 *)
ServerHandles ==
  /\ sent # <<>> /\ sent' = Tail(sent)
  /\ LET c == Head(sent).chan
         in == members[c] \cup {Me} IN
     IF Head(sent).cmd = "JOIN"
     THEN \/ Me \in members[c] /\ UNCHANGED <<members, lane>>
          \/ /\ Me \notin members[c]
             /\ members' = [members EXCEPT ![c] = in]
             /\ lane' = lane \o <<JOIN(Me, c), NAMES(c, in)>>
          \/ Me \notin members[c] /\ lane' = Append(lane, REFUSED(c)) /\ UNCHANGED members
     ELSE IF Me \in members[c]
          THEN /\ members' = [members EXCEPT ![c] = @ \ {Me}]
               /\ lane' = Append(lane, GONE(Me, c))
          ELSE UNCHANGED <<members, lane>>
  /\ UNCHANGED <<up, buffers, users, open, joined, left, steps>>

(* What the server tells us of what others do.                             *)
Shared == {c \in Channels : Me \in members[c]}
Seen(n) == \E c \in Shared : n \in members[c]
Tell(msgs) == lane' = IF up THEN lane \o msgs ELSE lane
Enters(n, c) ==
  /\ n \notin members[c]
  /\ members' = [members EXCEPT ![c] = @ \cup {n}]
  /\ Tell(IF c \in Shared THEN <<JOIN(n, c)>> ELSE <<>>)
Goes(n, c) ==
  /\ n \in members[c]
  /\ members' = [members EXCEPT ![c] = @ \ {n}]
  /\ Tell(IF c \in Shared THEN <<GONE(n, c)>> ELSE <<>>)
Renames(n, to) ==
  /\ \A c \in Channels : to \notin members[c]
  /\ \E c \in Channels : n \in members[c]
  /\ members' = [c \in Channels |-> Renamed(members[c], n, to)]
  /\ Tell(IF Seen(n) THEN <<NICK(n, to)>> ELSE <<>>)
Repeats(c) == c \in Shared /\ Tell(<<JOIN(Me, c), NAMES(c, members[c])>>) /\ UNCHANGED members

(* A server is split off, or rejoins: the QUITs, or JOINs, of a batch.     *)
InBatch(t, type, msgs) ==
  \/ Tell(<<START(t, type)>> \o Tagged(msgs, t) \o <<END(t)>>)
  \/ ~Tidy /\ Tell(<<START(t, type)>> \o Tagged(msgs, t))
Splits(ns, t) ==
  /\ members' = [c \in Channels |-> members[c] \ ns]
  /\ InBatch(t, "NETSPLIT", SetToSeq({QUIT(n) : n \in {m \in ns : Seen(m)}}))
Rejoins(ns, c, t) ==
  /\ c \in Shared /\ ns \cap members[c] = {}
  /\ members' = [members EXCEPT ![c] = @ \cup ns]
  /\ InBatch(t, "NETJOIN", SetToSeq({JOIN(n, c) : n \in ns}))

OthersStep ==
  /\ \/ \E n \in Nicks, c \in Channels : Enters(n, c) \/ Goes(n, c)
     \/ \E c \in Channels : Goes(Me, c) \/ Repeats(c)
     \/ \E n, to \in Nicks : Renames(n, to)
     \/ \E ns \in SUBSET Nicks \ {{}}, t \in Tags :
          Splits(ns, t) \/ \E c \in Channels : Rejoins(ns, c, t)
  /\ UNCHANGED <<up, sent, buffers, users, open, joined, left>>

Next ==
  \/ HandleMessage \/ PurgeExpired \/ Disconnected \/ Connected \/ ServerHandles
  \/ steps < MaxSteps /\ steps' = steps + 1 /\ (UserStep \/ OthersStep)
Spec == Init /\ [][Next]_vars

-----------------------------------------------------------------------------
(* When everything has been delivered and handled, the client has a buffer *)
(* for exactly the channels the server has it in, and their nick lists are *)
(* the server's: whatever was batched, expired in the middle of its batch, *)
(* repeated by a bouncer, closed early or lost with a session.             *)
Settled == up /\ lane = <<>> /\ sent = <<>> /\ \A t \in Tags : ~IsOpen(t)
ListsAgree ==
  Settled => \A c \in Channels : IF Me \in members[c]
                                 THEN c \in buffers /\ users[c] = members[c]
                                 ELSE c \notin buffers

(* "Channels that were joined before disconnect": a channel the user has   *)
(* left or closed is not joined again unless the user asks.                *)
StaysLeft ==
  \A i \in DOMAIN sent : sent[i].cmd = "JOIN" =>
    sent[i].chan \notin left \/ \E j \in i .. Len(sent) : sent[j] = [cmd |-> "PART", chan |-> sent[i].chan]
=============================================================================
