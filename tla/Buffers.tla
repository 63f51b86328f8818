------------------------------- MODULE Buffers ------------------------------
(***************************************************************************)
(* The list of buffers and where a message lands in it: the buffers a      *)
(* connection is given, joined channels, queries and their renaming, the   *)
(* server buffer renamed after the network, closing, and the two rules by  *)
(* which a reply finds its buffer - the server's buffer, or whatever buffer*)
(* is active when the reply arrives.  A buffer's text is the number of its *)
(* lines.                                                                  *)
(***************************************************************************)
EXTENDS Naturals, FiniteSets

CONSTANTS Conns,          \* servers
          AdHoc,          \* those connected by address, whose label holds a dot
          Chans, Nicks,   \* names of channels and of other users
          Autojoin,       \* the channels a configuration joins
          MaxSteps, MaxLines

VARIABLES buffers, text,      \* ids of buffers, and the lines of each
          users,              \* channel buffers whose nick list is not empty
          active, previous,   \* the selected buffer and the one before it
          label, status,      \* of a connection
          joinedChannels,     \* Connection::joined_channels
          member, parting,    \* channels the server has us in; PARTs under way
          asked,              \* commands that await a reply: <<connection, buffer>>
          landed,             \* the last line shown for a connection: <<connection, buffer>>
          steps
vars == <<buffers, text, users, active, previous, label, status, joinedChannels,
          member, parting, asked, landed, steps>>

Nowhere == <<"none", "none">>
Status == <<"_default", "Status">>
Label(c) == IF c \in AdHoc THEN "address" ELSE "label"
ServerNames == {"address", "label", "network"}
Ids == (Conns \X (ServerNames \cup Chans \cup Nicks)) \cup {Status}
Of(c) == {b \in buffers : b[1] = c}
ServerBuffer(c) == <<c, label[c]>>
ActiveOrServerBuffer(c) == IF active # Nowhere THEN active ELSE ServerBuffer(c)

(* Labels are nobody's nick, and no server is called like what stands for none.                    *)
BuffersAssumption ==
  /\ {"_default", "none"} \cap Conns = {}
  /\ Chans \cap Nicks = {} /\ ServerNames \cap (Chans \cup Nicks) = {}
  /\ Autojoin \subseteq Chans /\ MaxLines \in Nat /\ MaxSteps \in Nat

TypeOK ==
  /\ buffers \subseteq Ids /\ buffers # {} /\ active \in buffers
  /\ text \in [buffers -> 0..MaxLines] /\ users \subseteq buffers
  /\ previous \in Ids \cup {Nowhere}
  /\ label \in [Conns -> ServerNames \cup {"none"}]
  /\ status \in [Conns -> {"none", "connecting", "connected", "disconnected", "error"}]
  /\ joinedChannels \in [Conns -> SUBSET Chans]
  /\ member \subseteq Conns \X Chans /\ parting \subseteq Conns \X Chans
  /\ asked \subseteq Conns \X Ids /\ landed \in Conns \X (Ids \cup {Nowhere}) \cup {Nowhere}
  /\ steps \in 0..MaxSteps

Init ==
  /\ buffers = {Status} /\ text = [b \in {Status} |-> 0] /\ users = {}
  /\ active = Status /\ previous = Nowhere
  /\ label = [c \in Conns |-> "none"] /\ status = [c \in Conns |-> "none"]
  /\ joinedChannels = [c \in Conns |-> Autojoin]
  /\ member = {} /\ parting = {} /\ asked = {} /\ landed = Nowhere /\ steps = 0

Step == steps < MaxSteps /\ steps' = steps + 1
More(n) == IF n < MaxLines THEN n + 1 ELSE n

(* A line for connection c is shown in buffer b, if there is such a buffer.  Buffers B hold texts T. *)
Add(T, b) == IF b \in DOMAIN T THEN [T EXCEPT ![b] = More(@)] ELSE T
Shown(c, b, B) == landed' = <<c, IF b \in B THEN b ELSE Nowhere>>
AddMessage(c, b) == text' = Add(text, b) /\ Shown(c, b, buffers)

(* A new buffer takes the place of one that has its id.                                            *)
WithNew(T, b) == [x \in DOMAIN T \cup {b} |-> IF x = b THEN 0 ELSE T[x]]
(* Mutant of WithMissing: what the table had is forgotten. *)
Fresh(T, B) == [x \in DOMAIN T \cup B |-> IF x \in B THEN 0 ELSE T[x]]
WithMissing(T, B) == [x \in DOMAIN T \cup B |-> IF x \in DOMAIN T THEN T[x] ELSE 0]
Without(T, B) == [x \in DOMAIN T \ B |-> T[x]]
Renamed(T, b, n) == [x \in (DOMAIN T \ {b}) \cup {n} |-> IF x = n THEN T[b] ELSE T[x]]
Follow(x, b, n) == IF x = b THEN n ELSE x

(* AppState::remove_buffer and set_active_buffer, for all the buffers B of one command.  Once the  *)
(* last real buffer is gone, Status is there again.                                                *)
NoneReal(B) == \A b \in B : b = Status
FallBack(B) ==
  IF active \in B THEN /\ active' = active /\ previous' = previous
  ELSE \/ previous \in B /\ active' = previous /\ previous' = Nowhere
       \/ previous \notin B /\ active' \in B /\ previous' = Nowhere
RemoveBuffers(B) ==
  LET left == buffers \ B
      rest == IF NoneReal(left) THEN {Status} ELSE left IN
  /\ buffers' = rest /\ users' = users \ B
  /\ text' = WithMissing(Without(text, B), rest)
  /\ FallBack(rest)
SetActive(b) == active' = b /\ previous' = IF b = active THEN previous ELSE active

(* /connect and the connections made at the start: a fresh server buffer, selected, in place of    *)
(* Status.                                                                                         *)
SetupConnection(c) ==
  /\ Step /\ status[c] \in {"none", "disconnected", "error"}
  /\ label' = [label EXCEPT ![c] = Label(c)]
  /\ status' = [status EXCEPT ![c] = "connecting"]
  /\ joinedChannels' = [joinedChannels EXCEPT ![c] = Autojoin]
  /\ LET b == <<c, Label(c)>> IN
     /\ buffers' = (buffers \ {Status}) \cup {b}
     /\ text' = Add(WithNew(Without(text, {Status}), b), b)
     /\ active' = b
     /\ previous' = IF active \in {b, Status} THEN previous ELSE active
     /\ landed' = <<c, b>>
  /\ UNCHANGED <<users, member, parting, asked>>

(* The connection is registered: the channels to join again have their buffers at once.            *)
ChannelsToRejoin(c) == {h \in Chans : <<c, h>> \in buffers} \cup joinedChannels[c]
HandleConnected(c) ==
  /\ status[c] = "connecting"
  /\ status' = [status EXCEPT ![c] = "connected"]
  /\ LET B == {<<c, h>> : h \in ChannelsToRejoin(c)} IN
     /\ buffers' = buffers \cup B
     /\ text' = WithMissing(Add(text, ServerBuffer(c)), B)
  /\ Shown(c, ServerBuffer(c), buffers)
  /\ UNCHANGED <<users, active, previous, label, joinedChannels, member, parting, asked, steps>>

(* The NETWORK token of a connection made by address renames it and its server buffer.             *)
UpdateLabelFromNetwork(c) ==
  /\ status[c] = "connected" /\ label[c] = "address"
  /\ label' = [label EXCEPT ![c] = "network"]
  /\ LET b == ServerBuffer(c)   n == <<c, "network">> IN
     IF b \in buffers
     THEN /\ buffers' = (buffers \ {b}) \cup {n} /\ text' = Renamed(text, b, n)
          /\ active' = Follow(active, b, n)
     ELSE UNCHANGED <<buffers, text, active>>
  /\ UNCHANGED <<users, previous, status, joinedChannels, member, parting, asked, landed, steps>>

(* Nick lists are forgotten, buffers are kept; an error is told apart.  The next attempt is made   *)
(* with the label the connection has.                                                              *)
HandleDisconnected(c) ==
  /\ Step /\ status[c] \in {"connecting", "connected"}
  /\ LET was == {h \in Chans : <<c, h>> \in buffers} IN
     joinedChannels' = [joinedChannels EXCEPT ![c] = IF was = {} THEN @ ELSE was]
  /\ \E s \in {"disconnected", "error"} : status' = [status EXCEPT ![c] = s]
  /\ users' = users \ Of(c)
  /\ AddMessage(c, ServerBuffer(c))
  /\ member' = {m \in member : m[1] # c} /\ parting' = {m \in parting : m[1] # c}
  /\ asked' = {q \in asked : q[1] # c}
  /\ UNCHANGED <<buffers, active, previous, label>>
Reconnect(c) ==
  /\ Step /\ status[c] \in {"disconnected", "error"}
  /\ status' = [status EXCEPT ![c] = "connecting"]
  /\ AddMessage(c, ServerBuffer(c))
  /\ UNCHANGED <<buffers, users, active, previous, label, joinedChannels, member, parting, asked>>

(* We join: a buffer with users is left alone, one without is emptied of its state but not of its  *)
(* text, a missing one is made; then it is selected.  The names follow.                            *)
OwnJoin(c, h) ==
  LET b == <<c, h>> IN
  /\ Step /\ status[c] = "connected" /\ b \notin member \cup parting
  /\ member' = member \cup {b} /\ users' = users \cup {b}
  /\ IF b \in users THEN UNCHANGED <<buffers, text, active, previous>>
     ELSE /\ buffers' = buffers \cup {b} /\ text' = WithMissing(text, {b}) /\ SetActive(b)
  /\ UNCHANGED <<label, status, joinedChannels, parting, asked, landed>>
JoinFails(c, h) ==
  LET b == <<c, h>> IN
  /\ Step /\ status[c] = "connected" /\ b \notin member \cup parting
  /\ Shown(c, ServerBuffer(c), buffers)
  /\ LET gone == IF b \in buffers \ users THEN {b} ELSE {} IN
     /\ buffers' = buffers \ gone /\ text' = Without(Add(text, ServerBuffer(c)), gone)
     /\ FallBack(buffers \ gone)
  /\ UNCHANGED <<users, label, status, joinedChannels, member, parting, asked>>

(* The server has processed our PART, sent by /part or by closing the buffer.                      *)
Part(c, h) ==
  /\ Step /\ <<c, h>> \in member \ parting /\ parting' = parting \cup {<<c, h>>}
  /\ UNCHANGED <<buffers, text, users, active, previous, label, status, joinedChannels,
                 member, asked, landed>>
OwnPart(c, h) ==
  /\ <<c, h>> \in parting
  /\ member' = member \ {<<c, h>>} /\ parting' = parting \ {<<c, h>>}
  /\ RemoveBuffers(buffers \cap {<<c, h>>})
  /\ UNCHANGED <<label, status, joinedChannels, asked, landed, steps>>

(* We are kicked: told in the server's buffer and in the buffer one lands in.                      *)
OwnKick(c, h) ==
  LET b == <<c, h>>   left == buffers \ {b} IN
  /\ Step /\ b \in member
  /\ member' = member \ {b} /\ parting' = parting \ {b}
  /\ buffers' = left /\ users' = users \ {b} /\ FallBack(left)
  /\ LET T == Without(Add(text, ServerBuffer(c)), {b}) IN
     text' = IF active' # ServerBuffer(c) THEN Add(T, active') ELSE T
  /\ Shown(c, active', left)
  /\ UNCHANGED <<label, status, joinedChannels, asked>>

(* A private message opens its query; a user's /query selects it; a nick change renames it.        *)
HandlePrivmsg(c, n) ==
  LET b == <<c, n>> IN
  /\ Step /\ status[c] = "connected"
  /\ buffers' = buffers \cup {b} /\ text' = Add(WithMissing(text, {b}), b)
  /\ Shown(c, b, buffers \cup {b})
  /\ UNCHANGED <<users, active, previous, label, status, joinedChannels, member, parting, asked>>
CmdQuery(n) ==
  LET b == <<active[1], n>> IN
  /\ Step /\ active[1] \in Conns
  /\ buffers' = buffers \cup {b} /\ text' = WithMissing(text, {b}) /\ SetActive(b)
  /\ UNCHANGED <<users, label, status, joinedChannels, member, parting, asked, landed>>
(* /msg shows what it sends, in a query it opens for a nick without selecting it.                  *)
CmdMsg(t) ==
  LET b == <<active[1], t>>   B == IF t \in Nicks THEN {b} ELSE {} IN
  /\ Step /\ active[1] \in Conns /\ status[active[1]] = "connected"
  /\ buffers' = buffers \cup B /\ text' = Add(WithMissing(text, B), b)
  /\ UNCHANGED <<users, active, previous, label, status, joinedChannels, member, parting,
                 asked, landed>>
HandleNickChange(c, n, m) ==
  LET b == <<c, n>>   new == <<c, m>> IN
  /\ Step /\ status[c] = "connected" /\ b \in buffers /\ n # m
  /\ buffers' = (buffers \ {b}) \cup {new}
  /\ text' = Renamed(Add(text, b), b, new)
  /\ active' = Follow(active, b, new)
  /\ Shown(c, new, buffers')
  /\ UNCHANGED <<users, previous, label, status, joinedChannels, member, parting, asked>>

(* Messages without a buffer of their own: a notice of a user without a query, MOTD, ERROR,        *)
(* wallops and the like are for the server's buffer.                                               *)
HandleNotice(c, n) ==
  /\ Step /\ status[c] = "connected"
  /\ AddMessage(c, IF <<c, n>> \in buffers THEN <<c, n>> ELSE ServerBuffer(c))
  /\ UNCHANGED <<buffers, users, active, previous, label, status, joinedChannels,
                 member, parting, asked>>
ServerLine(c) ==
  /\ Step /\ status[c] = "connected" /\ AddMessage(c, ServerBuffer(c))
  /\ UNCHANGED <<buffers, users, active, previous, label, status, joinedChannels,
                 member, parting, asked>>

(* /whois, /list, /away and the like are asked in a buffer; the reply, as an INVITE, goes to the   *)
(* buffer that is active when it comes.  So does any other error a server may send.                *)
Reply(c) == AddMessage(c, ActiveOrServerBuffer(c))
Ask ==
  /\ Step /\ active[1] \in Conns /\ status[active[1]] = "connected"
  /\ asked' = asked \cup {<<active[1], active>>}
  /\ UNCHANGED <<buffers, text, users, active, previous, label, status, joinedChannels,
                 member, parting, landed>>
HandleResponse(q) ==
  /\ asked' = asked \ {q}
  /\ Reply(q[1])
  /\ UNCHANGED <<buffers, users, active, previous, label, status, joinedChannels,
                 member, parting, steps>>
HandleInvite(c) ==
  /\ Step /\ status[c] = "connected" /\ Reply(c)
  /\ UNCHANGED <<buffers, users, active, previous, label, status, joinedChannels,
                 member, parting, asked>>
OtherNumeric(c) ==
  /\ Step /\ status[c] = "connected" /\ (Reply(c) \/ AddMessage(c, ServerBuffer(c)))
  /\ UNCHANGED <<buffers, users, active, previous, label, status, joinedChannels,
                 member, parting, asked>>

Select(b) ==
  /\ Step /\ SetActive(b) /\ b # active
  /\ UNCHANGED <<buffers, text, users, label, status, joinedChannels, member, parting,
                 asked, landed>>

(* /close, in the terminal or run for a web page in the buffer it shows: a channel is parted as it *)
(* goes, a server's buffer takes the connection and all its buffers along but not while connected. *)
(* Mutant of Closes: nothing is sent, and a server's buffer stays. *)
CloseQuietly(b) ==
  IF b[2] \in ServerNames THEN FALSE
  ELSE RemoveBuffers({b}) /\ UNCHANGED <<label, status, joinedChannels, parting>>
Closes(b) ==
  LET c == b[1] IN
  IF b[2] \in ServerNames
  THEN /\ status[c] \in {"disconnected", "error"} /\ RemoveBuffers(Of(c))
       /\ label' = [label EXCEPT ![c] = "none"] /\ status' = [status EXCEPT ![c] = "none"]
       /\ joinedChannels' = [joinedChannels EXCEPT ![c] = Autojoin]
       /\ parting' = parting
  ELSE /\ RemoveBuffers({b}) /\ UNCHANGED <<label, status, joinedChannels>>
       /\ parting' = IF b \in member THEN parting \cup {b} ELSE parting
CmdClose ==
  /\ Step /\ active # Status /\ Closes(active) /\ UNCHANGED <<member, asked, landed>>

Next ==
  \/ \E c \in Conns :
       \/ SetupConnection(c) \/ HandleConnected(c) \/ UpdateLabelFromNetwork(c)
       \/ HandleDisconnected(c) \/ Reconnect(c) \/ ServerLine(c) \/ HandleInvite(c)
       \/ OtherNumeric(c)
       \/ \E h \in Chans : OwnJoin(c, h) \/ JoinFails(c, h) \/ Part(c, h) \/ OwnPart(c, h)
                             \/ OwnKick(c, h)
       \/ \E n \in Nicks : \/ HandlePrivmsg(c, n) \/ HandleNotice(c, n)
                           \/ \E m \in Nicks : HandleNickChange(c, n, m)
  \/ \E n \in Nicks : CmdQuery(n)
  \/ \E t \in Nicks \cup Chans : CmdMsg(t)
  \/ Ask \/ \E q \in asked : HandleResponse(q)
  \/ \E b \in buffers : Select(b)
  \/ CmdClose
Spec == Init /\ [][Next]_vars
-----------------------------------------------------------------------------
(* Whatever is received for a connection is shown somewhere: replies, errors and notices have a    *)
(* buffer, through renamings, closed buffers, kicks and reconnections.                             *)
NothingIsLost == landed = Nowhere \/ landed[2] # Nowhere

(* A connection has the server buffer its label names.                                             *)
ServerBufferExists == \A c \in Conns : status[c] # "none" => ServerBuffer(c) \in buffers

(* A channel we are in has its buffer, unless we are leaving; a failed join, a second join or a    *)
(* close takes it from no channel we are in.                                                       *)
MembersHaveBuffers == member \ parting \subseteq buffers

ChannelsKeepTheirTextStep ==
  \A b \in buffers \cap buffers' : b[2] \in Chans => text'[b] >= text[b]
(* The text of a channel survives disconnecting, reconnecting and joining again: only leaving it   *)
(* (or never getting in) ends it.                                                                  *)
ChannelsKeepTheirText == [][ChannelsKeepTheirTextStep]_vars

(* The code does not give these.                                                                   *)
(* A reply is shown in a buffer of its connection.                                                 *)
RepliesStayOnTheirConnection == landed # Nowhere => landed[2][1] = landed[1]
(* Text stays while its buffer does: /connect empties the server buffer it takes over, and a nick  *)
(* change replaces the query of the new nick.                                                      *)
TextStays == [][\A b \in buffers \cap buffers' : text'[b] >= text[b]]_vars
(* One does not return to a channel one left.                                                      *)
LeftChannelsStayLeft ==
  [][\A c \in Conns, h \in Chans :
       /\ status[c] = "connecting" /\ status'[c] = "connected" /\ <<c, h>> \in buffers' \ buffers
       => h \in Autojoin]_vars
=============================================================================
