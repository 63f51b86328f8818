----------------------------- MODULE MCChannels -----------------------------
(***************************************************************************)
(* What the client knows of its channels, part by part: the nick lists of  *)
(* NickList, the modes, the details of the nicks, the buffers that hold    *)
(* all this, and the lines that wait for the URL shortener while buffers   *)
(* come and go. Each part runs by itself.                                  *)
(***************************************************************************)
EXTENDS NickList, TLC, TLAPS, SequenceTheorems

CONSTANTS BufferConns, BufferAdHoc, BufferChans, BufferNicks, BufferAutojoin, BufferMaxSteps,
          BufferMaxLines
CONSTANTS ShrinkChans, ShrinkPeers, ShrinkNicks, ShrinkFirstNick, ShrinkQueueCap, ShrinkMaxLines,
          ShrinkMaxEvents

VARIABLE part
VARIABLES server, modes_joined, modes_wire, asks, buf, silent, pending, listed, changes,
          commands, drops
VARIABLES user, ours, details_wire, details_asked, entry, details_steps
VARIABLES buffers_buffers, text, buffers_users, active, previous, label, status, joinedChannels,
          member, parting, buffers_asked, landed, buffers_steps
VARIABLES shrink_lane, working, delivered, openBufs, activeBuf, peerKnown, ownNick, link,
          echoMessage, typed, shrink_wire, screen, told, panicked, passed, swallowed, shrinkEvents

namesVars == <<up, members, lane, sent, buffers, users, open, joined, left, steps>>
modesVars == <<server, modes_joined, modes_wire, asks, buf, silent, pending, listed, changes,
               commands, drops>>
detailsVars == <<user, ours, details_wire, details_asked, entry, details_steps>>
buffersVars == <<buffers_buffers, text, buffers_users, active, previous, label, status,
                 joinedChannels, member, parting, buffers_asked, landed, buffers_steps>>
shrinkVars == <<shrink_lane, working, delivered, openBufs, activeBuf, peerKnown, ownNick,
                link, echoMessage, typed, shrink_wire, screen, told, panicked, passed,
                swallowed, shrinkEvents>>
mcVars == <<part, namesVars, modesVars, detailsVars, buffersVars, shrinkVars>>

AllCaps == {"account-notify", "away-notify", "chghost", "extended-join", "account-tag",
            "userhost-in-names"}

M == INSTANCE ChannelModes WITH
         Flags <- {"m"}, ParamModes <- <<"k", "l">>, Values <- {"x", "y"},
         Masks <- {"b1", "b2"}, Others <- {"bob"}, NickModes <- {"o", "v"},
         MAX_LIST_MODE_ENTRIES <- 2, MaxChanges <- 2, MaxCommands <- 2, MaxDrops <- 1,
         joined <- modes_joined, wire <- modes_wire
D == INSTANCE NickDetails WITH
         Channels <- {"a", "b"}, Accounts <- {"acc"}, Hosts <- {"h1", "h2"}, Caps <- AllCaps,
         HasWhox <- TRUE, MaxSteps <- 4, wire <- details_wire, asked <- details_asked,
         steps <- details_steps
B == INSTANCE Buffers WITH
         Conns <- BufferConns, AdHoc <- BufferAdHoc, Chans <- BufferChans, Nicks <- BufferNicks,
         Autojoin <- BufferAutojoin, MaxSteps <- BufferMaxSteps, MaxLines <- BufferMaxLines,
         buffers <- buffers_buffers,
         users <- buffers_users, asked <- buffers_asked, steps <- buffers_steps
S == INSTANCE ShrinkPipeline WITH
         Chans <- ShrinkChans, Peers <- ShrinkPeers, Nicks <- ShrinkNicks,
         FirstNick <- ShrinkFirstNick, QueueCap <- ShrinkQueueCap, MaxLines <- ShrinkMaxLines,
         MaxEvents <- ShrinkMaxEvents, lane <- shrink_lane, wire <- shrink_wire

ASSUME ModesAssumption == M!LimitIsPositive
ASSUME BuffersAssumption == B!BuffersAssumption
ASSUME ShrinkAssumption == S!ShrinkAssumption

(* The variables of a part that does not run have no value of their own.   *)
Idle == "idle"
NamesOff ==
  /\ up = Idle /\ members = Idle /\ lane = Idle /\ sent = Idle /\ buffers = Idle /\ users = Idle
  /\ open = Idle /\ joined = Idle /\ left = Idle /\ steps = Idle
ModesOff ==
  /\ server = Idle /\ modes_joined = Idle /\ modes_wire = Idle /\ asks = Idle /\ buf = Idle
  /\ silent = Idle /\ pending = Idle /\ listed = Idle /\ changes = Idle /\ commands = Idle
  /\ drops = Idle
DetailsOff ==
  /\ user = Idle /\ ours = Idle /\ details_wire = Idle /\ details_asked = Idle /\ entry = Idle
  /\ details_steps = Idle
BuffersOff ==
  /\ buffers_buffers = Idle /\ text = Idle /\ buffers_users = Idle /\ active = Idle
  /\ previous = Idle /\ label = Idle /\ status = Idle /\ joinedChannels = Idle /\ member = Idle
  /\ parting = Idle /\ buffers_asked = Idle /\ landed = Idle /\ buffers_steps = Idle
ShrinkOff ==
  /\ shrink_lane = Idle /\ working = Idle /\ delivered = Idle /\ openBufs = Idle
  /\ activeBuf = Idle /\ peerKnown = Idle /\ ownNick = Idle /\ link = Idle
  /\ echoMessage = Idle /\ typed = Idle /\ shrink_wire = Idle /\ screen = Idle /\ told = Idle
  /\ panicked = Idle /\ passed = Idle /\ swallowed = Idle /\ shrinkEvents = Idle

NamesOnly == UNCHANGED <<part, modesVars, detailsVars, buffersVars, shrinkVars>>
ModesOnly == UNCHANGED <<part, namesVars, detailsVars, buffersVars, shrinkVars>>
DetailsOnly == UNCHANGED <<part, namesVars, modesVars, buffersVars, shrinkVars>>
BuffersOnly == UNCHANGED <<part, namesVars, modesVars, detailsVars, shrinkVars>>
ShrinkOnly == UNCHANGED <<part, namesVars, modesVars, detailsVars, buffersVars>>

MCInit == \/ part = "names" /\ Init /\ ModesOff /\ DetailsOff /\ BuffersOff /\ ShrinkOff
          \/ part = "modes" /\ M!Init /\ NamesOff /\ DetailsOff /\ BuffersOff /\ ShrinkOff
          \/ part = "details" /\ D!Init /\ NamesOff /\ ModesOff /\ BuffersOff /\ ShrinkOff
          \/ part = "buffers" /\ B!Init /\ NamesOff /\ ModesOff /\ DetailsOff /\ ShrinkOff
          \/ part = "shrink" /\ S!Init /\ NamesOff /\ ModesOff /\ DetailsOff /\ BuffersOff
MCNext == \/ part = "names" /\ Next /\ NamesOnly
          \/ part = "modes" /\ M!Next /\ ModesOnly
          \/ part = "details" /\ D!Next /\ DetailsOnly
          \/ part = "buffers" /\ B!Next /\ BuffersOnly
          \/ part = "shrink" /\ S!Next /\ ShrinkOnly
MCSpec == MCInit /\ [][MCNext]_mcVars

-----------------------------------------------------------------------------
(* With nothing under way the buffers and nick lists are the server's,     *)
(* whatever was batched, expired in the middle of its batch, repeated by a *)
(* bouncer, closed early or lost with a session.                           *)
NamesAgree == part = "names" => ListsAgree

(* Once everything asked is answered, the buffer shows the modes and the   *)
(* nicks of the channel, whatever was set, by whom, and however often the  *)
(* connection was lost.                                                    *)
ModesMatch == part = "modes" => M!ModesMatch

(* So does the list of bans, as long as the channel has no more of them    *)
(* than the buffer keeps.                                                  *)
BansMatch == part = "modes" => M!BansMatch

(* The key that the status line shows, and that /cycle joins with, is the  *)
(* key of the channel.                                                     *)
KeyIsTheKey == part = "modes" => M!KeyIsTheKey

(* With every capability negotiated, what the nick lists say of the user   *)
(* is true in every shared channel once everything was delivered, whatever *)
(* came in between the question and its answer.                            *)
DetailsAreTrue == part = "details" => D!DetailsAreTrue

(* Whatever is received for a connection is shown somewhere: replies,      *)
(* errors and notices have a buffer, through renamings, closed buffers,    *)
(* kicks and reconnections.                                                *)
NothingIsLost == part = "buffers" => B!NothingIsLost

(* A connection has the server buffer its label names.                     *)
ServerBufferExists == part = "buffers" => B!ServerBufferExists

(* A channel we are in has its buffer, unless we are leaving; a failed     *)
(* join, a second join or a close takes it from no channel we are in.      *)
MembersHaveBuffers == part = "buffers" => B!MembersHaveBuffers

(* The text of a channel survives disconnecting, reconnecting and joining  *)
(* again: only leaving it (or never getting in) ends it.                   *)
ChannelsKeepTheirText == [][part = "buffers" => B!ChannelsKeepTheirTextStep]_mcVars

(* A line typed while the peer's handle was known leaves in the clear only *)
(* where the encryption let it pass on its way out (a failure, a leading   *)
(* "." or "!"), never because its buffer was closed, or reopened without   *)
(* the handle, while the shortener answered.                               *)
SecretLinesStayEncrypted == part = "shrink" => S!SecretLinesStayEncrypted

(* No typed line vanishes: it is waiting, sent, shown, reported or lost in *)
(* a panic; the exception is a line typed without a connection that goes   *)
(* out at once, where the server that is gone had promised to echo it.     *)
TypedLinesAreAccountedFor == part = "shrink" => S!TypedLinesAreAccountedFor

(* What the shortener delays stays in the order in which it was typed or   *)
(* received.                                                               *)
DelayedKeepOrder == part = "shrink" => S!DelayedKeepOrder

(* Nothing is shown or logged in a buffer after it was closed.             *)
ClosedBuffersStaySilent == [][part = "shrink" => S!ClosedBuffersStaySilentStep]_mcVars

(* Who is where, as the client shows it, is what the server knows          *)
(* (irc/events.rs, irc/batch.rs).                                          *)
MembershipAgrees ==
  /\ part = "names" => TypeOK
  /\ NamesAgree

(* The copies of what the server keeps of a channel and of a user agree    *)
(* with it (irc/events.rs).                                                *)
ChannelsAreTrue ==
  /\ part = "modes" => M!TypeOK
  /\ part = "details" => D!TypeOK
  /\ ModesMatch
  /\ BansMatch
  /\ KeyIsTheKey
  /\ DetailsAreTrue

(* Every message has a buffer to land in, through renamed labels, closing  *)
(* and reconnecting (state/events.rs, irc/events.rs).                      *)
BuffersAreFound ==
  /\ part = "buffers" => B!TypeOK
  /\ NothingIsLost
  /\ ServerBufferExists
  /\ MembersHaveBuffers

(* A line that waits for the shortener stays in order, is as secret as     *)
(* when it was typed and does not vanish, save where the encryption or a   *)
(* missing connection takes it (app/shrink.rs, app/input.rs).              *)
DelayedLinesAreSafe ==
  /\ part = "shrink" => S!TypeOK
  /\ SecretLinesStayEncrypted
  /\ TypedLinesAreAccountedFor
  /\ DelayedKeepOrder

(* What no step may do: take text from the buffer of a channel we are in,  *)
(* or bring back a closed buffer for a line that comes late                *)
(* (state/buffer.rs, app/shrink.rs).                                       *)
BuffersKeepTheirLines ==
  /\ ChannelsKeepTheirText
  /\ ClosedBuffersStaySilent

-----------------------------------------------------------------------------
(* The buffers, for any servers, channels and nicks: whatever has a        *)
(* connection has its server buffer, and the buffers, their texts, the     *)
(* selected one and the channels we are in fit each other.                 *)

(* The inductive invariant.                                                *)
Lines == 0..BufferMaxLines
Tables(X, T, U, a) == X \subseteq B!Ids /\ a \in X /\ T \in [X -> Lines] /\ U \subseteq X
Connections ==
  /\ label \in [BufferConns -> B!ServerNames \cup {"none"}]
  /\ status \in [BufferConns -> {"none", "connecting", "connected", "disconnected", "error"}]
  /\ joinedChannels \in [BufferConns -> SUBSET BufferChans]
  /\ \A c \in BufferConns : status[c] # "none" => label[c] \in B!ServerNames
Memberships ==
  /\ member \subseteq BufferConns \X BufferChans /\ parting \subseteq BufferConns \X BufferChans
  /\ buffers_users \subseteq BufferConns \X BufferChans
  /\ \A m \in member : status[m[1]] = "connected"
Rest == previous \in B!Ids \cup {B!Nowhere} /\ buffers_asked \subseteq BufferConns \X B!Ids
          /\ buffers_steps \in 0..BufferMaxSteps
Landed == landed = B!Nowhere \/ landed \in BufferConns \X B!Ids
BufInv ==
  /\ Tables(buffers_buffers, text, buffers_users, active) /\ Connections /\ Memberships /\ Rest
       /\ Landed
  /\ B!ServerBufferExists /\ B!MembersHaveBuffers

LEMMA Apart ==
  /\ B!Nowhere \notin B!Ids /\ B!Status \in B!Ids
  /\ \A c \in BufferConns : B!Status[1] # c /\ B!Label(c) \in B!ServerNames
       /\ "network" \in B!ServerNames
  /\ \A c \in BufferConns, n \in B!ServerNames \cup BufferChans \cup BufferNicks : <<c,
       n>> \in B!Ids /\ <<c, n>> # B!Status
  /\ \A b \in B!Ids : b = B!Status \/ (b[1] \in BufferConns
       /\ b[2] \in B!ServerNames \cup BufferChans \cup BufferNicks /\ b = <<b[1], b[2]>>)
BY BuffersAssumption DEF B!BuffersAssumption, B!Nowhere, B!Status, B!Ids, B!Label, B!ServerNames

LEMMA NamesApart ==
  /\ \A n \in BufferNicks : n \notin B!ServerNames /\ n \notin BufferChans
  /\ \A h \in BufferChans : h \notin B!ServerNames /\ h \notin BufferNicks
BY BuffersAssumption DEF B!BuffersAssumption

(* What is done to texts.                                                  *)
LEMMA AddText ==
  ASSUME NEW Y, NEW T \in [Y -> Lines], NEW b
  PROVE  B!Add(T, b) \in [Y -> Lines] /\ \A x \in Y : B!Add(T, b)[x] >= T[x]
<1>1. BufferMaxLines \in Nat
  BY BuffersAssumption DEF B!BuffersAssumption
<1> QED
  BY <1>1 DEF B!Add, B!More, Lines

LEMMA FallenBack ==
  ASSUME BufInv, NEW X \in SUBSET B!Ids, B!FallBack(X)
  PROVE  active' \in X /\ previous' \in B!Ids \cup {B!Nowhere}
BY DEF B!FallBack, BufInv, Rest

LEMMA Selected ==
  ASSUME BufInv, NEW b, B!SetActive(b)
  PROVE  active' = b /\ previous' \in B!Ids \cup {B!Nowhere}
BY DEF B!SetActive, BufInv, Rest, Tables

LEMMA Removed ==
  ASSUME BufInv, NEW X, B!RemoveBuffers(X)
  PROVE  /\ Tables(buffers_buffers', text', buffers_users', active')
            /\ previous' \in B!Ids \cup {B!Nowhere}
         /\ buffers_buffers \ X \subseteq buffers_buffers'
              /\ buffers_buffers' \subseteq (buffers_buffers \ X) \cup {B!Status}
         /\ \A b \in buffers_buffers \ X : text'[b] = text[b]
<1> DEFINE remaining == buffers_buffers \ X
           rest == IF B!NoneReal(remaining) THEN {B!Status} ELSE remaining
<1>1. /\ buffers_buffers' = rest /\ buffers_users' = buffers_users \ X
      /\ text' = B!WithMissing(B!Without(text, X), rest) /\ B!FallBack(rest)
  BY DEF B!RemoveBuffers
<1>2. remaining \subseteq rest /\ rest \in SUBSET B!Ids /\ rest \subseteq remaining \cup {B!Status}
  BY Apart DEF B!NoneReal, BufInv, Tables
<1> HIDE DEF rest
<1>3. active' \in rest /\ previous' \in B!Ids \cup {B!Nowhere}
  BY <1>1, <1>2, FallenBack
<1>4. text \in [buffers_buffers -> Lines] /\ buffers_users \subseteq buffers_buffers
  BY DEF BufInv, Tables
<1>5. B!Without(text, X) \in [remaining -> Lines] /\ \A x \in remaining : B!Without(text, X)[x] = text[x]
  BY <1>4 DEF B!Without
<1> DEFINE T == B!Without(text, X)
<1> HIDE DEF remaining, T
<1>6. /\ text' \in [remaining \cup rest -> Lines]
      /\ \A x \in remaining : text'[x] = T[x]
  <2>1. text' = B!WithMissing(T, rest)
    BY <1>1 DEF T
  <2>2. T \in [remaining -> Lines]
    BY <1>5 DEF T
  <2> QED
    <3>1. 0 \in Lines
      BY BuffersAssumption DEF B!BuffersAssumption, Lines
    <3> QED
      BY <2>1, <2>2, <3>1 DEF B!WithMissing
<1>7. remaining \cup rest = rest /\ buffers_users \ X \subseteq rest
  BY <1>2, <1>4 DEF remaining
<1> QED
  BY <1>1, <1>2, <1>3, <1>4, <1>5, <1>6, <1>7 DEF Tables, remaining, T

(* A line lands in a buffer there is.                                      *)
LEMMA LandsHere ==
  ASSUME NEW c \in BufferConns, NEW X \in SUBSET B!Ids, NEW b \in X, B!Shown(c, b, X)
  PROVE  Landed'
BY DEF B!Shown, Landed

LEMMA HasServerBuffer ==
  ASSUME BufInv, NEW c \in BufferConns, status[c] # "none"
  PROVE  /\ B!ServerBuffer(c) \in buffers_buffers /\ buffers_buffers \in SUBSET B!Ids
            /\ label[c] \in B!ServerNames
         /\ B!ServerBuffer(c) = <<c, label[c]>>
BY DEF BufInv, B!ServerBufferExists, Connections, Tables, B!ServerBuffer

LEMMA MessageAdded ==
  ASSUME BufInv, NEW c \in BufferConns, NEW b \in buffers_buffers, B!AddMessage(c, b)
  PROVE  /\ text' \in [buffers_buffers -> Lines] /\ Landed'
         /\ \A x \in buffers_buffers : text'[x] >= text[x]
<1>1. text \in [buffers_buffers -> Lines] /\ buffers_buffers \in SUBSET B!Ids
  BY DEF BufInv, Tables
<1>2. Landed'
  BY <1>1, LandsHere DEF B!AddMessage
<1> QED
  BY <1>1, <1>2, AddText DEF B!AddMessage
(* The steps.                                                              *)
LEMMA BufFacts ==
  ASSUME BufInv
  PROVE  /\ buffers_buffers \in SUBSET B!Ids /\ active \in buffers_buffers
            /\ buffers_users \subseteq buffers_buffers
         /\ text \in [buffers_buffers -> Lines] /\ \A b \in buffers_buffers : text[b] \in Nat
         /\ buffers_steps \in Nat /\ BufferMaxSteps \in Nat /\ BufferMaxLines \in Nat
         /\ Connections /\ Memberships /\ Rest /\ Landed
         /\ B!ServerBufferExists /\ B!MembersHaveBuffers
BY BuffersAssumption DEF BufInv, Tables, Rest, B!BuffersAssumption, Lines

LEMMA Steps == ASSUME BufInv, B!Step PROVE buffers_steps' \in 0..BufferMaxSteps
BY BufFacts DEF B!Step, Rest

LEMMA DisconnectedKeeps ==
  ASSUME BufInv, NEW c \in BufferConns, B!HandleDisconnected(c)
  PROVE  BufInv' /\ B!ChannelsKeepTheirTextStep
<1>1. /\ buffers_steps' \in 0..BufferMaxSteps /\ buffers_buffers' = buffers_buffers
         /\ buffers_users' \subseteq buffers_buffers /\ active' \in buffers_buffers
      /\ previous' \in B!Ids \cup {B!Nowhere}
      /\ buffers_asked' \subseteq BufferConns \X B!Ids
  BY BufFacts, Steps, Selected DEF Rest, Connections, B!HandleDisconnected
<1>2. /\ text' \in [buffers_buffers -> Lines] /\ Landed'
      /\ \A x \in buffers_buffers : text'[x] >= text[x]
  BY HasServerBuffer, MessageAdded DEF B!HandleDisconnected
<1>3. Connections'
  BY BufFacts DEF Connections, B!HandleDisconnected
<1>4. Memberships'
  BY BufFacts DEF Memberships, Connections, B!HandleDisconnected
<1>5. B!ServerBufferExists' /\ B!MembersHaveBuffers'
  BY BufFacts, <1>1 DEF B!ServerBufferExists, B!MembersHaveBuffers, B!ServerBuffer, Connections,
     Memberships, B!HandleDisconnected
<1> QED
  BY <1>1, <1>2, <1>3, <1>4, <1>5, BufFacts DEF BufInv, Tables, Rest, B!ChannelsKeepTheirTextStep

LEMMA ReconnectKeeps ==
  ASSUME BufInv, NEW c \in BufferConns, B!Reconnect(c)
  PROVE  BufInv' /\ B!ChannelsKeepTheirTextStep
<1>1. /\ buffers_steps' \in 0..BufferMaxSteps /\ buffers_buffers' = buffers_buffers
         /\ buffers_users' \subseteq buffers_buffers /\ active' \in buffers_buffers
      /\ previous' \in B!Ids \cup {B!Nowhere}
      /\ buffers_asked' \subseteq BufferConns \X B!Ids
  BY BufFacts, Steps, Selected DEF Rest, Connections, B!Reconnect
<1>2. /\ text' \in [buffers_buffers -> Lines] /\ Landed'
      /\ \A x \in buffers_buffers : text'[x] >= text[x]
  BY HasServerBuffer, MessageAdded DEF B!Reconnect
<1>3. Connections'
  BY BufFacts DEF Connections, B!Reconnect
<1>4. Memberships'
  BY BufFacts DEF Memberships, Connections, B!Reconnect
<1>5. B!ServerBufferExists' /\ B!MembersHaveBuffers'
  BY BufFacts, <1>1 DEF B!ServerBufferExists, B!MembersHaveBuffers, B!ServerBuffer, Connections,
     Memberships, B!Reconnect
<1> QED
  BY <1>1, <1>2, <1>3, <1>4, <1>5, BufFacts DEF BufInv, Tables, Rest, B!ChannelsKeepTheirTextStep

LEMMA ServerLineKeeps ==
  ASSUME BufInv, NEW c \in BufferConns, B!ServerLine(c)
  PROVE  BufInv' /\ B!ChannelsKeepTheirTextStep
<1>1. /\ buffers_steps' \in 0..BufferMaxSteps /\ buffers_buffers' = buffers_buffers
         /\ buffers_users' \subseteq buffers_buffers /\ active' \in buffers_buffers
      /\ previous' \in B!Ids \cup {B!Nowhere}
      /\ buffers_asked' \subseteq BufferConns \X B!Ids
  BY BufFacts, Steps, Selected DEF Rest, Connections, B!ServerLine
<1>2. /\ text' \in [buffers_buffers -> Lines] /\ Landed'
      /\ \A x \in buffers_buffers : text'[x] >= text[x]
  BY HasServerBuffer, MessageAdded DEF B!ServerLine
<1>3. Connections'
  BY BufFacts DEF Connections, B!ServerLine
<1>4. Memberships'
  BY BufFacts DEF Memberships, Connections, B!ServerLine
<1>5. B!ServerBufferExists' /\ B!MembersHaveBuffers'
  BY BufFacts, <1>1 DEF B!ServerBufferExists, B!MembersHaveBuffers, B!ServerBuffer, Connections,
     Memberships, B!ServerLine
<1> QED
  BY <1>1, <1>2, <1>3, <1>4, <1>5, BufFacts DEF BufInv, Tables, Rest, B!ChannelsKeepTheirTextStep

LEMMA NoticeKeeps ==
  ASSUME BufInv, NEW c \in BufferConns, NEW n \in BufferNicks, B!HandleNotice(c, n)
  PROVE  BufInv' /\ B!ChannelsKeepTheirTextStep
<1>1. /\ buffers_steps' \in 0..BufferMaxSteps /\ buffers_buffers' = buffers_buffers
         /\ buffers_users' \subseteq buffers_buffers /\ active' \in buffers_buffers
      /\ previous' \in B!Ids \cup {B!Nowhere}
      /\ buffers_asked' \subseteq BufferConns \X B!Ids
  BY BufFacts, Steps, Selected DEF Rest, Connections, B!HandleNotice
<1>2. /\ text' \in [buffers_buffers -> Lines] /\ Landed'
      /\ \A x \in buffers_buffers : text'[x] >= text[x]
  BY HasServerBuffer, MessageAdded DEF B!HandleNotice
<1>3. Connections'
  BY BufFacts DEF Connections, B!HandleNotice
<1>4. Memberships'
  BY BufFacts DEF Memberships, Connections, B!HandleNotice
<1>5. B!ServerBufferExists' /\ B!MembersHaveBuffers'
  BY BufFacts, <1>1 DEF B!ServerBufferExists, B!MembersHaveBuffers, B!ServerBuffer, Connections,
     Memberships, B!HandleNotice
<1> QED
  BY <1>1, <1>2, <1>3, <1>4, <1>5, BufFacts DEF BufInv, Tables, Rest, B!ChannelsKeepTheirTextStep

LEMMA ReplyAdded ==
  ASSUME BufInv, NEW c \in BufferConns, B!Reply(c)
  PROVE  /\ text' \in [buffers_buffers -> Lines] /\ Landed'
         /\ \A x \in buffers_buffers : text'[x] >= text[x]
<1>1. B!ActiveOrServerBuffer(c) \in buffers_buffers
  BY BufFacts, Apart DEF B!ActiveOrServerBuffer
<1> QED
  BY <1>1, MessageAdded DEF B!Reply

LEMMA Asker == ASSUME BufInv, NEW q \in buffers_asked PROVE q[1] \in BufferConns
BY BufFacts DEF Rest

LEMMA InviteKeeps ==
  ASSUME BufInv, NEW c \in BufferConns, B!HandleInvite(c)
  PROVE  BufInv' /\ B!ChannelsKeepTheirTextStep
<1>1. /\ buffers_steps' \in 0..BufferMaxSteps /\ buffers_buffers' = buffers_buffers
         /\ buffers_users' \subseteq buffers_buffers /\ active' \in buffers_buffers
      /\ previous' \in B!Ids \cup {B!Nowhere}
      /\ buffers_asked' \subseteq BufferConns \X B!Ids
  BY BufFacts, Steps, Selected DEF Rest, Connections, B!HandleInvite
<1>2. /\ text' \in [buffers_buffers -> Lines] /\ Landed'
      /\ \A x \in buffers_buffers : text'[x] >= text[x]
  BY ReplyAdded DEF B!HandleInvite
<1>3. Connections'
  BY BufFacts DEF Connections, B!HandleInvite
<1>4. Memberships'
  BY BufFacts DEF Memberships, Connections, B!HandleInvite
<1>5. B!ServerBufferExists' /\ B!MembersHaveBuffers'
  BY BufFacts, <1>1 DEF B!ServerBufferExists, B!MembersHaveBuffers, B!ServerBuffer, Connections,
     Memberships, B!HandleInvite
<1> QED
  BY <1>1, <1>2, <1>3, <1>4, <1>5, BufFacts DEF BufInv, Tables, Rest, B!ChannelsKeepTheirTextStep

LEMMA NumericKeeps ==
  ASSUME BufInv, NEW c \in BufferConns, B!OtherNumeric(c)
  PROVE  BufInv' /\ B!ChannelsKeepTheirTextStep
<1>1. /\ buffers_steps' \in 0..BufferMaxSteps /\ buffers_buffers' = buffers_buffers
         /\ buffers_users' \subseteq buffers_buffers /\ active' \in buffers_buffers
      /\ previous' \in B!Ids \cup {B!Nowhere}
      /\ buffers_asked' \subseteq BufferConns \X B!Ids
  BY BufFacts, Steps, Selected DEF Rest, Connections, B!OtherNumeric
<1>2. /\ text' \in [buffers_buffers -> Lines] /\ Landed'
      /\ \A x \in buffers_buffers : text'[x] >= text[x]
  BY HasServerBuffer, ReplyAdded, MessageAdded DEF B!OtherNumeric
<1>3. Connections'
  BY BufFacts DEF Connections, B!OtherNumeric
<1>4. Memberships'
  BY BufFacts DEF Memberships, Connections, B!OtherNumeric
<1>5. B!ServerBufferExists' /\ B!MembersHaveBuffers'
  BY BufFacts, <1>1 DEF B!ServerBufferExists, B!MembersHaveBuffers, B!ServerBuffer, Connections,
     Memberships, B!OtherNumeric
<1> QED
  BY <1>1, <1>2, <1>3, <1>4, <1>5, BufFacts DEF BufInv, Tables, Rest, B!ChannelsKeepTheirTextStep

LEMMA ResponseKeeps ==
  ASSUME BufInv, NEW q \in buffers_asked, B!HandleResponse(q)
  PROVE  BufInv' /\ B!ChannelsKeepTheirTextStep
<1>1. /\ buffers_steps' \in 0..BufferMaxSteps /\ buffers_buffers' = buffers_buffers
         /\ buffers_users' \subseteq buffers_buffers /\ active' \in buffers_buffers
      /\ previous' \in B!Ids \cup {B!Nowhere}
      /\ buffers_asked' \subseteq BufferConns \X B!Ids
  BY BufFacts, Steps, Selected DEF Rest, Connections, B!HandleResponse
<1>2. /\ text' \in [buffers_buffers -> Lines] /\ Landed'
      /\ \A x \in buffers_buffers : text'[x] >= text[x]
  BY Asker, ReplyAdded DEF B!HandleResponse
<1>3. Connections'
  BY BufFacts DEF Connections, B!HandleResponse
<1>4. Memberships'
  BY BufFacts DEF Memberships, Connections, B!HandleResponse
<1>5. B!ServerBufferExists' /\ B!MembersHaveBuffers'
  BY BufFacts, <1>1 DEF B!ServerBufferExists, B!MembersHaveBuffers, B!ServerBuffer, Connections,
     Memberships, B!HandleResponse
<1> QED
  BY <1>1, <1>2, <1>3, <1>4, <1>5, BufFacts DEF BufInv, Tables, Rest, B!ChannelsKeepTheirTextStep

LEMMA AskKeeps ==
  ASSUME BufInv, B!Ask
  PROVE  BufInv' /\ B!ChannelsKeepTheirTextStep
<1>1. /\ buffers_steps' \in 0..BufferMaxSteps /\ buffers_buffers' = buffers_buffers
         /\ buffers_users' \subseteq buffers_buffers /\ active' \in buffers_buffers
      /\ previous' \in B!Ids \cup {B!Nowhere}
      /\ buffers_asked' \subseteq BufferConns \X B!Ids
  BY BufFacts, Steps, Selected DEF Rest, Connections, B!Ask
<1>2. /\ text' \in [buffers_buffers -> Lines] /\ Landed'
      /\ \A x \in buffers_buffers : text'[x] >= text[x]
  BY BufFacts DEF B!Ask, Landed
<1>3. Connections'
  BY BufFacts DEF Connections, B!Ask
<1>4. Memberships'
  BY BufFacts DEF Memberships, Connections, B!Ask
<1>5. B!ServerBufferExists' /\ B!MembersHaveBuffers'
  BY BufFacts, <1>1 DEF B!ServerBufferExists, B!MembersHaveBuffers, B!ServerBuffer, Connections,
     Memberships, B!Ask
<1> QED
  BY <1>1, <1>2, <1>3, <1>4, <1>5, BufFacts DEF BufInv, Tables, Rest, B!ChannelsKeepTheirTextStep

LEMMA PartKeeps ==
  ASSUME BufInv, NEW c \in BufferConns, NEW h \in BufferChans, B!Part(c, h)
  PROVE  BufInv' /\ B!ChannelsKeepTheirTextStep
<1>1. /\ buffers_steps' \in 0..BufferMaxSteps /\ buffers_buffers' = buffers_buffers
         /\ buffers_users' \subseteq buffers_buffers /\ active' \in buffers_buffers
      /\ previous' \in B!Ids \cup {B!Nowhere}
      /\ buffers_asked' \subseteq BufferConns \X B!Ids
  BY BufFacts, Steps, Selected DEF Rest, Connections, B!Part
<1>2. /\ text' \in [buffers_buffers -> Lines] /\ Landed'
      /\ \A x \in buffers_buffers : text'[x] >= text[x]
  BY BufFacts DEF B!Part, Landed
<1>3. Connections'
  BY BufFacts DEF Connections, B!Part
<1>4. Memberships'
  BY BufFacts DEF Memberships, Connections, B!Part
<1>5. B!ServerBufferExists' /\ B!MembersHaveBuffers'
  BY BufFacts, <1>1 DEF B!ServerBufferExists, B!MembersHaveBuffers, B!ServerBuffer, Connections,
     Memberships, B!Part
<1> QED
  BY <1>1, <1>2, <1>3, <1>4, <1>5, BufFacts DEF BufInv, Tables, Rest, B!ChannelsKeepTheirTextStep

LEMMA SelectKeeps ==
  ASSUME BufInv, NEW b \in buffers_buffers, B!Select(b)
  PROVE  BufInv' /\ B!ChannelsKeepTheirTextStep
<1>1. /\ buffers_steps' \in 0..BufferMaxSteps /\ buffers_buffers' = buffers_buffers
         /\ buffers_users' \subseteq buffers_buffers /\ active' \in buffers_buffers
      /\ previous' \in B!Ids \cup {B!Nowhere}
      /\ buffers_asked' \subseteq BufferConns \X B!Ids
  BY BufFacts, Steps, Selected DEF Rest, Connections, B!Select
<1>2. /\ text' \in [buffers_buffers -> Lines] /\ Landed'
      /\ \A x \in buffers_buffers : text'[x] >= text[x]
  BY BufFacts DEF B!Select, Landed
<1>3. Connections'
  BY BufFacts DEF Connections, B!Select
<1>4. Memberships'
  BY BufFacts DEF Memberships, Connections, B!Select
<1>5. B!ServerBufferExists' /\ B!MembersHaveBuffers'
  BY BufFacts, <1>1 DEF B!ServerBufferExists, B!MembersHaveBuffers, B!ServerBuffer, Connections,
     Memberships, B!Select
<1> QED
  BY <1>1, <1>2, <1>3, <1>4, <1>5, BufFacts DEF BufInv, Tables, Rest, B!ChannelsKeepTheirTextStep

LEMMA SetupKeeps ==
  ASSUME BufInv, NEW c \in BufferConns, B!SetupConnection(c)
  PROVE  BufInv' /\ B!ChannelsKeepTheirTextStep
<1> DEFINE b == <<c, B!Label(c)>>
           others == buffers_buffers \ {B!Status}
<1>1. b \in B!Ids /\ b # B!Status /\ b[1] = c /\ b[2] = B!Label(c) /\ B!Label(c) \in B!ServerNames
  BY Apart
<1>2. /\ buffers_buffers' = others \cup {b} /\ active' = b /\ landed' = <<c, b>>
      /\ text' = B!Add(B!WithNew(B!Without(text, {B!Status}), b), b)
      /\ label' = [label EXCEPT ![c] = B!Label(c)] /\ status' = [status EXCEPT ![c] = "connecting"]
      /\ joinedChannels' = [joinedChannels EXCEPT ![c] = BufferAutojoin]
      /\ previous' = (IF active \in {b, B!Status} THEN previous ELSE active)
      /\ UNCHANGED <<buffers_users, member, parting, buffers_asked>> /\ B!Step
      /\ status[c] \in {"none", "disconnected", "error"}
  BY DEF B!SetupConnection
<1>3. buffers_users \subseteq others /\ member \subseteq others \cup parting
  BY BufFacts, Apart DEF Memberships, B!MembersHaveBuffers
<1>4. /\ text' \in [others \cup {b} -> Lines]
      /\ \A x \in others \ {b} : text'[x] = text[x]
  <2>1. B!Without(text, {B!Status}) \in [others -> Lines]
        /\ \A x \in others : B!Without(text, {B!Status})[x] = text[x]
    BY BufFacts DEF B!Without
  <2> DEFINE T == B!Without(text, {B!Status})
  <2>2. T \in [others -> Lines] /\ \A x \in others : T[x] = text[x]
    BY <2>1
  <2>3. text' = B!Add(B!WithNew(T, b), b) /\ 0 \in Lines
    BY <1>2, BufFacts DEF Lines
  <2> HIDE DEF T, others, b
  <2>4. /\ B!WithNew(T, b) \in [others \cup {b} -> Lines]
        /\ \A x \in others \ {b} : B!WithNew(T, b)[x] = T[x]
    BY <2>2, <2>3 DEF B!WithNew
  <2>5. /\ B!Add(B!WithNew(T, b), b) \in [others \cup {b} -> Lines]
        /\ \A x \in others \ {b} : B!Add(B!WithNew(T, b), b)[x] = B!WithNew(T, b)[x]
    BY <2>4, BufFacts DEF B!Add, B!More, Lines
  <2> QED
    BY <2>2, <2>3, <2>4, <2>5
<1>5. B!ServerBuffer(c)' = b
  BY <1>2, BufFacts DEF B!ServerBuffer, Connections
<1> HIDE DEF b
<1>6. Tables(buffers_buffers', text', buffers_users', active')
  BY <1>1, <1>2, <1>3, <1>4, BufFacts DEF Tables
<1>7. Connections'
  BY <1>1, <1>2, BufFacts, BuffersAssumption DEF Connections, B!BuffersAssumption
<1>8. Memberships'
  BY <1>2, BufFacts DEF Memberships, Connections
<1>9. Rest' /\ Landed'
  BY <1>1, <1>2, Steps, BufFacts DEF Rest, Landed
<1>10. B!ServerBufferExists'
  <2> SUFFICES ASSUME NEW d \in BufferConns, status'[d] # "none"
        PROVE B!ServerBuffer(d)' \in buffers_buffers'
    BY DEF B!ServerBufferExists
  <2>1. CASE d = c
    BY <2>1, <1>2, <1>5
  <2>2. CASE d # c
    <3>1. status[d] # "none" /\ B!ServerBuffer(d)' = B!ServerBuffer(d)
      BY <1>2, <2>2, BufFacts DEF Connections, B!ServerBuffer
    <3>2. B!ServerBuffer(d) \in buffers_buffers /\ B!ServerBuffer(d)[1] = d
      BY <3>1, BufFacts DEF B!ServerBufferExists, B!ServerBuffer
    <3> QED
      BY <1>2, <3>1, <3>2, Apart
  <2> QED
    BY <2>1, <2>2
<1>11. B!MembersHaveBuffers'
  BY <1>2, <1>3, BufFacts DEF B!MembersHaveBuffers
<1>12. B!ChannelsKeepTheirTextStep
  <2> SUFFICES ASSUME NEW x \in buffers_buffers, x \in buffers_buffers', x[2] \in BufferChans
        PROVE text'[x] >= text[x]
    BY DEF B!ChannelsKeepTheirTextStep
  <2>1. x # b
    BY <1>1, NamesApart
  <2>2. text'[x] = text[x] /\ text[x] \in Nat
    BY <2>1, <1>2, <1>4, BufFacts
  <2> QED
    BY <2>2
<1> QED
  BY <1>6, <1>7, <1>8, <1>9, <1>10, <1>11, <1>12 DEF BufInv

LEMMA ConnectedKeeps ==
  ASSUME BufInv, NEW c \in BufferConns, B!HandleConnected(c)
  PROVE  BufInv' /\ B!ChannelsKeepTheirTextStep
<1> DEFINE X == {<<c, h>> : h \in B!ChannelsToRejoin(c)}
<1>1. X \subseteq B!Ids
  <2>1. joinedChannels[c] \subseteq BufferChans
    BY BufFacts DEF Connections
  <2>2. B!ChannelsToRejoin(c) \subseteq BufferChans
    BY <2>1 DEF B!ChannelsToRejoin
  <2> QED
    BY <2>2, Apart
<1>2. /\ buffers_buffers' = buffers_buffers \cup X
         /\ text' = B!WithMissing(B!Add(text, B!ServerBuffer(c)), X)
      /\ B!Shown(c, B!ServerBuffer(c), buffers_buffers)
      /\ status[c] = "connecting" /\ status' = [status EXCEPT ![c] = "connected"]
      /\ UNCHANGED <<buffers_users, active, previous, label, joinedChannels, member, parting,
           buffers_asked, buffers_steps>>
  BY DEF B!HandleConnected
<1> HIDE DEF X
<1>3. /\ text' \in [buffers_buffers \cup X -> Lines]
         /\ \A x \in buffers_buffers : text'[x] >= text[x]
  <2> DEFINE T == B!Add(text, B!ServerBuffer(c))
  <2>1. T \in [buffers_buffers -> Lines] /\ \A x \in buffers_buffers : T[x] >= text[x]
    BY BufFacts, AddText
  <2>2. text' = B!WithMissing(T, X) /\ 0 \in Lines
    BY <1>2, BufFacts DEF Lines
  <2> HIDE DEF T
  <2> QED
    BY <2>1, <2>2 DEF B!WithMissing
<1>4. Landed'
  BY <1>2, HasServerBuffer, LandsHere
<1>5. Tables(buffers_buffers', text', buffers_users', active')
  BY <1>1, <1>2, <1>3, BufFacts DEF Tables
<1>6. Connections'
  BY <1>2, BufFacts DEF Connections
<1>7. Memberships'
  BY <1>2, BufFacts DEF Memberships, Connections
<1>8. B!ServerBufferExists' /\ B!MembersHaveBuffers' /\ Rest'
  BY <1>2, BufFacts DEF B!ServerBufferExists, B!MembersHaveBuffers, B!ServerBuffer, Connections,
     Rest
<1>9. B!ChannelsKeepTheirTextStep
  BY <1>3 DEF B!ChannelsKeepTheirTextStep
<1> QED
  BY <1>4, <1>5, <1>6, <1>7, <1>8, <1>9 DEF BufInv

LEMMA LabelKeeps ==
  ASSUME BufInv, NEW c \in BufferConns, B!UpdateLabelFromNetwork(c)
  PROVE  BufInv' /\ B!ChannelsKeepTheirTextStep
<1> DEFINE b == B!ServerBuffer(c)
           n == <<c, "network">>
<1>1. /\ b \in buffers_buffers /\ b = <<c, "address">> /\ n \in B!Ids /\ n # B!Status /\ b # n
      /\ n[2] \in B!ServerNames /\ b[2] \in B!ServerNames /\ b[1] = c
  BY HasServerBuffer, Apart DEF B!UpdateLabelFromNetwork, B!ServerNames
<1>2. /\ buffers_buffers' = (buffers_buffers \ {b}) \cup {n} /\ text' = B!Renamed(text, b, n)
      /\ active' = B!Follow(active, b, n) /\ label' = [label EXCEPT ![c] = "network"]
      /\ status[c] = "connected"
      /\ UNCHANGED <<buffers_users, previous, status, joinedChannels, member, parting,
           buffers_asked, landed, buffers_steps>>
  BY <1>1 DEF B!UpdateLabelFromNetwork
<1>3. B!ServerBuffer(c)' = n
  BY <1>2, BufFacts DEF B!ServerBuffer, Connections
<1> HIDE DEF b, n
<1>4. /\ text' \in [buffers_buffers' -> Lines]
         /\ \A x \in buffers_buffers \ {b, n} : text'[x] = text[x]
  BY <1>1, <1>2, BufFacts DEF B!Renamed
<1>5. buffers_users \subseteq buffers_buffers' /\ member \subseteq buffers_buffers' \cup parting
  BY <1>1, <1>2, BufFacts, NamesApart DEF Memberships, B!MembersHaveBuffers
<1>6. Tables(buffers_buffers', text', buffers_users', active')
  BY <1>1, <1>2, <1>4, <1>5, BufFacts DEF Tables, B!Follow
<1>7. Connections'
  BY <1>2, BufFacts, Apart DEF Connections
<1>8. Memberships' /\ Rest' /\ Landed' /\ B!MembersHaveBuffers'
  BY <1>2, <1>5, BufFacts DEF Memberships, Rest, Landed, B!MembersHaveBuffers
<1>9. B!ServerBufferExists'
  <2> SUFFICES ASSUME NEW d \in BufferConns, status'[d] # "none"
        PROVE B!ServerBuffer(d)' \in buffers_buffers'
    BY DEF B!ServerBufferExists
  <2>1. CASE d = c
    BY <2>1, <1>2, <1>3
  <2>2. CASE d # c
    <3>1. status[d] # "none" /\ B!ServerBuffer(d)' = B!ServerBuffer(d)
      BY <1>2, <2>2, BufFacts DEF Connections, B!ServerBuffer
    <3>2. B!ServerBuffer(d) \in buffers_buffers /\ B!ServerBuffer(d)[1] = d
      BY <3>1, BufFacts DEF B!ServerBufferExists, B!ServerBuffer
    <3> QED
      BY <1>1, <1>2, <2>2, <3>1, <3>2
  <2> QED
    BY <2>1, <2>2
<1>10. B!ChannelsKeepTheirTextStep
  BY <1>1, <1>2, <1>4, NamesApart, BufFacts DEF B!ChannelsKeepTheirTextStep
<1> QED
  BY <1>6, <1>7, <1>8, <1>9, <1>10 DEF BufInv

LEMMA JoinKeeps ==
  ASSUME BufInv, NEW c \in BufferConns, NEW h \in BufferChans, B!OwnJoin(c, h)
  PROVE  BufInv' /\ B!ChannelsKeepTheirTextStep
<1> DEFINE b == <<c, h>>
<1>1. /\ status[c] = "connected" /\ B!Step /\ member' = member \cup {b}
         /\ buffers_users' = buffers_users \cup {b}
      /\ UNCHANGED <<label, status, joinedChannels, parting, buffers_asked, landed>>
      /\ b \in BufferConns \X BufferChans /\ b[1] = c /\ b \in B!Ids
  BY Apart DEF B!OwnJoin
<1>2. /\ buffers_buffers' = buffers_buffers \cup {b} /\ text' \in [buffers_buffers' -> Lines]
         /\ active' \in buffers_buffers'
      /\ previous' \in B!Ids \cup {B!Nowhere} /\ \A x \in buffers_buffers : text'[x] = text[x]
  <2>1. CASE b \in buffers_users
    <3>1. UNCHANGED <<buffers_buffers, text, active, previous>>
      BY <2>1 DEF B!OwnJoin
    <3> QED
      BY <2>1, <3>1, BufFacts DEF Rest
  <2>2. CASE b \notin buffers_users
    <3>1. buffers_buffers' = buffers_buffers \cup {b} /\ text' = B!WithMissing(text, {b})
            /\ B!SetActive(b)
      BY <2>2 DEF B!OwnJoin
    <3>2. 0 \in Lines
      BY BufFacts DEF Lines
    <3> HIDE DEF b
    <3>3. text' \in [buffers_buffers' -> Lines] /\ \A x \in buffers_buffers : text'[x] = text[x]
      BY <3>1, <3>2, BufFacts DEF B!WithMissing
    <3> QED
      BY <3>1, <3>3, Selected
  <2> QED
    BY <2>1, <2>2
<1> HIDE DEF b
<1>3. Tables(buffers_buffers', text', buffers_users', active')
  BY <1>1, <1>2, BufFacts DEF Tables
<1>4. Connections' /\ Memberships'
  BY <1>1, BufFacts DEF Connections, Memberships
<1>5. Rest' /\ Landed'
  BY <1>1, <1>2, Steps, BufFacts DEF Rest, Landed
<1>6. B!ServerBufferExists' /\ B!MembersHaveBuffers'
  BY <1>1, <1>2, BufFacts DEF B!ServerBufferExists, B!ServerBuffer, B!MembersHaveBuffers
<1>7. B!ChannelsKeepTheirTextStep
  BY <1>2, BufFacts DEF B!ChannelsKeepTheirTextStep
<1> QED
  BY <1>3, <1>4, <1>5, <1>6, <1>7 DEF BufInv

LEMMA JoinFailsKeeps ==
  ASSUME BufInv, NEW c \in BufferConns, NEW h \in BufferChans, B!JoinFails(c, h)
  PROVE  BufInv' /\ B!ChannelsKeepTheirTextStep
<1> DEFINE b == <<c, h>>
           gone == IF b \in buffers_buffers \ buffers_users THEN {b} ELSE {}
<1>1. /\ status[c] = "connected" /\ B!Step /\ B!Shown(c, B!ServerBuffer(c), buffers_buffers)
      /\ b \notin member \cup parting /\ buffers_buffers' = buffers_buffers \ gone
           /\ B!FallBack(buffers_buffers \ gone)
      /\ text' = B!Without(B!Add(text, B!ServerBuffer(c)), gone)
      /\ UNCHANGED <<buffers_users, label, status, joinedChannels, member, parting, buffers_asked>>
      /\ b[2] \in BufferChans /\ gone \subseteq {b} /\ gone \cap buffers_users = {}
  BY DEF B!JoinFails
<1> HIDE DEF b, gone
<1>2. active' \in buffers_buffers' /\ previous' \in B!Ids \cup {B!Nowhere}
  BY <1>1, BufFacts, FallenBack
<1>3. /\ text' \in [buffers_buffers' -> Lines]
         /\ \A x \in buffers_buffers \ gone : text'[x] >= text[x]
  <2> DEFINE T == B!Add(text, B!ServerBuffer(c))
  <2>1. T \in [buffers_buffers -> Lines] /\ \A x \in buffers_buffers : T[x] >= text[x]
    BY BufFacts, AddText
  <2>2. text' = B!Without(T, gone)
    BY <1>1
  <2> HIDE DEF T
  <2> QED
    BY <1>1, <2>1, <2>2 DEF B!Without
<1>4. Landed'
  BY <1>1, HasServerBuffer, LandsHere
<1>5. Tables(buffers_buffers', text', buffers_users', active')
  BY <1>1, <1>2, <1>3, BufFacts DEF Tables
<1>6. Connections' /\ Memberships'
  BY <1>1, BufFacts DEF Connections, Memberships
<1>7. Rest'
  BY <1>1, <1>2, Steps, BufFacts DEF Rest
<1>8. B!MembersHaveBuffers'
  BY <1>1, BufFacts DEF B!MembersHaveBuffers
<1>9. B!ServerBufferExists'
  <2> SUFFICES ASSUME NEW d \in BufferConns, status'[d] # "none"
        PROVE B!ServerBuffer(d)' \in buffers_buffers'
    BY DEF B!ServerBufferExists
  <2>1. B!ServerBuffer(d)' = B!ServerBuffer(d) /\ B!ServerBuffer(d) \in buffers_buffers
        /\ B!ServerBuffer(d)[2] \in B!ServerNames
    BY <1>1, HasServerBuffer DEF B!ServerBuffer
  <2> QED
    BY <1>1, <2>1, NamesApart
<1>10. B!ChannelsKeepTheirTextStep
  BY <1>1, <1>3 DEF B!ChannelsKeepTheirTextStep
<1> QED
  BY <1>4, <1>5, <1>6, <1>7, <1>8, <1>9, <1>10 DEF BufInv

(* What goes with one buffer that is no server's.                          *)
LEMMA GoneKeeps ==
  ASSUME BufInv, NEW b \in B!Ids, b[2] \notin B!ServerNames,
    buffers_buffers \ {b} \subseteq buffers_buffers',
         UNCHANGED <<label, status>>
  PROVE  B!ServerBufferExists'
<1> SUFFICES ASSUME NEW d \in BufferConns, status'[d] # "none"
      PROVE B!ServerBuffer(d)' \in buffers_buffers'
  BY DEF B!ServerBufferExists
<1>1. /\ B!ServerBuffer(d)' = B!ServerBuffer(d) /\ B!ServerBuffer(d) \in buffers_buffers
      /\ B!ServerBuffer(d)[2] \in B!ServerNames
  BY HasServerBuffer DEF B!ServerBuffer
<1> QED
  BY <1>1

LEMMA OwnPartKeeps ==
  ASSUME BufInv, NEW c \in BufferConns, NEW h \in BufferChans, B!OwnPart(c, h)
  PROVE  BufInv' /\ B!ChannelsKeepTheirTextStep
<1> DEFINE b == <<c, h>>
<1>1. /\ member' = member \ {b} /\ parting' = parting \ {b}
      /\ B!RemoveBuffers(buffers_buffers \cap {b})
      /\ UNCHANGED <<label, status, joinedChannels, buffers_asked, landed, buffers_steps>>
      /\ b[2] = h /\ h \notin B!ServerNames /\ b \in B!Ids /\ b # B!Status
  BY Apart, NamesApart DEF B!OwnPart
<1> HIDE DEF b
<1>2. buffers_users' = buffers_users \ (buffers_buffers \cap {b})
  BY <1>1 DEF B!RemoveBuffers
<1>3. /\ Tables(buffers_buffers', text', buffers_users', active')
         /\ previous' \in B!Ids \cup {B!Nowhere}
      /\ buffers_buffers \ {b} \subseteq buffers_buffers'
           /\ buffers_buffers' \subseteq (buffers_buffers \ {b}) \cup {B!Status}
      /\ \A x \in buffers_buffers \ {b} : text'[x] = text[x]
  BY <1>1, Removed
<1>4. Connections' /\ Memberships' /\ Rest' /\ Landed'
  BY <1>1, <1>2, <1>3, BufFacts DEF Connections, Memberships, Rest, Landed
<1>5. B!MembersHaveBuffers'
  BY <1>1, <1>3, BufFacts DEF B!MembersHaveBuffers
<1>6. B!ServerBufferExists'
  BY <1>1, <1>3, GoneKeeps
<1>7. B!ChannelsKeepTheirTextStep
  BY <1>1, <1>3, BufFacts DEF B!ChannelsKeepTheirTextStep
<1> QED
  BY <1>3, <1>4, <1>5, <1>6, <1>7 DEF BufInv

LEMMA KickKeeps ==
  ASSUME BufInv, NEW c \in BufferConns, NEW h \in BufferChans, B!OwnKick(c, h)
  PROVE  BufInv' /\ B!ChannelsKeepTheirTextStep
<1> DEFINE b == <<c, h>>
           remaining == buffers_buffers \ {b}
<1>1. /\ B!Step /\ member' = member \ {b} /\ parting' = parting \ {b} /\ b \in member
      /\ buffers_buffers' = remaining /\ buffers_users' = buffers_users \ {b} /\ B!FallBack(remaining)
      /\ text' = LET T == B!Without(B!Add(text, B!ServerBuffer(c)), {b})
                  IN IF active' # B!ServerBuffer(c) THEN B!Add(T, active') ELSE T
      /\ B!Shown(c, active', remaining)
      /\ UNCHANGED <<label, status, joinedChannels, buffers_asked>>
      /\ b[2] = h /\ h \notin B!ServerNames /\ b \in B!Ids
  BY Apart, NamesApart DEF B!OwnKick
<1> HIDE DEF b
<1>2. active' \in remaining /\ previous' \in B!Ids \cup {B!Nowhere} /\ remaining \in SUBSET B!Ids
  BY <1>1, BufFacts, FallenBack
<1>3. text' \in [remaining -> Lines] /\ \A x \in remaining : text'[x] >= text[x]
  <2> DEFINE A == B!Add(text, B!ServerBuffer(c))
  <2>1. A \in [buffers_buffers -> Lines] /\ \A x \in buffers_buffers : A[x] >= text[x]
    BY BufFacts, AddText
  <2>2. text' = LET T == B!Without(A, {b})
          IN IF active' # B!ServerBuffer(c) THEN B!Add(T, active') ELSE T
    BY <1>1
  <2> HIDE DEF A
  <2> DEFINE T == B!Without(A, {b})
  <2>3. T \in [remaining -> Lines] /\ \A x \in remaining : T[x] >= text[x]
    BY <2>1 DEF B!Without
  <2>4. text' = T \/ text' = B!Add(T, active')
    BY <2>2
  <2> HIDE DEF T, remaining
  <2>5. B!Add(T, active') \in [remaining -> Lines] /\ \A x \in remaining : B!Add(T, active')[x] >= T[x]
    BY <2>3, BufFacts DEF B!Add, B!More, Lines
  <2>6. \A x \in remaining : text[x] \in Nat /\ T[x] \in Nat /\ B!Add(T, active')[x] \in Nat
    BY <2>3, <2>5, BufFacts DEF Lines, remaining
  <2>7. \A x \in remaining : B!Add(T, active')[x] >= text[x]
    BY <2>3, <2>5, <2>6
  <2> QED
    BY <2>3, <2>4, <2>5, <2>7
<1>4. Landed'
  BY <1>1, <1>2, LandsHere
<1>5. Tables(buffers_buffers', text', buffers_users', active')
  BY <1>1, <1>2, <1>3, BufFacts DEF Tables
<1>6. Connections' /\ Memberships'
  BY <1>1, BufFacts DEF Connections, Memberships
<1>7. Rest'
  BY <1>1, <1>2, Steps, BufFacts DEF Rest
<1>8. B!MembersHaveBuffers'
  BY <1>1, BufFacts DEF B!MembersHaveBuffers
<1>9. B!ServerBufferExists'
  BY <1>1, GoneKeeps
<1>10. B!ChannelsKeepTheirTextStep
  BY <1>1, <1>3 DEF B!ChannelsKeepTheirTextStep
<1> QED
  BY <1>4, <1>5, <1>6, <1>7, <1>8, <1>9, <1>10 DEF BufInv

(* A new buffer or none, none renamed.                                     *)
LEMMA GrownKeeps ==
  ASSUME BufInv, buffers_buffers \subseteq buffers_buffers', text' \in [buffers_buffers' -> Lines],
         \A x \in buffers_buffers : text'[x] >= text[x], buffers_buffers' \subseteq B!Ids,
           active' \in buffers_buffers',
         previous' \in B!Ids \cup {B!Nowhere}, B!Step, Landed',
         UNCHANGED <<buffers_users, label, status, joinedChannels, member, parting, buffers_asked>>
  PROVE  BufInv' /\ B!ChannelsKeepTheirTextStep
<1>1. Tables(buffers_buffers', text', buffers_users', active')
  BY BufFacts DEF Tables
<1>2. Connections' /\ Memberships'
  BY BufFacts DEF Connections, Memberships
<1>3. Rest'
  BY Steps, BufFacts DEF Rest
<1>4. B!ServerBufferExists' /\ B!MembersHaveBuffers'
  BY BufFacts DEF B!ServerBufferExists, B!ServerBuffer, B!MembersHaveBuffers
<1> QED
  BY <1>1, <1>2, <1>3, <1>4 DEF BufInv, B!ChannelsKeepTheirTextStep

LEMMA PrivmsgKeeps ==
  ASSUME BufInv, NEW c \in BufferConns, NEW n \in BufferNicks, B!HandlePrivmsg(c, n)
  PROVE  BufInv' /\ B!ChannelsKeepTheirTextStep
<1> DEFINE b == <<c, n>>
           T == B!WithMissing(text, {b})
<1>1. /\ B!Step /\ buffers_buffers' = buffers_buffers \cup {b} /\ text' = B!Add(T, b)
         /\ B!Shown(c, b, buffers_buffers \cup {b})
      /\ b \in B!Ids
      /\ UNCHANGED <<buffers_users, active, previous, label, status, joinedChannels, member,
           parting, buffers_asked>>
  BY Apart DEF B!HandlePrivmsg
<1> HIDE DEF b
<1>2. T \in [buffers_buffers' -> Lines] /\ \A x \in buffers_buffers : T[x] = text[x]
  BY <1>1, BufFacts DEF B!WithMissing, Lines
<1> HIDE DEF T
<1>3. text' \in [buffers_buffers' -> Lines] /\ \A x \in buffers_buffers : text'[x] >= text[x]
  BY <1>1, <1>2, BufFacts DEF B!Add, B!More, Lines
<1>4. Landed'
  BY <1>1, BufFacts, LandsHere
<1> QED
  BY <1>1, <1>3, <1>4, BufFacts, GrownKeeps DEF Rest

LEMMA QueryKeeps ==
  ASSUME BufInv, NEW n \in BufferNicks, B!CmdQuery(n)
  PROVE  BufInv' /\ B!ChannelsKeepTheirTextStep
<1> DEFINE b == <<active[1], n>>
<1>1. /\ B!Step /\ buffers_buffers' = buffers_buffers \cup {b}
         /\ text' = B!WithMissing(text, {b}) /\ B!SetActive(b)
      /\ b \in B!Ids
      /\ UNCHANGED <<buffers_users, label, status, joinedChannels, member, parting, buffers_asked,
           landed>>
  BY Apart DEF B!CmdQuery
<1> HIDE DEF b
<1>2. text' \in [buffers_buffers' -> Lines] /\ \A x \in buffers_buffers : text'[x] = text[x]
  BY <1>1, BufFacts DEF B!WithMissing, Lines
<1>3. Landed' /\ \A x \in buffers_buffers : text'[x] >= text[x]
  BY <1>1, <1>2, BufFacts DEF Landed
<1>4. active' \in buffers_buffers' /\ previous' \in B!Ids \cup {B!Nowhere}
  BY <1>1, Selected
<1> QED
  BY <1>1, <1>2, <1>3, <1>4, BufFacts, GrownKeeps

LEMMA MsgKeeps ==
  ASSUME BufInv, NEW t \in BufferNicks \cup BufferChans, B!CmdMsg(t)
  PROVE  BufInv' /\ B!ChannelsKeepTheirTextStep
<1> DEFINE b == <<active[1], t>>
           X == IF t \in BufferNicks THEN {b} ELSE {}
           T == B!WithMissing(text, X)
<1>1. /\ B!Step /\ buffers_buffers' = buffers_buffers \cup X /\ text' = B!Add(T, b)
         /\ X \subseteq B!Ids
      /\ UNCHANGED <<buffers_users, active, previous, label, status, joinedChannels, member,
           parting,
                     buffers_asked, landed>>
  BY Apart DEF B!CmdMsg
<1> HIDE DEF X, b
<1>2. T \in [buffers_buffers' -> Lines] /\ \A x \in buffers_buffers : T[x] = text[x]
  BY <1>1, BufFacts DEF B!WithMissing, Lines
<1> HIDE DEF T
<1>3. text' \in [buffers_buffers' -> Lines] /\ \A x \in buffers_buffers : text'[x] >= text[x]
  BY <1>1, <1>2, BufFacts DEF B!Add, B!More, Lines
<1> QED
  BY <1>1, <1>3, BufFacts, GrownKeeps DEF Rest, Landed

LEMMA NickKeeps ==
  ASSUME BufInv, NEW c \in BufferConns, NEW n \in BufferNicks, NEW m \in BufferNicks,
    B!HandleNickChange(c, n, m)
  PROVE  BufInv' /\ B!ChannelsKeepTheirTextStep
<1> DEFINE b == <<c, n>>
           new == <<c, m>>
           T == B!Add(text, b)
<1>1. /\ B!Step /\ b \in buffers_buffers /\ b # new /\ new \in B!Ids /\ b[2] \in BufferNicks
         /\ new[2] \in BufferNicks
      /\ buffers_buffers' = (buffers_buffers \ {b}) \cup {new} /\ text' = B!Renamed(T, b, new)
      /\ active' = B!Follow(active, b, new) /\ B!Shown(c, new, buffers_buffers')
      /\ UNCHANGED <<buffers_users, previous, label, status, joinedChannels, member, parting,
           buffers_asked>>
  BY Apart DEF B!HandleNickChange
<1> HIDE DEF b, new
<1>2. T \in [buffers_buffers -> Lines] /\ \A x \in buffers_buffers : T[x] >= text[x]
  BY BufFacts, AddText
<1> HIDE DEF T
<1>3. text' \in [buffers_buffers' -> Lines] /\ \A x \in buffers_buffers \ {b, new} : text'[x] = T[x]
  BY <1>1, <1>2 DEF B!Renamed
<1>4. buffers_users \subseteq buffers_buffers' /\ member \subseteq buffers_buffers' \cup parting
  BY <1>1, BufFacts, NamesApart DEF Memberships, B!MembersHaveBuffers
<1>5. Tables(buffers_buffers', text', buffers_users', active')
  BY <1>1, <1>3, <1>4, BufFacts DEF Tables, B!Follow
<1>6. Landed'
  <2>1. buffers_buffers' \in SUBSET B!Ids /\ new \in buffers_buffers'
    BY <1>1, BufFacts
  <2> QED
    BY <1>1, <2>1 DEF B!Shown, Landed
<1>7. Connections' /\ Memberships' /\ B!MembersHaveBuffers'
  BY <1>1, <1>4, BufFacts DEF Connections, Memberships, B!MembersHaveBuffers
<1>8. Rest'
  BY <1>1, Steps, BufFacts DEF Rest
<1>9. B!ServerBufferExists'
  BY <1>1, BufFacts, NamesApart, GoneKeeps
<1>10. B!ChannelsKeepTheirTextStep
  BY <1>1, <1>2, <1>3, NamesApart DEF B!ChannelsKeepTheirTextStep
<1> QED
  BY <1>5, <1>6, <1>7, <1>8, <1>9, <1>10 DEF BufInv

LEMMA CloseKeeps ==
  ASSUME BufInv, B!CmdClose
  PROVE  BufInv' /\ B!ChannelsKeepTheirTextStep
<1> DEFINE c == active[1]
<1>1. /\ active \in B!Ids /\ active # B!Status /\ c \in BufferConns /\ B!Step /\ B!Closes(active)
      /\ active \in buffers_buffers /\ UNCHANGED <<member, buffers_asked, landed>>
  BY BufFacts, Apart DEF B!CmdClose
<1>2. CASE active[2] \in B!ServerNames
  <2>1. /\ status[c] \in {"disconnected", "error"} /\ B!RemoveBuffers(B!Of(c))
        /\ label' = [label EXCEPT ![c] = "none"] /\ status' = [status EXCEPT ![c] = "none"]
        /\ joinedChannels' = [joinedChannels EXCEPT ![c] = BufferAutojoin] /\ parting' = parting
    BY <1>1, <1>2 DEF B!Closes
  <2> HIDE DEF c
  <2>2. /\ Tables(buffers_buffers', text', buffers_users', active')
           /\ previous' \in B!Ids \cup {B!Nowhere}
        /\ buffers_buffers \ B!Of(c) \subseteq buffers_buffers'
             /\ buffers_buffers' \subseteq (buffers_buffers \ B!Of(c)) \cup {B!Status}
        /\ \A x \in buffers_buffers \ B!Of(c) : text'[x] = text[x]
    BY <2>1, Removed
  <2>3. buffers_users' \subseteq buffers_users /\ B!Status \notin B!Of(c)
    BY <1>1, <2>1, Apart DEF B!RemoveBuffers, B!Of
  <2>4. Connections'
    BY <1>1, <2>1, BufFacts, BuffersAssumption DEF Connections, B!BuffersAssumption
  <2>5. \A m \in member : m[1] # c
    BY <2>1, BufFacts DEF Memberships
  <2>6. Memberships'
    BY <1>1, <2>1, <2>3, <2>5, BufFacts DEF Memberships, Connections
  <2>7. B!MembersHaveBuffers'
    BY <1>1, <2>1, <2>2, <2>5, BufFacts DEF B!MembersHaveBuffers, B!Of
  <2>8. Rest' /\ Landed'
    BY <1>1, <2>2, Steps, BufFacts DEF Rest, Landed
  <2>9. B!ServerBufferExists'
    <3> SUFFICES ASSUME NEW d \in BufferConns, status'[d] # "none"
          PROVE B!ServerBuffer(d)' \in buffers_buffers'
      BY DEF B!ServerBufferExists
    <3>1. d # c /\ status[d] # "none" /\ B!ServerBuffer(d)' = B!ServerBuffer(d)
      BY <1>1, <2>1, BufFacts DEF Connections, B!ServerBuffer
    <3>2. B!ServerBuffer(d) \in buffers_buffers /\ B!ServerBuffer(d)[1] = d
      BY <3>1, BufFacts DEF B!ServerBufferExists, B!ServerBuffer
    <3> QED
      BY <2>2, <3>1, <3>2 DEF B!Of
  <2>10. B!ChannelsKeepTheirTextStep
    BY <2>2, <2>3, BufFacts DEF B!ChannelsKeepTheirTextStep
  <2> QED
    BY <2>2, <2>4, <2>6, <2>7, <2>8, <2>9, <2>10 DEF BufInv
<1>3. CASE active[2] \notin B!ServerNames
  <2>1. /\ B!RemoveBuffers({active}) /\ UNCHANGED <<label, status, joinedChannels>>
        /\ parting' = IF active \in member THEN parting \cup {active} ELSE parting
    BY <1>1, <1>3 DEF B!Closes
  <2>2. /\ Tables(buffers_buffers', text', buffers_users', active')
           /\ previous' \in B!Ids \cup {B!Nowhere}
        /\ buffers_buffers \ {active} \subseteq buffers_buffers'
             /\ buffers_buffers' \subseteq (buffers_buffers \ {active}) \cup {B!Status}
        /\ \A x \in buffers_buffers \ {active} : text'[x] = text[x]
    BY <2>1, Removed
  <2>3. buffers_users' \subseteq buffers_users
    BY <2>1 DEF B!RemoveBuffers
  <2>4. Connections' /\ Memberships'
    BY <1>1, <2>1, <2>3, BufFacts DEF Connections, Memberships
  <2>5. B!MembersHaveBuffers'
    BY <1>1, <2>1, <2>2, BufFacts DEF B!MembersHaveBuffers
  <2>6. Rest' /\ Landed'
    BY <1>1, <2>2, Steps, BufFacts DEF Rest, Landed
  <2>7. B!ServerBufferExists'
    BY <1>1, <1>3, <2>1, <2>2, GoneKeeps
  <2>8. B!ChannelsKeepTheirTextStep
    BY <1>1, <2>2, BufFacts DEF B!ChannelsKeepTheirTextStep
  <2> QED
    BY <2>2, <2>4, <2>5, <2>6, <2>7, <2>8 DEF BufInv
<1> QED
  BY <1>2, <1>3

LEMMA BufInit == ASSUME B!Init PROVE BufInv
<1>1. Tables(buffers_buffers, text, buffers_users, active)
  BY Apart, BuffersAssumption DEF B!Init, Tables, Lines, B!BuffersAssumption
<1>2. Connections /\ Memberships /\ Rest /\ Landed
  BY Apart, BuffersAssumption DEF B!Init, Connections, Memberships, Rest, Landed,
     B!BuffersAssumption
<1>3. B!ServerBufferExists /\ B!MembersHaveBuffers
  BY DEF B!Init, B!ServerBufferExists, B!MembersHaveBuffers
<1> QED
  BY <1>1, <1>2, <1>3 DEF BufInv

LEMMA BufStep == ASSUME BufInv, B!Next PROVE BufInv' /\ B!ChannelsKeepTheirTextStep
<1> DEFINE Good == BufInv' /\ B!ChannelsKeepTheirTextStep
<1>1. ASSUME NEW c \in BufferConns,
             \/ B!SetupConnection(c) \/ B!HandleConnected(c) \/ B!UpdateLabelFromNetwork(c)
             \/ B!HandleDisconnected(c) \/ B!Reconnect(c) \/ B!ServerLine(c) \/ B!HandleInvite(c)
             \/ B!OtherNumeric(c)
      PROVE  Good
  BY <1>1, SetupKeeps, ConnectedKeeps, LabelKeeps, DisconnectedKeeps, ReconnectKeeps,
     ServerLineKeeps, InviteKeeps, NumericKeeps
<1>2. ASSUME NEW c \in BufferConns, NEW h \in BufferChans,
             B!OwnJoin(c, h) \/ B!JoinFails(c, h) \/ B!Part(c, h) \/ B!OwnPart(c, h)
               \/ B!OwnKick(c, h)
      PROVE  Good
  BY <1>2, JoinKeeps, JoinFailsKeeps, PartKeeps, OwnPartKeeps, KickKeeps
<1>3. ASSUME NEW c \in BufferConns, NEW n \in BufferNicks, B!HandlePrivmsg(c, n)
        \/ B!HandleNotice(c, n)
      PROVE  Good
  BY <1>3, PrivmsgKeeps, NoticeKeeps
<1>4. ASSUME NEW c \in BufferConns, NEW n \in BufferNicks, NEW m \in BufferNicks,
        B!HandleNickChange(c, n, m)
      PROVE  Good
  BY <1>4, NickKeeps
<1>5. ASSUME NEW n \in BufferNicks, B!CmdQuery(n) PROVE Good
  BY <1>5, QueryKeeps
<1>6. ASSUME NEW t \in BufferNicks \cup BufferChans, B!CmdMsg(t) PROVE Good
  BY <1>6, MsgKeeps
<1>7. ASSUME NEW q \in buffers_asked, B!HandleResponse(q) PROVE Good
  BY <1>7, ResponseKeeps
<1>8. ASSUME NEW b \in buffers_buffers, B!Select(b) PROVE Good
  BY <1>8, SelectKeeps
<1>9. ASSUME B!Ask \/ B!CmdClose PROVE Good
  BY <1>9, AskKeeps, CloseKeeps
<1> HIDE DEF Good
<1>10. Good
  BY <1>1, <1>2, <1>3, <1>4, <1>5, <1>6, <1>7, <1>8, <1>9 DEF B!Next
<1> QED
  BY <1>10 DEF Good

LEMMA BufStays == ASSUME BufInv, [B!Next]_(B!vars) PROVE BufInv'
<1>1. CASE B!Next
  BY <1>1, BufStep
<1>2. CASE UNCHANGED B!vars
  BY <1>2 DEF B!vars, BufInv, Tables, Connections, Memberships, Rest, Landed, B!ServerBufferExists,
              B!ServerBuffer, B!MembersHaveBuffers
<1> QED
  BY <1>1, <1>2

LEMMA BufGood == ASSUME BufInv PROVE B!TypeOK /\ B!NothingIsLost /\ B!ServerBufferExists
        /\ B!MembersHaveBuffers
<1>1. B!TypeOK
  BY BufFacts DEF B!TypeOK, Connections, Memberships, Rest, Landed, Lines
<1>2. B!NothingIsLost
  BY BufFacts, Apart DEF B!NothingIsLost, Landed
<1> QED
  BY <1>1, <1>2, BufFacts

-----------------------------------------------------------------------------
(* The lines that wait for the shortener, for any buffers, nicks, caps and *)
(* bounds.  A line is where it is once, as it was typed, and in a lane of  *)
(* its direction; what is in front in a lane came before what follows.     *)
Known(l) == l.id \in DOMAIN typed /\ l = typed[l.id]
Numbered ==
  \A i \in DOMAIN typed : typed[i].id = i /\ (typed[i].handle => typed[i].buf \in ShrinkPeers)
InTheirLanes ==
  /\ \A d \in S!Dirs : \A l \in S!Range(shrink_lane[d]) \cup S!Range(working[d]) : Known(l) /\ l.dir = d
  /\ \A l \in S!Range(delivered) : Known(l)
SentOnes == \A i \in DOMAIN shrink_wire : shrink_wire[i].id \in DOMAIN typed
ShrinkInv ==
  /\ S!TypeOK /\ Numbered /\ InTheirLanes /\ SentOnes
  /\ S!SecretLinesStayEncrypted /\ S!TypedLinesAreAccountedFor /\ S!DelayedKeepOrder

LEMMA LineAppended ==
  ASSUME NEW s \in Seq(S!Lines), NEW x \in S!Lines
  PROVE  /\ Append(s, x) \in Seq(S!Lines) /\ Len(Append(s, x)) = Len(s) + 1
         /\ S!Range(Append(s, x)) = S!Range(s) \cup {x}
         /\ S!Ordered(s) /\ S!Before(S!Range(s), {x}) => S!Ordered(Append(s, x))
<1> DEFINE t == Append(s, x)
<1>1. /\ t \in Seq(S!Lines) /\ Len(t) = Len(s) + 1 /\ Len(s) \in Nat
      /\ DOMAIN t = DOMAIN s \cup {Len(s) + 1} /\ DOMAIN s = 1 .. Len(s)
      /\ t[Len(s) + 1] = x /\ \A i \in DOMAIN s : t[i] = s[i]
  OBVIOUS
<1> HIDE DEF t
<1>2. S!Range(t) = S!Range(s) \cup {x}
  <2>1. \A i \in DOMAIN t : t[i] \in S!Range(s) \cup {x}
    BY <1>1 DEF S!Range
  <2>2. x \in S!Range(t) /\ \A i \in DOMAIN s : s[i] \in S!Range(t)
    BY <1>1 DEF S!Range
  <2> QED
    BY <2>1, <2>2 DEF S!Range
<1>3. ASSUME S!Ordered(s), S!Before(S!Range(s), {x}) PROVE S!Ordered(t)
  <2> SUFFICES ASSUME NEW i \in DOMAIN t, NEW j \in DOMAIN t, i < j, t[i].dir = t[j].dir
               PROVE  t[i].id < t[j].id
    BY DEF S!Ordered
  <2>1. i \in DOMAIN s /\ t[i] = s[i] /\ s[i] \in S!Range(s)
    BY <1>1 DEF S!Range
  <2>2. CASE j \in DOMAIN s
    BY <2>1, <2>2, <1>1, <1>3 DEF S!Ordered
  <2>3. CASE j = Len(s) + 1
    BY <2>1, <2>3, <1>1, <1>3 DEF S!Before
  <2> QED
    BY <2>2, <2>3, <1>1
<1> QED
  BY <1>1, <1>2, <1>3 DEF t

LEMMA LineTaken ==
  ASSUME NEW s \in Seq(S!Lines), s # <<>>
  PROVE  /\ Head(s) \in S!Lines /\ Tail(s) \in Seq(S!Lines) /\ Len(Tail(s)) = Len(s) - 1
         /\ Len(s) \in Nat \ {0}
         /\ S!Range(s) = {Head(s)} \cup S!Range(Tail(s))
         /\ S!Ordered(s) => S!Ordered(Tail(s)) /\ S!Before({Head(s)}, S!Range(Tail(s)))
<1> DEFINE t == Tail(s)
<1>1. Len(s) \in Nat \ {0}
  BY EmptySeq, Zenon
<1>2. /\ t \in Seq(S!Lines) /\ Len(t) = Len(s) - 1 /\ DOMAIN s = 1 .. Len(s)
      /\ DOMAIN t = 1 .. Len(s) - 1 /\ \A i \in DOMAIN t : t[i] = s[i + 1] /\ i + 1 \in DOMAIN s
      /\ Head(s) = s[1] /\ 1 \in DOMAIN s
  BY <1>1
<1> HIDE DEF t
<1>3. S!Range(s) = {Head(s)} \cup S!Range(t)
  <2>1. \A i \in DOMAIN s : s[i] \in {Head(s)} \cup S!Range(t)
    <3> TAKE i \in DOMAIN s
    <3>1. CASE i = 1
      BY <1>2, <3>1
    <3>2. CASE i # 1
      <4>1. i - 1 \in DOMAIN t /\ t[i - 1] = s[i]
        BY <1>2, <1>1, <3>2
      <4> QED
        BY <4>1 DEF S!Range
    <3> QED
      BY <3>1, <3>2
  <2>2. Head(s) \in S!Range(s) /\ \A i \in DOMAIN t : t[i] \in S!Range(s)
    BY <1>2 DEF S!Range
  <2> QED
    BY <2>1, <2>2 DEF S!Range
<1>4. ASSUME S!Ordered(s) PROVE S!Ordered(t) /\ S!Before({Head(s)}, S!Range(t))
  <2>1. S!Ordered(t)
    <3> SUFFICES ASSUME NEW i \in DOMAIN t, NEW j \in DOMAIN t, i < j, t[i].dir = t[j].dir
                 PROVE  t[i].id < t[j].id
      BY DEF S!Ordered
    <3>1. /\ i + 1 \in DOMAIN s /\ j + 1 \in DOMAIN s /\ i + 1 < j + 1
          /\ t[i] = s[i + 1] /\ t[j] = s[j + 1]
      BY <1>1, <1>2
    <3> QED
      BY <3>1, <1>4 DEF S!Ordered
  <2>2. \A i \in DOMAIN t : s[1].dir = t[i].dir => s[1].id < t[i].id
    <3> TAKE i \in DOMAIN t
    <3>1. 1 < i + 1 /\ i + 1 \in DOMAIN s /\ t[i] = s[i + 1]
      BY <1>2
    <3> QED
      BY <3>1, <1>2, <1>4 DEF S!Ordered
  <2> QED
    BY <2>1, <2>2, <1>2 DEF S!Before, S!Range
<1> QED
  BY <1>1, <1>2, <1>3, <1>4 DEF t

LEMMA SingleLine ==
  ASSUME NEW s \in Seq(S!Lines), Len(s) <= 1, s # <<>>
  PROVE  /\ s[1] \in S!Lines /\ s = <<s[1]>> /\ S!Range(s) = {s[1]}
         /\ \A q \in Seq(S!Lines) : q \o s = Append(q, s[1])
<1>1. s \in Seq(S!Lines) /\ Len(s) = 1
  <2>1. Len(s) \in Nat /\ Len(s) # 0
    BY EmptySeq, Zenon
  <2> QED
    BY <2>1
<1>2. s[1] \in S!Lines /\ DOMAIN s = {1}
  BY <1>1
<1>3. s = <<s[1]>>
  BY <1>1
<1>4. S!Range(s) = {s[1]}
  BY <1>2 DEF S!Range
<1>5. \A q \in Seq(S!Lines) : q \o <<s[1]>> = Append(q, s[1])
  BY <1>2, AppendIsConcat
<1> QED
  BY <1>2, <1>3, <1>4, <1>5

LEMMA NoLine == Len(<<>>) = 0 /\ S!Range(<<>>) = {} /\ <<>> \in Seq(S!Lines)
<1>1. DOMAIN <<>> = {} /\ Len(<<>>) = 0
  OBVIOUS
<1> QED
  BY <1>1 DEF S!Range

LEMMA ShrinkFacts ==
  ASSUME ShrinkInv
  PROVE  /\ ShrinkQueueCap \in Nat /\ ShrinkMaxLines \in Nat /\ ShrinkFirstNick \in ShrinkNicks
         /\ typed \in Seq(S!Lines) /\ Len(typed) \in Nat /\ DOMAIN typed = 1 .. Len(typed)
         /\ delivered \in Seq(S!Lines)
         /\ shrink_lane \in [S!Dirs -> Seq(S!Lines)] /\ working \in [S!Dirs -> Seq(S!Lines)]
         /\ \A d \in S!Dirs : Len(shrink_lane[d]) <= ShrinkQueueCap /\ Len(working[d]) <= 1
BY ShrinkAssumption DEF ShrinkInv, S!TypeOK, S!ShrinkAssumption

LEMMA TypedGrows ==
  ASSUME ShrinkInv, NEW dir \in S!Dirs, NEW place \in S!Bufs, S!Arrives(S!Line(dir, place))
  PROVE  LET l == S!Line(dir, place)
         IN  /\ l \in S!Lines /\ l.dir = dir /\ l.id = Len(typed) + 1
             /\ typed' \in Seq(S!Lines) /\ DOMAIN typed' = DOMAIN typed \cup {l.id}
             /\ typed'[l.id] = l /\ \A i \in DOMAIN typed : typed'[i] = typed[i] /\ i < l.id
             /\ l.handle => place \in ShrinkPeers
             /\ Numbered'
<1> DEFINE l == S!Line(dir, place)
<1>1. /\ typed \in Seq(S!Lines) /\ Len(typed) \in Nat /\ DOMAIN typed = 1 .. Len(typed)
      /\ ShrinkMaxLines \in Nat /\ peerKnown \subseteq ShrinkPeers /\ ownNick \in ShrinkNicks
      /\ Len(typed) < ShrinkMaxLines /\ typed' = Append(typed, l)
  BY ShrinkFacts DEF S!Arrives, ShrinkInv, S!TypeOK
<1>2. /\ l \in S!Lines /\ l.dir = dir /\ l.buf = place /\ l.id = Len(typed) + 1
      /\ l.handle => place \in ShrinkPeers
  <2>1. l.dir = dir /\ l.buf = place /\ l.id = Len(typed) + 1 /\ l.handle = (place \in peerKnown)
    BY DEF S!Line
  <2>2. Len(typed) + 1 \in 1..ShrinkMaxLines /\ (place \in peerKnown) \in BOOLEAN
    BY <1>1
  <2>3. l \in S!Lines
    BY <2>2, <1>1 DEF S!Line, S!Lines
  <2>4. l.handle => place \in ShrinkPeers
    BY <2>1, <1>1
  <2> QED
    BY <2>1, <2>3, <2>4
<1> HIDE DEF l
<1>3. /\ typed' \in Seq(S!Lines) /\ DOMAIN typed' = DOMAIN typed \cup {l.id}
      /\ typed'[l.id] = l /\ \A i \in DOMAIN typed : typed'[i] = typed[i] /\ i < l.id
  BY <1>1, <1>2
<1>4. Numbered'
  BY <1>2, <1>3 DEF Numbered, ShrinkInv
<1> QED
  BY <1>2, <1>3, <1>4 DEF l

(* A record that is appended is the one more that is found.                *)
LEMMA Recorded ==
  ASSUME NEW T, NEW s \in Seq(T), NEW r \in T
  PROVE  /\ Append(s, r) \in Seq(T) /\ DOMAIN Append(s, r) = DOMAIN s \cup {Len(s) + 1}
         /\ Append(s, r)[Len(s) + 1] = r /\ \A i \in DOMAIN s : Append(s, r)[i] = s[i]
         /\ r.id \in {Append(s, r)[i].id : i \in DOMAIN Append(s, r)}
         /\ {s[i].id : i \in DOMAIN s} \subseteq {Append(s, r)[i].id : i \in DOMAIN Append(s, r)}
<1> DEFINE t == Append(s, r)
<1>1. /\ t \in Seq(T) /\ DOMAIN t = DOMAIN s \cup {Len(s) + 1}
      /\ t[Len(s) + 1] = r /\ \A i \in DOMAIN s : t[i] = s[i]
  OBVIOUS
<1> HIDE DEF t
<1>2. /\ r.id \in {t[i].id : i \in DOMAIN t}
      /\ {s[i].id : i \in DOMAIN s} \subseteq {t[i].id : i \in DOMAIN t}
  BY <1>1
<1> QED
  BY <1>1, <1>2 DEF t

WireRecords == [id: 1..ShrinkMaxLines, nick: ShrinkNicks, encrypted: BOOLEAN]
ScreenRecords == [id: 1..ShrinkMaxLines, buf: S!Bufs, nick: ShrinkNicks]
Recording(id) ==
  /\ shrink_wire' \in Seq(WireRecords) /\ screen' \in Seq(ScreenRecords) /\ SentOnes'
  /\ S!SecretLinesStayEncrypted'
  /\ S!WireIds \subseteq S!WireIds' /\ S!ShownIds \subseteq S!ShownIds'
  /\ told \subseteq told' /\ swallowed \subseteq swallowed'
  /\ id \in S!WireIds' \cup S!ShownIds' \cup told' \cup swallowed'

(* What is sent is as safe as the line was when it was typed: what leaves  *)
(* in the clear although the handle was there is on record as let pass.    *)
LEMMA PassedGrows ==
  ASSUME NEW l, NEW how, S!PassesThrough(l, how)
  PROVE  passed \subseteq passed'
BY DEF S!PassesThrough

LEMMA OnTheWire ==
  ASSUME ShrinkInv, NEW l \in S!Lines, l.id \in DOMAIN typed', typed'[l.id] = l,
         \A i \in DOMAIN typed : i \in DOMAIN typed' /\ typed'[i] = typed[i],
         NEW how \in S!E2eEncryptOrPassthrough(l), how # "refused", S!PassesThrough(l, how),
         shrink_wire' = Append(shrink_wire, S!SentAs(l, how))
  PROVE  /\ shrink_wire' \in Seq(WireRecords) /\ SentOnes' /\ S!SecretLinesStayEncrypted'
         /\ l.id \in S!WireIds' /\ S!WireIds \subseteq S!WireIds'
<1> DEFINE r == S!SentAs(l, how)
<1>1. ownNick \in ShrinkNicks /\ shrink_wire \in Seq(WireRecords)
  BY DEF ShrinkInv, S!TypeOK, WireRecords
<1>2. l.id \in 1..ShrinkMaxLines /\ l.handle \in BOOLEAN
  BY DEF S!Lines
<1>3. how \in {"cipher", "plain"}
  BY DEF S!E2eEncryptOrPassthrough
<1>4. r \in WireRecords /\ r.id = l.id /\ r.encrypted = (how = "cipher")
  BY <1>1, <1>2, <1>3 DEF S!SentAs, WireRecords
<1>8. l.handle => r.encrypted \/ r.id \in passed'
  <2>1. CASE how = "cipher"
    BY <2>1, <1>4
  <2>2. CASE how = "plain"
    BY <2>2, <1>4 DEF S!PassesThrough, S!HandleKnown, S!Captured
  <2> QED
    BY <2>1, <2>2, <1>3
<1> HIDE DEF r
<1>5. /\ shrink_wire' \in Seq(WireRecords)
      /\ DOMAIN shrink_wire' = DOMAIN shrink_wire \cup {Len(shrink_wire) + 1}
      /\ shrink_wire'[Len(shrink_wire) + 1] = r
      /\ \A i \in DOMAIN shrink_wire : shrink_wire'[i] = shrink_wire[i]
      /\ l.id \in S!WireIds' /\ S!WireIds \subseteq S!WireIds'
  BY <1>1, <1>4, Recorded DEF S!WireIds, r
<1>6. SentOnes'
  BY <1>4, <1>5 DEF SentOnes, ShrinkInv
<1>7. S!SecretLinesStayEncrypted'
  <2> SUFFICES ASSUME NEW i \in DOMAIN shrink_wire', typed'[shrink_wire'[i].id].handle
               PROVE  shrink_wire'[i].encrypted \/ shrink_wire'[i].id \in passed'
    BY DEF S!SecretLinesStayEncrypted
  <2>1. CASE i \in DOMAIN shrink_wire
    <3>1. shrink_wire'[i] = shrink_wire[i] /\ shrink_wire[i].id \in DOMAIN typed
      BY <1>5, <2>1 DEF SentOnes, ShrinkInv
    <3> QED
      BY <3>1, <2>1, PassedGrows DEF S!SecretLinesStayEncrypted, ShrinkInv
  <2>2. CASE i = Len(shrink_wire) + 1
    BY <2>2, <1>8, <1>4, <1>5
  <2> QED
    BY <2>1, <2>2, <1>5
<1> QED
  BY <1>5, <1>6, <1>7

LEMMA OnTheScreen ==
  ASSUME ShrinkInv, NEW l \in S!Lines, NEW nick \in ShrinkNicks,
         screen' = Append(screen, S!Shown(l, nick))
  PROVE  screen' \in Seq(ScreenRecords) /\ l.id \in S!ShownIds' /\ S!ShownIds \subseteq S!ShownIds'
<1>1. S!Shown(l, nick) \in ScreenRecords /\ S!Shown(l, nick).id = l.id /\ screen \in Seq(ScreenRecords)
  BY DEF S!Shown, ScreenRecords, S!Lines, ShrinkInv, S!TypeOK
<1> QED
  BY <1>1, Recorded DEF S!ShownIds

LEMMA NotSent ==
  ASSUME ShrinkInv, \A i \in DOMAIN typed : i \in DOMAIN typed' /\ typed'[i] = typed[i],
         shrink_wire' = shrink_wire, passed \subseteq passed'
  PROVE  /\ shrink_wire' \in Seq(WireRecords) /\ SentOnes' /\ S!SecretLinesStayEncrypted'
         /\ S!WireIds \subseteq S!WireIds'
BY DEF ShrinkInv, SentOnes, S!SecretLinesStayEncrypted, S!WireIds, S!TypeOK, WireRecords

LEMMA NotShown ==
  ASSUME ShrinkInv, screen' = screen
  PROVE  screen' \in Seq(ScreenRecords) /\ S!ShownIds \subseteq S!ShownIds'
BY DEF ShrinkInv, S!ShownIds, S!TypeOK, ScreenRecords

LEMMA SendingOut ==
  ASSUME ShrinkInv, NEW l \in S!Lines, l.id \in DOMAIN typed', typed'[l.id] = l,
         \A i \in DOMAIN typed : i \in DOMAIN typed' /\ typed'[i] = typed[i],
         S!SendOutgoingSubstituted(l) \/ S!SendNow(l)
  PROVE  Recording(l.id)
<1>1. l.nick \in ShrinkNicks
  BY DEF S!Lines
<1>2. ASSUME S!DeliverOutgoingError(l), passed \subseteq passed' PROVE Recording(l.id)
  BY <1>2, NotSent, NotShown DEF S!DeliverOutgoingError, Recording
<1>3. ASSUME link = "none", S!DeliverOutgoingError(l), UNCHANGED passed PROVE Recording(l.id)
  BY <1>2, <1>3
<1>4. ASSUME NEW how \in S!E2eEncryptOrPassthrough(l), S!PassesThrough(l, how),
             S!DeliverOutgoingError(l)
      PROVE  Recording(l.id)
  BY <1>2, <1>4, PassedGrows
<1>5. ASSUME NEW how \in S!E2eEncryptOrPassthrough(l), S!PassesThrough(l, how), how # "refused",
             shrink_wire' = Append(shrink_wire, S!SentAs(l, how)),
             screen' = Append(screen, S!Shown(l, l.nick)) \/ screen' = screen,
             told \subseteq told', swallowed \subseteq swallowed'
      PROVE  Recording(l.id)
  <2>1. screen' \in Seq(ScreenRecords) /\ S!ShownIds \subseteq S!ShownIds'
    BY <1>1, <1>5, OnTheScreen, NotShown
  <2>2. /\ shrink_wire' \in Seq(WireRecords) /\ SentOnes' /\ S!SecretLinesStayEncrypted'
        /\ l.id \in S!WireIds' /\ S!WireIds \subseteq S!WireIds'
    BY <1>5, OnTheWire
  <2> QED
    BY <2>1, <2>2, <1>5 DEF Recording
<1>6. ASSUME NEW how \in S!E2eEncryptOrPassthrough(l), S!PassesThrough(l, how),
             shrink_wire' = shrink_wire, told' = told,
             \/ screen' = Append(screen, S!Shown(l, l.nick)) /\ swallowed' = swallowed
             \/ screen' = screen /\ swallowed' = swallowed \cup {l.id}
      PROVE  Recording(l.id)
  <2>1. screen' \in Seq(ScreenRecords) /\ S!ShownIds \subseteq S!ShownIds'
        /\ swallowed \subseteq swallowed' /\ l.id \in S!ShownIds' \cup swallowed'
    BY <1>1, <1>6, OnTheScreen, NotShown
  <2>2. /\ shrink_wire' \in Seq(WireRecords) /\ SentOnes' /\ S!SecretLinesStayEncrypted'
        /\ S!WireIds \subseteq S!WireIds'
    BY <1>6, NotSent, PassedGrows
  <2> QED
    BY <2>1, <2>2, <1>6 DEF Recording
<1>7. CASE S!SendOutgoingSubstituted(l)
  <2>1. CASE link = "none" /\ S!DeliverOutgoingError(l) /\ UNCHANGED passed
    BY <2>1, <1>3
  <2>2. ASSUME NEW how \in S!E2eEncryptOrPassthrough(l), S!PassesThrough(l, how),
               \/ (how = "refused" \/ link = "broken") /\ S!DeliverOutgoingError(l)
               \/ /\ how # "refused" /\ link = "up"
                  /\ shrink_wire' = Append(shrink_wire, S!SentAs(l, how))
                  /\ screen' = IF S!LocalEcho(how) /\ l.buf \in openBufs
                               THEN Append(screen, S!Shown(l, l.nick)) ELSE screen
                  /\ told' = IF S!LocalEcho(how) /\ l.buf \notin openBufs
                             THEN told \cup {l.id} ELSE told
                  /\ UNCHANGED swallowed
        PROVE  Recording(l.id)
    <3>1. CASE S!DeliverOutgoingError(l)
      BY <2>2, <3>1, <1>4
    <3>2. CASE ~ S!DeliverOutgoingError(l)
      <4>1. /\ how # "refused" /\ shrink_wire' = Append(shrink_wire, S!SentAs(l, how))
            /\ screen' = Append(screen, S!Shown(l, l.nick)) \/ screen' = screen
            /\ told \subseteq told' /\ swallowed \subseteq swallowed'
        BY <2>2, <3>2
      <4> QED
        BY <4>1, <2>2, <1>5
    <3> QED
      BY <3>1, <3>2
  <2> QED
    BY <1>7, <2>1, <2>2 DEF S!SendOutgoingSubstituted
<1>8. CASE S!SendNow(l)
  <2>1. ASSUME NEW how \in S!E2eEncryptOrPassthrough(l), S!PassesThrough(l, how),
               \/ (how = "refused" \/ link = "broken") /\ S!DeliverOutgoingError(l)
               \/ /\ how # "refused" /\ link # "broken" /\ UNCHANGED told
                  /\ shrink_wire' = IF link = "up" THEN Append(shrink_wire, S!SentAs(l, how))
                                    ELSE shrink_wire
                  /\ screen' = IF S!LocalEcho(how) THEN Append(screen, S!Shown(l, l.nick))
                               ELSE screen
                  /\ swallowed' = IF link = "none" /\ ~ S!LocalEcho(how)
                                  THEN swallowed \cup {l.id} ELSE swallowed
        PROVE  Recording(l.id)
    <3>1. CASE S!DeliverOutgoingError(l)
      BY <2>1, <3>1, <1>4
    <3>2. CASE ~ S!DeliverOutgoingError(l) /\ link = "up"
      <4>1. /\ how # "refused" /\ shrink_wire' = Append(shrink_wire, S!SentAs(l, how))
            /\ screen' = Append(screen, S!Shown(l, l.nick)) \/ screen' = screen
            /\ told \subseteq told' /\ swallowed \subseteq swallowed'
        BY <2>1, <3>2
      <4> QED
        BY <4>1, <2>1, <1>5
    <3>3. CASE ~ S!DeliverOutgoingError(l) /\ link # "up"
      <4>0. link = "none"
        BY <2>1, <3>3 DEF ShrinkInv, S!TypeOK
      <4>1. /\ shrink_wire' = shrink_wire /\ told' = told
            /\ \/ screen' = Append(screen, S!Shown(l, l.nick)) /\ swallowed' = swallowed
               \/ screen' = screen /\ swallowed' = swallowed \cup {l.id}
        BY <2>1, <3>3, <4>0
      <4> QED
        BY <4>1, <2>1, <1>6
    <3> QED
      BY <3>1, <3>2, <3>3
  <2> QED
    BY <1>8, <2>1 DEF S!SendNow
<1> QED
  BY <1>7, <1>8

(* A step that changes the place of the line l at most.                    *)
Accounted == S!WireIds \cup S!ShownIds \cup told \cup panicked \cup swallowed
LEMMA StillAccounted ==
  ASSUME ShrinkInv, NEW l,
         \A i \in DOMAIN typed : i \in DOMAIN typed' /\ typed'[i] = typed[i],
         \A i \in DOMAIN typed' : i \in DOMAIN typed \/ (i = l.id /\ typed'[i] = l),
         S!Waiting \ {l} \subseteq S!Waiting', Accounted \subseteq Accounted',
         l.dir = "out" => l \in S!Waiting' \/ l.id \in Accounted'
  PROVE  S!TypedLinesAreAccountedFor'
<1> SUFFICES ASSUME NEW i \in DOMAIN typed', typed'[i].dir = "out"
             PROVE  typed'[i] \in S!Waiting' \/ i \in Accounted'
  BY DEF S!TypedLinesAreAccountedFor, Accounted
<1>1. CASE i \in DOMAIN typed
  <2>1. typed'[i] = typed[i] /\ typed[i].id = i
    BY <1>1 DEF ShrinkInv, Numbered
  <2>2. typed[i] \in S!Waiting \/ i \in Accounted
    BY <1>1, <2>1 DEF ShrinkInv, S!TypedLinesAreAccountedFor, Accounted
  <2> QED
    BY <2>1, <2>2
<1>2. CASE i \notin DOMAIN typed
  BY <1>2
<1> QED
  BY <1>1, <1>2

(* A line that comes is later than what waits.                             *)
LEMMA Enqueued ==
  ASSUME ShrinkInv, NEW dir \in S!Dirs, NEW place \in S!Bufs, NEW hasUrl,
         S!Arrives(S!Line(dir, place)), S!Waits(S!Line(dir, place), hasUrl),
         S!Enqueue(S!Line(dir, place))
  PROVE  /\ shrink_lane' \in [S!Dirs -> Seq(S!Lines)]
         /\ \A d \in S!Dirs : Len(shrink_lane'[d]) <= ShrinkQueueCap
         /\ InTheirLanes' /\ S!DelayedKeepOrder' /\ S!Waiting \subseteq S!Waiting'
         /\ dir = "out" => S!Line(dir, place) \in S!Waiting'
<1>0. PICK l : l = S!Line(dir, place)
  OBVIOUS
<1>1. /\ l \in S!Lines /\ l.dir = dir /\ l.id \in DOMAIN typed' /\ typed'[l.id] = l
      /\ \A i \in DOMAIN typed : i \in DOMAIN typed' /\ typed'[i] = typed[i] /\ i < l.id
  BY <1>0, TypedGrows
<1>2. /\ shrink_lane' = [shrink_lane EXCEPT ![l.dir] = Append(@, l)]
      /\ Len(shrink_lane[l.dir]) < ShrinkQueueCap
      /\ working' = working /\ delivered' = delivered
  BY <1>0 DEF S!Enqueue, S!Waits, S!Arrives
<1>3. \A x : Known(x) => Known(x)' /\ x.id < l.id
  BY <1>1 DEF Known
<1>4. /\ shrink_lane'[dir] = Append(shrink_lane[dir], l)
      /\ \A d \in S!Dirs \ {dir} : shrink_lane'[d] = shrink_lane[d]
      /\ shrink_lane \in [S!Dirs -> Seq(S!Lines)] /\ ShrinkQueueCap \in Nat
      /\ \A d \in S!Dirs : shrink_lane[d] \in Seq(S!Lines) /\ Len(shrink_lane[d]) \in Nat
  BY <1>1, <1>2, ShrinkFacts
<1>5. /\ S!Ordered(shrink_lane[dir]) /\ S!Before(S!Range(shrink_lane[dir]), {l})
      /\ S!Before(S!Range(working[dir]), {l}) /\ S!Before(S!Range(delivered), {l})
  BY <1>3 DEF ShrinkInv, S!DelayedKeepOrder, S!Before, InTheirLanes
<1>6. /\ shrink_lane'[dir] \in Seq(S!Lines) /\ Len(shrink_lane'[dir]) = Len(shrink_lane[dir]) + 1
      /\ S!Range(shrink_lane'[dir]) = S!Range(shrink_lane[dir]) \cup {l} /\ S!Ordered(shrink_lane'[dir])
  BY <1>1, <1>4, <1>5, LineAppended
<1>7. /\ shrink_lane' \in [S!Dirs -> Seq(S!Lines)]
      /\ \A d \in S!Dirs : Len(shrink_lane'[d]) <= ShrinkQueueCap
  <2>1. Append(shrink_lane[dir], l) \in Seq(S!Lines)
    BY <1>4, <1>6
  <2>2. shrink_lane' \in [S!Dirs -> Seq(S!Lines)]
    BY <2>1, <1>1, <1>2, <1>4
  <2> QED
    BY <2>2, <1>1, <1>2, <1>4, <1>6, ShrinkFacts
<1>8. InTheirLanes'
  <2>1. \A d \in S!Dirs : \A x \in S!Range(shrink_lane'[d]) \cup S!Range(working[d]) :
          Known(x)' /\ x.dir = d
    <3> TAKE d \in S!Dirs
    <3>1. \A x \in S!Range(shrink_lane[d]) \cup S!Range(working[d]) : Known(x)' /\ x.dir = d
      BY <1>3 DEF ShrinkInv, InTheirLanes
    <3>2. Known(l)' /\ l.dir = dir
      BY <1>1 DEF Known
    <3> QED
      BY <3>1, <3>2, <1>4, <1>6
  <2>2. \A x \in S!Range(delivered) : Known(x)'
    BY <1>3 DEF ShrinkInv, InTheirLanes
  <2> QED
    BY <2>1, <2>2, <1>2 DEF InTheirLanes
<1>9. S!DelayedKeepOrder'
  <2>1. \A d \in S!Dirs :
          /\ S!Ordered(shrink_lane'[d]) /\ S!Before(S!Range(working[d]), S!Range(shrink_lane'[d]))
                         /\ S!Before(S!Range(delivered), S!Range(working[d]) \cup S!Range(shrink_lane'[d]))
    <3> TAKE d \in S!Dirs
    <3>1. /\ S!Ordered(shrink_lane[d]) /\ S!Before(S!Range(working[d]), S!Range(shrink_lane[d]))
          /\ S!Before(S!Range(delivered), S!Range(working[d]) \cup S!Range(shrink_lane[d]))
      BY DEF ShrinkInv, S!DelayedKeepOrder
    <3>2. CASE d # dir
      BY <3>1, <3>2, <1>4
    <3>3. CASE d = dir
      BY <3>1, <3>3, <1>5, <1>6 DEF S!Before
    <3> QED
      BY <3>2, <3>3
  <2>2. S!Ordered(delivered)
    BY DEF ShrinkInv, S!DelayedKeepOrder
  <2> QED
    BY <2>1, <2>2, <1>2 DEF S!DelayedKeepOrder
<1>10. S!Waiting \subseteq S!Waiting' /\ (dir = "out" => l \in S!Waiting')
  <2>1. S!Range(shrink_lane["out"]) \subseteq S!Range(shrink_lane'["out"])
    BY <1>4, <1>6 DEF S!Dirs
  <2> QED
    BY <2>1, <1>2, <1>6 DEF S!Waiting
<1> QED
  BY <1>0, <1>7, <1>8, <1>9, <1>10

LEMMA NotEnqueued ==
  ASSUME ShrinkInv, \A i \in DOMAIN typed : i \in DOMAIN typed' /\ typed'[i] = typed[i],
         UNCHANGED <<shrink_lane, working, delivered>>
  PROVE  InTheirLanes' /\ S!DelayedKeepOrder' /\ S!Waiting' = S!Waiting
<1>1. \A x : Known(x) => Known(x)'
  BY DEF Known
<1>2. InTheirLanes'
  BY <1>1 DEF ShrinkInv, InTheirLanes
<1> QED
  BY <1>2 DEF ShrinkInv, S!DelayedKeepOrder, S!Waiting

(* What the user and the world do besides.                                 *)
Settings ==
  /\ openBufs \subseteq S!Bufs /\ activeBuf \in openBufs /\ peerKnown \subseteq ShrinkPeers
  /\ ownNick \in ShrinkNicks /\ link \in {"up", "broken", "none"} /\ echoMessage \in BOOLEAN
Queues ==
  /\ shrink_lane \in [S!Dirs -> Seq(S!Lines)] /\ working \in [S!Dirs -> Seq(S!Lines)]
  /\ \A d \in S!Dirs : Len(shrink_lane[d]) <= ShrinkQueueCap /\ Len(working[d]) <= 1
  /\ delivered \in Seq(S!Lines) /\ typed \in Seq(S!Lines)
LEMMA ShrinkParts ==
  ShrinkInv <=> /\ Settings /\ Queues /\ Numbered /\ InTheirLanes /\ SentOnes
                /\ shrink_wire \in Seq(WireRecords) /\ screen \in Seq(ScreenRecords)
                /\ S!SecretLinesStayEncrypted /\ S!TypedLinesAreAccountedFor /\ S!DelayedKeepOrder
BY DEF ShrinkInv, S!TypeOK, Settings, Queues, WireRecords, ScreenRecords

LEMMA PlainKeeps ==
  ASSUME ShrinkInv, NEW hasUrl \in BOOLEAN, S!HandlePlainMessage(hasUrl)
  PROVE  ShrinkInv'
<1>0. PICK l : l = S!Line("out", activeBuf)
  OBVIOUS
<1>1. S!Arrives(l) /\ UNCHANGED S!shrinkUser /\ "out" \in S!Dirs /\ activeBuf \in S!Bufs
  BY <1>0, ShrinkParts DEF S!HandlePlainMessage, Settings, S!Dirs
<1>2. /\ l \in S!Lines /\ l.dir = "out" /\ l.id \in DOMAIN typed' /\ typed'[l.id] = l
      /\ \A i \in DOMAIN typed : i \in DOMAIN typed' /\ typed'[i] = typed[i]
      /\ \A i \in DOMAIN typed' : i \in DOMAIN typed \/ (i = l.id /\ typed'[i] = l)
      /\ l.handle => activeBuf \in ShrinkPeers
      /\ typed' \in Seq(S!Lines) /\ Numbered'
  <2>1. S!Arrives(S!Line("out", activeBuf)) /\ "out" \in S!Dirs /\ activeBuf \in S!Bufs
    BY <1>0, <1>1
  <2>2. /\ l \in S!Lines /\ l.dir = "out" /\ l.id = Len(typed) + 1
        /\ typed' \in Seq(S!Lines) /\ DOMAIN typed' = DOMAIN typed \cup {l.id}
        /\ typed'[l.id] = l /\ \A i \in DOMAIN typed : typed'[i] = typed[i]
        /\ l.handle => activeBuf \in ShrinkPeers
        /\ Numbered'
    BY <1>0, <2>1, TypedGrows
  <2> QED
    BY <2>2
<1>3. Settings'
  BY <1>1, ShrinkParts DEF Settings, S!shrinkUser
<1>4. working' = working /\ delivered' = delivered /\ panicked' = panicked /\ l.buf = activeBuf
  BY <1>0, <1>1 DEF S!Arrives, S!Line
<1>5. CASE S!Waits(l, hasUrl)
  <2>1. /\ S!Enqueue(l) /\ shrink_wire' = shrink_wire /\ screen' = screen /\ told' = told
        /\ passed' = passed /\ swallowed' = swallowed
    BY <1>0, <1>5 DEF S!HandlePlainMessage, S!shrinkSent
  <2>2. /\ shrink_lane' \in [S!Dirs -> Seq(S!Lines)]
        /\ \A d \in S!Dirs : Len(shrink_lane'[d]) <= ShrinkQueueCap
        /\ InTheirLanes' /\ S!DelayedKeepOrder' /\ S!Waiting \subseteq S!Waiting' /\ l \in S!Waiting'
    BY <1>0, <1>1, <1>5, <2>1, Enqueued
  <2>3. /\ shrink_wire' \in Seq(WireRecords) /\ SentOnes' /\ S!SecretLinesStayEncrypted'
        /\ screen' \in Seq(ScreenRecords) /\ Accounted \subseteq Accounted'
    BY <1>2, <1>4, <2>1, NotSent, NotShown DEF Accounted
  <2>4. S!TypedLinesAreAccountedFor'
    BY <1>2, <2>2, <2>3, StillAccounted
  <2>5. Queues'
    BY <1>2, <1>4, <2>2, ShrinkParts DEF Queues
  <2> QED
    BY <1>2, <1>3, <2>2, <2>3, <2>4, <2>5
       DEF ShrinkInv, S!TypeOK, Settings, Queues, WireRecords, ScreenRecords
<1>6. CASE ~S!Waits(l, hasUrl)
  <2>1. S!SendNow(l) /\ shrink_lane' = shrink_lane
    BY <1>0, <1>6 DEF S!HandlePlainMessage
  <2>2. Recording(l.id)
    BY <1>2, <1>4, <2>1, SendingOut
  <2>3. InTheirLanes' /\ S!DelayedKeepOrder' /\ S!Waiting' = S!Waiting
    BY <1>2, <1>4, <2>1, NotEnqueued
  <2>4. S!TypedLinesAreAccountedFor'
    BY <1>2, <1>4, <2>2, <2>3, StillAccounted DEF Recording, Accounted
  <2>5. Queues'
    BY <1>2, <1>4, <2>1, ShrinkParts DEF Queues
  <2> QED
    BY <1>2, <1>3, <2>2, <2>3, <2>4, <2>5
       DEF Recording, ShrinkInv, S!TypeOK, Settings, Queues, WireRecords, ScreenRecords
<1> QED
  BY <1>5, <1>6

LEMMA PrivateKeeps ==
  ASSUME ShrinkInv, NEW place \in S!Bufs, NEW hasUrl \in BOOLEAN, S!HandlePrivmsg(place, hasUrl)
  PROVE  ShrinkInv'
<1>0. PICK l : l = S!Line("in", place)
  OBVIOUS
<1>1. S!Arrives(l) /\ "in" \in S!Dirs
  BY <1>0 DEF S!HandlePrivmsg, S!Dirs
<1>2. /\ l \in S!Lines /\ l.dir = "in" /\ l.id \in DOMAIN typed' /\ typed'[l.id] = l
      /\ \A i \in DOMAIN typed : i \in DOMAIN typed' /\ typed'[i] = typed[i]
      /\ \A i \in DOMAIN typed' : i \in DOMAIN typed \/ (i = l.id /\ typed'[i] = l)
      /\ typed' \in Seq(S!Lines) /\ Numbered'
  <2>1. S!Arrives(S!Line("in", place)) /\ "in" \in S!Dirs /\ place \in S!Bufs
    BY <1>0, <1>1
  <2>2. /\ l \in S!Lines /\ l.dir = "in" /\ l.id = Len(typed) + 1
        /\ typed' \in Seq(S!Lines) /\ DOMAIN typed' = DOMAIN typed \cup {l.id}
        /\ typed'[l.id] = l /\ \A i \in DOMAIN typed : typed'[i] = typed[i]
        /\ l.handle => place \in ShrinkPeers
        /\ Numbered'
    BY <1>0, <2>1, TypedGrows
  <2> QED
    BY <2>2
<1>3. Settings'
  BY ShrinkParts DEF Settings, S!HandlePrivmsg
<1>4. /\ working' = working /\ delivered' = delivered /\ panicked' = panicked
      /\ shrink_wire' = shrink_wire /\ told' = told /\ passed' = passed /\ swallowed' = swallowed
  BY <1>1 DEF S!Arrives, S!HandlePrivmsg
<1>5. /\ shrink_wire' \in Seq(WireRecords) /\ SentOnes' /\ S!SecretLinesStayEncrypted'
      /\ S!WireIds \subseteq S!WireIds'
  BY <1>2, <1>4, NotSent
<1>6. CASE S!Waits(l, hasUrl)
  <2>1. S!Enqueue(l) /\ screen' = screen
    BY <1>0, <1>6 DEF S!HandlePrivmsg
  <2>2. /\ shrink_lane' \in [S!Dirs -> Seq(S!Lines)]
        /\ \A d \in S!Dirs : Len(shrink_lane'[d]) <= ShrinkQueueCap
        /\ InTheirLanes' /\ S!DelayedKeepOrder' /\ S!Waiting \subseteq S!Waiting'
    BY <1>0, <1>1, <1>6, <2>1, Enqueued
  <2>3. screen' \in Seq(ScreenRecords) /\ Accounted \subseteq Accounted'
    BY <1>4, <1>5, <2>1, NotShown DEF Accounted
  <2>4. S!TypedLinesAreAccountedFor'
    BY <1>2, <2>2, <2>3, StillAccounted
  <2>5. Queues'
    BY <1>2, <1>4, <2>2, ShrinkParts DEF Queues
  <2> QED
    BY <1>2, <1>3, <1>5, <2>2, <2>3, <2>4, <2>5
       DEF ShrinkInv, S!TypeOK, Settings, Queues, WireRecords, ScreenRecords
<1>7. CASE ~S!Waits(l, hasUrl)
  <2>1. /\ screen' = Append(screen, S!Shown(l, ownNick)) /\ shrink_lane' = shrink_lane
        /\ ownNick \in ShrinkNicks
    BY <1>0, <1>7, ShrinkParts DEF S!HandlePrivmsg, Settings
  <2>2. screen' \in Seq(ScreenRecords) /\ Accounted \subseteq Accounted'
    BY <1>2, <1>4, <1>5, <2>1, OnTheScreen DEF Accounted
  <2>3. InTheirLanes' /\ S!DelayedKeepOrder' /\ S!Waiting' = S!Waiting
    BY <1>2, <1>4, <2>1, NotEnqueued
  <2>4. S!TypedLinesAreAccountedFor'
    BY <1>2, <2>2, <2>3, StillAccounted
  <2>5. Queues'
    BY <1>2, <1>4, <2>1, ShrinkParts DEF Queues
  <2> QED
    BY <1>2, <1>3, <1>5, <2>2, <2>3, <2>4, <2>5
       DEF ShrinkInv, S!TypeOK, Settings, Queues, WireRecords, ScreenRecords
<1> QED
  BY <1>6, <1>7

LEMMA OneDirection ==
  ASSUME NEW f \in [S!Dirs -> Seq(S!Lines)], NEW d \in S!Dirs, NEW x \in Seq(S!Lines)
  PROVE  /\ [f EXCEPT ![d] = x] \in [S!Dirs -> Seq(S!Lines)] /\ [f EXCEPT ![d] = x][d] = x
         /\ \A c \in S!Dirs \ {d} : [f EXCEPT ![d] = x][c] = f[c]
OBVIOUS

(* What each line in the hands of a worker is.                             *)
LEMMA InHand ==
  ASSUME ShrinkInv, NEW d \in S!Dirs, working[d] # <<>>
  PROVE  LET w == working[d][1]
         IN  /\ w \in S!Lines /\ working[d] = <<w>> /\ S!Range(working[d]) = {w}
             /\ \A q \in Seq(S!Lines) : q \o working[d] = Append(q, w)
             /\ Known(w) /\ w.dir = d
<1>1. working[d] \in Seq(S!Lines) /\ Len(working[d]) <= 1
  BY ShrinkFacts
<1>2. \A x \in S!Range(working[d]) : Known(x) /\ x.dir = d
  BY DEF ShrinkInv, InTheirLanes
<1> QED
  BY <1>1, <1>2, SingleLine

Told == UNCHANGED <<openBufs, activeBuf, peerKnown, ownNick, link, echoMessage, typed>>
LEMMA SameTyped ==
  ASSUME ShrinkInv, Told
  PROVE  /\ Settings' /\ Numbered' /\ typed' \in Seq(S!Lines)
         /\ \A i \in DOMAIN typed : i \in DOMAIN typed' /\ typed'[i] = typed[i]
         /\ \A x : Known(x) => x.id \in DOMAIN typed' /\ x = typed'[x.id]
BY ShrinkParts DEF Told, Settings, Numbered, Known, Queues

(* The worker of a direction takes the first line of its lane.             *)
LEMMA TakesKeeps ==
  ASSUME ShrinkInv, NEW d \in S!Dirs, S!WorkerTakes(d)
  PROVE  ShrinkInv'
<1>1. /\ working[d] = <<>> /\ shrink_lane[d] # <<>> /\ delivered' = delivered
      /\ working' = [working EXCEPT ![d] = <<Head(shrink_lane[d])>>]
      /\ shrink_lane' = [shrink_lane EXCEPT ![d] = Tail(shrink_lane[d])]
      /\ Told /\ shrink_wire' = shrink_wire /\ screen' = screen /\ told' = told /\ panicked' = panicked
      /\ passed' = passed /\ swallowed' = swallowed
  BY DEF S!WorkerTakes, S!Take, S!shrinkUser, S!shrinkOutcome, S!shrinkSent, Told
<1>2. PICK h : h = Head(shrink_lane[d])
  OBVIOUS
<1>3. PICK r : r = Tail(shrink_lane[d])
  OBVIOUS
<1>4. /\ h \in S!Lines /\ r \in Seq(S!Lines) /\ Len(r) <= ShrinkQueueCap
      /\ S!Range(shrink_lane[d]) = {h} \cup S!Range(r)
      /\ S!Ordered(shrink_lane[d]) => S!Ordered(r) /\ S!Before({h}, S!Range(r))
  <2>1. /\ shrink_lane[d] \in Seq(S!Lines) /\ Len(shrink_lane[d]) <= ShrinkQueueCap
        /\ ShrinkQueueCap \in Nat
    BY ShrinkFacts
  <2>2. PICK q : q = shrink_lane[d]
    OBVIOUS
  <2>3. q \in Seq(S!Lines) /\ q # <<>> /\ h = Head(q) /\ r = Tail(q) /\ Len(q) <= ShrinkQueueCap
    BY <2>1, <2>2, <1>1, <1>2, <1>3
  <2>4. /\ h \in S!Lines /\ r \in Seq(S!Lines) /\ Len(r) = Len(q) - 1 /\ Len(q) \in Nat \ {0}
        /\ S!Range(q) = {h} \cup S!Range(r)
        /\ S!Ordered(q) => S!Ordered(r) /\ S!Before({h}, S!Range(r))
    BY <2>3, LineTaken
  <2> QED
    BY <2>1, <2>2, <2>3, <2>4
<1>5. <<h>> \in Seq(S!Lines) /\ Len(<<h>>) = 1 /\ S!Range(<<h>>) = {h} /\ S!Range(working[d]) = {}
  <2>1. <<h>> \in Seq(S!Lines) /\ Len(<<h>>) = 1 /\ DOMAIN <<h>> = {1} /\ <<h>>[1] = h
    BY <1>4
  <2> QED
    BY <2>1, <1>1, NoLine DEF S!Range
<1>6. /\ working' \in [S!Dirs -> Seq(S!Lines)] /\ shrink_lane' \in [S!Dirs -> Seq(S!Lines)]
      /\ working'[d] = <<h>> /\ shrink_lane'[d] = r
      /\ \A c \in S!Dirs \ {d} : working'[c] = working[c] /\ shrink_lane'[c] = shrink_lane[c]
  BY <1>1, <1>2, <1>3, <1>4, <1>5, ShrinkFacts, OneDirection
<1>7. \A c \in S!Dirs : /\ S!Range(shrink_lane'[c]) \cup S!Range(working'[c])
                                = S!Range(shrink_lane[c]) \cup S!Range(working[c])
                       /\ Len(shrink_lane'[c]) <= ShrinkQueueCap /\ Len(working'[c]) <= 1
  <2> TAKE c \in S!Dirs
  <2>1. CASE c = d
    <3>1. shrink_lane'[c] = r /\ working'[c] = <<h>>
      BY <2>1, <1>6
    <3>2. Len(shrink_lane'[c]) <= ShrinkQueueCap /\ Len(working'[c]) <= 1
      BY <3>1, <1>4, <1>5
    <3>3. S!Range(shrink_lane'[c]) = S!Range(r) /\ S!Range(working'[c]) = {h}
      BY <3>1, <1>5
    <3> QED
      BY <2>1, <3>2, <3>3, <1>4, <1>5
  <2>2. CASE c # d
    BY <2>2, <1>6, ShrinkFacts
  <2> QED
    BY <2>1, <2>2
<1>8. InTheirLanes'
  BY <1>1, <1>7, SameTyped DEF ShrinkInv, InTheirLanes, Known
<1>9. S!DelayedKeepOrder'
  <2>1. \A c \in S!Dirs :
          S!Ordered(shrink_lane'[c]) /\ S!Before(S!Range(working'[c]), S!Range(shrink_lane'[c]))
    BY <1>4, <1>5, <1>6 DEF ShrinkInv, S!DelayedKeepOrder
  <2>2. \A c \in S!Dirs :
          S!Before(S!Range(delivered), S!Range(working'[c]) \cup S!Range(shrink_lane'[c]))
    BY <1>7 DEF ShrinkInv, S!DelayedKeepOrder, S!Before
  <2> QED
    BY <2>1, <2>2, <1>1 DEF ShrinkInv, S!DelayedKeepOrder
<1>10. S!TypedLinesAreAccountedFor'
  <2>1. S!Waiting' = S!Waiting
    BY <1>1, <1>7 DEF S!Waiting, S!Dirs
  <2> QED
    BY <2>1, <1>1 DEF ShrinkInv, S!TypedLinesAreAccountedFor, Told, S!WireIds, S!ShownIds
<1>11. /\ shrink_wire' \in Seq(WireRecords) /\ SentOnes' /\ S!SecretLinesStayEncrypted'
       /\ screen' \in Seq(ScreenRecords)
  BY <1>1, SameTyped, NotSent, NotShown
<1>12. Queues'
  BY <1>1, <1>6, <1>7, SameTyped, ShrinkParts DEF Queues
<1> QED
  BY <1>1, <1>8, <1>9, <1>10, <1>11, <1>12, SameTyped
     DEF ShrinkInv, S!TypeOK, Settings, Queues, WireRecords, ScreenRecords

(* A worker answers: the line goes back after what was answered before.    *)
LEMMA AnswersKeep ==
  ASSUME ShrinkInv, NEW d \in S!Dirs, S!WorkerAnswers(d)
  PROVE  ShrinkInv'
<1>1. /\ working[d] # <<>> /\ delivered' = delivered \o working[d]
      /\ working' = [working EXCEPT ![d] = <<>>] /\ shrink_lane' = shrink_lane
      /\ Told /\ shrink_wire' = shrink_wire /\ screen' = screen /\ told' = told /\ panicked' = panicked
      /\ passed' = passed /\ swallowed' = swallowed
  BY DEF S!WorkerAnswers, S!shrinkUser, S!shrinkOutcome, S!shrinkSent, Told
<1>2. PICK w : w = working[d][1]
  OBVIOUS
<1>3. /\ w \in S!Lines /\ S!Range(working[d]) = {w} /\ delivered' = Append(delivered, w)
      /\ Known(w) /\ w.dir = d
  BY <1>1, <1>2, InHand, ShrinkFacts
<1>4. /\ working' \in [S!Dirs -> Seq(S!Lines)] /\ working'[d] = <<>> /\ S!Range(working'[d]) = {}
      /\ Len(working'[d]) = 0 /\ \A c \in S!Dirs \ {d} : working'[c] = working[c]
  BY <1>1, NoLine, ShrinkFacts, OneDirection
<1>5. /\ S!Ordered(delivered) /\ S!Before(S!Range(delivered), {w})
      /\ S!Before({w}, S!Range(shrink_lane[d]))
      /\ \A c \in S!Dirs :
           S!Before(S!Range(delivered), S!Range(working[c]) \cup S!Range(shrink_lane[c]))
  BY <1>3 DEF ShrinkInv, S!DelayedKeepOrder, S!Before
<1>6. /\ delivered' \in Seq(S!Lines) /\ S!Range(delivered') = S!Range(delivered) \cup {w}
      /\ S!Ordered(delivered')
  BY <1>3, <1>5, ShrinkFacts, LineAppended
<1>7. InTheirLanes'
  <2>1. \A c \in S!Dirs : \A x \in S!Range(shrink_lane[c]) \cup S!Range(working'[c]) :
          Known(x) /\ x.dir = c
    BY <1>4 DEF ShrinkInv, InTheirLanes
  <2>2. \A x \in S!Range(delivered') : Known(x)
    BY <1>3, <1>6 DEF ShrinkInv, InTheirLanes
  <2> QED
    BY <2>1, <2>2, <1>1, SameTyped DEF InTheirLanes, Known
<1>8. S!DelayedKeepOrder'
  <2>1. \A c \in S!Dirs :
          S!Ordered(shrink_lane[c]) /\ S!Before(S!Range(working'[c]), S!Range(shrink_lane[c]))
    BY <1>4 DEF ShrinkInv, S!DelayedKeepOrder, S!Before
  <2>2. \A c \in S!Dirs : S!Before({w}, S!Range(working'[c]) \cup S!Range(shrink_lane[c]))
    <3> TAKE c \in S!Dirs
    <3>1. CASE c = d
      BY <3>1, <1>4, <1>5
    <3>2. CASE c # d
      BY <3>2, <1>3, <1>4 DEF ShrinkInv, InTheirLanes, S!Before
    <3> QED
      BY <3>1, <3>2
  <2>3. \A c \in S!Dirs :
          S!Before(S!Range(delivered'), S!Range(working'[c]) \cup S!Range(shrink_lane[c]))
    <3> TAKE c \in S!Dirs
    <3>1. S!Before(S!Range(delivered), S!Range(working'[c]) \cup S!Range(shrink_lane[c]))
      BY <1>4, <1>5 DEF S!Before
    <3> QED
      BY <3>1, <2>2, <1>6 DEF S!Before
  <2> QED
    BY <2>1, <2>3, <1>1, <1>6 DEF S!DelayedKeepOrder
<1>9. S!TypedLinesAreAccountedFor'
  <2>1. S!Waiting \subseteq S!Waiting'
    BY <1>1, <1>3, <1>4, <1>6 DEF S!Waiting, S!Dirs
  <2> QED
    BY <2>1, <1>1 DEF ShrinkInv, S!TypedLinesAreAccountedFor, Told, S!WireIds, S!ShownIds
<1>10. /\ shrink_wire' \in Seq(WireRecords) /\ SentOnes' /\ S!SecretLinesStayEncrypted'
       /\ screen' \in Seq(ScreenRecords)
  BY <1>1, SameTyped, NotSent, NotShown
<1>11. Queues'
  BY <1>1, <1>4, <1>6, SameTyped, ShrinkParts DEF Queues
<1> QED
  BY <1>1, <1>7, <1>8, <1>9, <1>10, <1>11, SameTyped
     DEF ShrinkInv, S!TypeOK, Settings, Queues, WireRecords, ScreenRecords

(* A panic costs the line, and it is the only one.                         *)
LEMMA PanicsKeep ==
  ASSUME ShrinkInv, NEW d \in S!Dirs, S!WorkerPanics(d)
  PROVE  ShrinkInv'
<1>1. /\ working[d] # <<>> /\ delivered' = delivered /\ panicked' = panicked \cup {working[d][1].id}
      /\ working' = [working EXCEPT ![d] = <<>>] /\ shrink_lane' = shrink_lane
      /\ Told /\ shrink_wire' = shrink_wire /\ screen' = screen /\ told' = told
      /\ passed' = passed /\ swallowed' = swallowed
  BY DEF S!WorkerPanics, S!shrinkUser, S!shrinkSent, Told
<1>2. PICK w : w = working[d][1]
  OBVIOUS
<1>3. S!Range(working[d]) = {w} /\ panicked' = panicked \cup {w.id} /\ Known(w)
  BY <1>1, <1>2, InHand
<1>4. /\ working' \in [S!Dirs -> Seq(S!Lines)] /\ working'[d] = <<>> /\ S!Range(working'[d]) = {}
      /\ Len(working'[d]) = 0 /\ \A c \in S!Dirs \ {d} : working'[c] = working[c]
  BY <1>1, NoLine, ShrinkFacts, OneDirection
<1>5. \A c \in S!Dirs : S!Range(working'[c]) \subseteq S!Range(working[c])
  BY <1>4
<1>6. InTheirLanes'
  BY <1>1, <1>5, SameTyped DEF ShrinkInv, InTheirLanes, Known
<1>7. S!DelayedKeepOrder'
  BY <1>1, <1>5 DEF ShrinkInv, S!DelayedKeepOrder, S!Before
<1>8. /\ shrink_wire' \in Seq(WireRecords) /\ SentOnes' /\ S!SecretLinesStayEncrypted'
      /\ screen' \in Seq(ScreenRecords)
  BY <1>1, SameTyped, NotSent, NotShown
<1>9. S!TypedLinesAreAccountedFor'
  <2>1. S!Waiting \ {w} \subseteq S!Waiting'
    BY <1>1, <1>3, <1>4 DEF S!Waiting, S!Dirs
  <2>2. Accounted \subseteq Accounted' /\ w.id \in Accounted'
    BY <1>1, <1>3 DEF Accounted, S!WireIds, S!ShownIds
  <2>3. \A i \in DOMAIN typed' : i \in DOMAIN typed
    BY <1>1 DEF Told
  <2> QED
    BY <2>1, <2>2, <2>3, <1>1, SameTyped, StillAccounted
<1>10. Queues'
  BY <1>1, <1>4, SameTyped, ShrinkParts DEF Queues
<1> QED
  BY <1>1, <1>6, <1>7, <1>8, <1>9, <1>10, SameTyped
     DEF ShrinkInv, S!TypeOK, Settings, Queues, WireRecords, ScreenRecords

(* The main loop takes an answer: it sends the line, or shows it.          *)
LEMMA DeliverKeeps ==
  ASSUME ShrinkInv, S!ApplyShrinkDeliver
  PROVE  ShrinkInv'
<1>1. /\ delivered # <<>> /\ delivered' = Tail(delivered)
      /\ working' = working /\ shrink_lane' = shrink_lane /\ Told /\ panicked' = panicked
  BY DEF S!ApplyShrinkDeliver, S!shrinkUser, Told
<1>2. PICK q : q = delivered
  OBVIOUS
<1>3. PICK l : l = Head(q)
  OBVIOUS
<1>4. IF l.dir = "out" THEN S!SendOutgoingSubstituted(l) ELSE S!AddMessageUnshrunk(l)
  BY <1>2, <1>3 DEF S!ApplyShrinkDeliver
<1>5. /\ l \in S!Lines /\ Tail(q) \in Seq(S!Lines) /\ S!Range(q) = {l} \cup S!Range(Tail(q))
      /\ S!Ordered(q) => S!Ordered(Tail(q))
  <2>1. q \in Seq(S!Lines) /\ q # <<>>
    BY <1>1, <1>2, ShrinkFacts
  <2> QED
    BY <2>1, <1>3, LineTaken
<1>6. /\ l.id \in DOMAIN typed' /\ typed'[l.id] = l /\ (l.handle => l.buf \in ShrinkPeers)
      /\ \A i \in DOMAIN typed : i \in DOMAIN typed' /\ typed'[i] = typed[i]
  <2>1. Known(l)
    BY <1>2, <1>5 DEF ShrinkInv, InTheirLanes
  <2> QED
    BY <2>1, <1>1, SameTyped DEF ShrinkInv, Numbered, Known
<1>7. /\ shrink_wire' \in Seq(WireRecords) /\ SentOnes' /\ S!SecretLinesStayEncrypted'
      /\ screen' \in Seq(ScreenRecords) /\ Accounted \subseteq Accounted'
      /\ l.dir = "out" => l.id \in Accounted'
  <2>1. CASE l.dir = "out"
    <3>1. Recording(l.id)
      BY <2>1, <1>4, <1>5, <1>6, SendingOut
    <3> QED
      BY <3>1, <1>1 DEF Recording, Accounted
  <2>2. CASE l.dir # "out"
    <3>1. /\ screen' = Append(screen, S!Shown(l, l.nick)) \/ screen' = screen
          /\ shrink_wire' = shrink_wire /\ told' = told /\ l.nick \in ShrinkNicks
          /\ passed' = passed /\ swallowed' = swallowed
      BY <2>2, <1>4, <1>5 DEF S!AddMessageUnshrunk, S!Lines
    <3>2. screen' \in Seq(ScreenRecords) /\ S!ShownIds \subseteq S!ShownIds'
      BY <3>1, <1>5, OnTheScreen, NotShown
    <3> QED
      BY <2>2, <3>1, <3>2, <1>1, <1>6, NotSent DEF Accounted
  <2> QED
    BY <2>1, <2>2
<1>8. InTheirLanes'
  BY <1>1, <1>2, <1>5, SameTyped DEF ShrinkInv, InTheirLanes, Known
<1>9. S!DelayedKeepOrder'
  BY <1>1, <1>2, <1>5 DEF ShrinkInv, S!DelayedKeepOrder, S!Before
<1>10. S!TypedLinesAreAccountedFor'
  <2>1. S!Waiting \ {l} \subseteq S!Waiting'
    BY <1>1, <1>2, <1>5 DEF S!Waiting
  <2>2. \A i \in DOMAIN typed' : i \in DOMAIN typed
    BY <1>1 DEF Told
  <2> QED
    BY <2>1, <2>2, <1>6, <1>7, StillAccounted
<1>11. Queues'
  BY <1>1, <1>2, <1>5, SameTyped, ShrinkParts DEF Queues
<1> QED
  BY <1>1, <1>7, <1>8, <1>9, <1>10, <1>11, SameTyped
     DEF ShrinkInv, S!TypeOK, Settings, Queues, WireRecords, ScreenRecords

(* What happens meanwhile moves no line.                                   *)
LEMMA MeanwhileKeeps ==
  ASSUME ShrinkInv, S!Meanwhile, Settings' PROVE ShrinkInv'
<1>1. /\ shrink_lane' = shrink_lane /\ working' = working /\ delivered' = delivered /\ typed' = typed
      /\ shrink_wire' = shrink_wire /\ screen' = screen /\ told' = told /\ panicked' = panicked
      /\ passed' = passed /\ swallowed' = swallowed
  BY DEF S!Meanwhile, S!shrinkQueues, S!shrinkOutcome, S!shrinkSent
<1>2. Queues' /\ Numbered' /\ InTheirLanes' /\ SentOnes'
  BY <1>1, ShrinkParts DEF Queues, Numbered, InTheirLanes, Known, SentOnes
<1>3. /\ shrink_wire' \in Seq(WireRecords) /\ screen' \in Seq(ScreenRecords)
      /\ S!SecretLinesStayEncrypted' /\ S!DelayedKeepOrder'
  BY <1>1, ShrinkParts DEF S!SecretLinesStayEncrypted, S!DelayedKeepOrder
<1>4. S!TypedLinesAreAccountedFor'
  <2>1. S!TypedLinesAreAccountedFor
    BY ShrinkParts
  <2>2. S!Waiting' = S!Waiting /\ S!WireIds' = S!WireIds /\ S!ShownIds' = S!ShownIds
    BY <1>1 DEF S!Waiting, S!WireIds, S!ShownIds
  <2> QED
    BY <2>1, <2>2, <1>1 DEF S!TypedLinesAreAccountedFor
<1> QED
  BY <1>2, <1>3, <1>4 DEF ShrinkInv, S!TypeOK, Settings, Queues, WireRecords, ScreenRecords

LEMMA SettingsMove ==
  ASSUME ShrinkInv,
         \/ \E b \in S!Bufs : S!CloseBuffer(b) \/ S!OpenBuffer(b)
         \/ S!ChangeNick \/ S!ConnectionChanges
  PROVE  S!Meanwhile /\ Settings'
<1>1. Settings
  BY ShrinkParts
<1>2. ASSUME NEW b \in S!Bufs, S!CloseBuffer(b) PROVE S!Meanwhile /\ Settings'
  <2>1. /\ S!Meanwhile /\ openBufs \ {b} # {} /\ openBufs' = openBufs \ {b}
        /\ peerKnown' = peerKnown \ {b}
        /\ activeBuf' = IF activeBuf = b THEN CHOOSE c \in openBufs \ {b} : TRUE ELSE activeBuf
        /\ ownNick' = ownNick /\ link' = link /\ echoMessage' = echoMessage
    BY <1>2 DEF S!CloseBuffer
  <2>2. (CHOOSE c \in openBufs \ {b} : TRUE) \in openBufs \ {b}
    BY <2>1
  <2>3. activeBuf' \in openBufs \ {b}
    <3>1. CASE activeBuf = b
      BY <3>1, <2>1, <2>2
    <3>2. CASE activeBuf # b
      BY <3>2, <2>1, <1>1 DEF Settings
    <3> QED
      BY <3>1, <3>2
  <2>6. openBufs' \subseteq S!Bufs /\ peerKnown' \subseteq ShrinkPeers /\ activeBuf' \in openBufs'
    BY <2>1, <2>3, <1>1 DEF Settings
  <2> QED
    BY <2>1, <2>6, <1>1 DEF Settings
<1>3. ASSUME NEW b \in S!Bufs, S!OpenBuffer(b) PROVE S!Meanwhile /\ Settings'
  BY <1>3, <1>1 DEF S!OpenBuffer, Settings, S!Meanwhile
<1>4. ASSUME S!ChangeNick \/ S!ConnectionChanges PROVE S!Meanwhile /\ Settings'
  BY <1>4, <1>1 DEF S!ChangeNick, S!ConnectionChanges, Settings, S!Meanwhile
<1> QED
  BY <1>2, <1>3, <1>4

LEMMA ShrinkKeeps ==
  ASSUME ShrinkInv, S!Next \/ UNCHANGED shrinkVars PROVE ShrinkInv'
<1>1. ASSUME NEW u \in BOOLEAN, S!HandlePlainMessage(u) PROVE ShrinkInv'
  BY <1>1, PlainKeeps
<1>2. ASSUME NEW u \in BOOLEAN, NEW b \in S!Bufs, S!HandlePrivmsg(b, u) PROVE ShrinkInv'
  BY <1>2, PrivateKeeps
<1>3. ASSUME NEW d \in S!Dirs, S!WorkerTakes(d) \/ S!WorkerAnswers(d) \/ S!WorkerPanics(d)
      PROVE ShrinkInv'
  BY <1>3, TakesKeeps, AnswersKeep, PanicsKeep
<1>4. ASSUME S!ApplyShrinkDeliver PROVE ShrinkInv'
  BY <1>4, DeliverKeeps
<1>5. ASSUME \/ \E b \in S!Bufs : S!CloseBuffer(b) \/ S!OpenBuffer(b)
             \/ S!ChangeNick \/ S!ConnectionChanges
      PROVE ShrinkInv'
  BY <1>5, SettingsMove, MeanwhileKeeps
<1>6. ASSUME UNCHANGED shrinkVars PROVE ShrinkInv'
  BY <1>6 DEF shrinkVars, ShrinkInv, S!TypeOK, Numbered, InTheirLanes, Known, SentOnes,
       S!SecretLinesStayEncrypted, S!TypedLinesAreAccountedFor, S!Waiting, S!WireIds, S!ShownIds,
       S!DelayedKeepOrder
<1> QED
  BY <1>1, <1>2, <1>3, <1>4, <1>5, <1>6 DEF S!Next

LEMMA ShrinkBegins == ASSUME S!Init PROVE ShrinkInv
<1>1. DOMAIN <<>> = {} /\ \A T : <<>> \in Seq(T)
  OBVIOUS
<1>2. /\ shrink_lane = [d \in S!Dirs |-> <<>>] /\ working = shrink_lane /\ delivered = <<>>
      /\ typed = <<>>
      /\ shrink_wire = <<>> /\ screen = <<>>
  BY DEF S!Init
<1>3. Settings
  BY ShrinkAssumption DEF S!Init, Settings, S!ShrinkAssumption
<1>4. Queues
  BY <1>1, <1>2, NoLine, ShrinkAssumption DEF Queues, S!ShrinkAssumption
<1>5. Numbered /\ SentOnes /\ S!SecretLinesStayEncrypted /\ S!TypedLinesAreAccountedFor
  BY <1>1, <1>2 DEF Numbered, SentOnes, S!SecretLinesStayEncrypted, S!TypedLinesAreAccountedFor
<1>6. InTheirLanes /\ S!DelayedKeepOrder
  BY <1>1, <1>2, NoLine DEF InTheirLanes, S!DelayedKeepOrder, S!Ordered, S!Before
<1> QED
  BY <1>1, <1>2, <1>3, <1>4, <1>5, <1>6, ShrinkParts

(* What is shown is shown in a buffer that is open.                        *)
LEMMA ShownLast ==
  ASSUME ShrinkInv, NEW l \in S!Lines, NEW nick \in ShrinkNicks, l.buf \in openBufs',
         screen' = Append(screen, S!Shown(l, nick)) \/ screen' = screen
  PROVE  S!ClosedBuffersStaySilentStep
<1>1. /\ screen \in Seq(ScreenRecords) /\ Len(screen) \in Nat
      /\ S!Shown(l, nick) \in ScreenRecords /\ S!Shown(l, nick).buf = l.buf
  BY DEF S!Shown, ScreenRecords, S!Lines, ShrinkInv, S!TypeOK
<1>2. CASE screen' = Append(screen, S!Shown(l, nick))
  <2>1. S!Last(screen') = S!Shown(l, nick)
    BY <1>1, <1>2 DEF S!Last
  <2> QED
    BY <2>1, <1>1 DEF S!ClosedBuffersStaySilentStep
<1>3. CASE screen' = screen
  BY <1>1, <1>3 DEF S!ClosedBuffersStaySilentStep
<1> QED
  BY <1>2, <1>3

LEMMA ScreenSame ==
  ASSUME ShrinkInv, screen' = screen PROVE S!ClosedBuffersStaySilentStep
<1>1. Len(screen) \in Nat
  BY DEF ShrinkInv, S!TypeOK
<1> QED
  BY <1>1 DEF S!ClosedBuffersStaySilentStep

LEMMA ShrinkSilent ==
  ASSUME ShrinkInv, S!Next \/ UNCHANGED shrinkVars PROVE S!ClosedBuffersStaySilentStep
<1>1. ASSUME NEW u \in BOOLEAN, S!HandlePlainMessage(u) PROVE S!ClosedBuffersStaySilentStep
  <2>1. PICK l : l = S!Line("out", activeBuf)
    OBVIOUS
  <2>2. S!Arrives(S!Line("out", activeBuf)) /\ "out" \in S!Dirs /\ activeBuf \in S!Bufs
    BY <1>1, ShrinkParts DEF S!HandlePlainMessage, Settings, S!Dirs
  <2>3. l \in S!Lines /\ l.nick \in ShrinkNicks /\ l.buf = activeBuf
    <3>1. S!Line("out", activeBuf) \in S!Lines
      BY <2>2, TypedGrows
    <3> QED
      BY <3>1, <2>1 DEF S!Lines, S!Line
  <2>4. l.buf \in openBufs' /\ (screen' = Append(screen, S!Shown(l, l.nick)) \/ screen' = screen)
    BY <1>1, <2>1, <2>3, ShrinkParts DEF S!HandlePlainMessage, S!shrinkUser, S!shrinkSent, S!SendNow,
       S!DeliverOutgoingError, Settings
  <2> QED
    BY <2>3, <2>4, ShownLast
<1>2. ASSUME NEW u \in BOOLEAN, NEW b \in S!Bufs, S!HandlePrivmsg(b, u)
      PROVE S!ClosedBuffersStaySilentStep
  <2>1. PICK l : l = S!Line("in", b)
    OBVIOUS
  <2>2. S!Arrives(S!Line("in", b)) /\ "in" \in S!Dirs
    BY <1>2 DEF S!HandlePrivmsg, S!Dirs
  <2>3. l \in S!Lines /\ l.buf = b
    <3>1. S!Line("in", b) \in S!Lines
      BY <2>2, TypedGrows
    <3> QED
      BY <3>1, <2>1 DEF S!Line
  <2>4. /\ l.buf \in openBufs' /\ ownNick \in ShrinkNicks
        /\ screen' = Append(screen, S!Shown(l, ownNick)) \/ screen' = screen
    BY <1>2, <2>1, <2>3, ShrinkParts DEF S!HandlePrivmsg, Settings
  <2> QED
    BY <2>3, <2>4, ShownLast
<1>3. ASSUME NEW d \in S!Dirs, S!WorkerTakes(d) \/ S!WorkerAnswers(d) \/ S!WorkerPanics(d)
      PROVE S!ClosedBuffersStaySilentStep
  BY <1>3, ScreenSame DEF S!WorkerTakes, S!WorkerAnswers, S!WorkerPanics, S!shrinkOutcome, S!shrinkSent
<1>4. ASSUME S!ApplyShrinkDeliver PROVE S!ClosedBuffersStaySilentStep
  <2>1. PICK q : q = delivered
    OBVIOUS
  <2>2. PICK l : l = Head(q)
    OBVIOUS
  <2>3. q \in Seq(S!Lines) /\ q # <<>>
    BY <1>4, <2>1, ShrinkFacts DEF S!ApplyShrinkDeliver
  <2>4. l \in S!Lines /\ l.nick \in ShrinkNicks
    BY <2>2, <2>3, LineTaken DEF S!Lines
  <2>5. /\ openBufs' = openBufs
        /\ IF l.dir = "out" THEN S!SendOutgoingSubstituted(l) ELSE S!AddMessageUnshrunk(l)
    BY <1>4, <2>1, <2>2 DEF S!ApplyShrinkDeliver, S!shrinkUser
  <2>6. \/ screen' = screen
        \/ l.buf \in openBufs' /\ screen' = Append(screen, S!Shown(l, l.nick))
    BY <2>5 DEF S!SendOutgoingSubstituted, S!DeliverOutgoingError, S!AddMessageUnshrunk
  <2> QED
    BY <2>4, <2>6, ShownLast, ScreenSame
<1>5. ASSUME \/ \E b \in S!Bufs : S!CloseBuffer(b) \/ S!OpenBuffer(b)
             \/ S!ChangeNick \/ S!ConnectionChanges
      PROVE S!ClosedBuffersStaySilentStep
  BY <1>5, SettingsMove, ScreenSame DEF S!Meanwhile, S!shrinkOutcome, S!shrinkSent
<1>6. ASSUME UNCHANGED shrinkVars PROVE S!ClosedBuffersStaySilentStep
  BY <1>6, ScreenSame DEF shrinkVars
<1> QED
  BY <1>1, <1>2, <1>3, <1>4, <1>5, <1>6 DEF S!Next

-----------------------------------------------------------------------------
(* One part runs, and it is always the same one.                           *)
LEMMA BuffersRun ==
  ASSUME [MCNext]_mcVars, part' = "buffers"
  PROVE  part = "buffers" /\ [B!Next]_(B!vars)
BY DEF MCNext, mcVars, NamesOnly, ModesOnly, DetailsOnly, BuffersOnly, ShrinkOnly, buffersVars, B!vars

LEMMA BuffersAlways == MCSpec => [](part = "buffers" => BufInv)
<1> DEFINE Inv == part = "buffers" => BufInv
<1>1. MCInit => Inv
  BY BufInit DEF MCInit
<1>2. Inv /\ [MCNext]_mcVars => Inv'
  <2> SUFFICES ASSUME part = "buffers" => BufInv, [MCNext]_mcVars, part' = "buffers" PROVE BufInv'
    OBVIOUS
  <2> QED
    BY BuffersRun, BufStays
<1> QED
  BY <1>1, <1>2, PTL DEF MCSpec

(* Whatever is received for a connection is shown somewhere, a connection  *)
(* has its server's buffer and a channel we are in its own                 *)
(* (BuffersAreFound), for any servers, channels and nicks: through         *)
(* renamings, failed joins, kicks, closed buffers and reconnections.       *)
THEOREM Found == MCSpec => []BuffersAreFound
<1>1. (part = "buffers" => BufInv) => BuffersAreFound
  BY BufGood DEF BuffersAreFound, NothingIsLost, ServerBufferExists, MembersHaveBuffers
<1> QED
  BY <1>1, BuffersAlways, PTL

LEMMA ShrinkRuns ==
  ASSUME [MCNext]_mcVars, part' = "shrink"
  PROVE  part = "shrink" /\ (S!Next \/ UNCHANGED shrinkVars)
BY DEF MCNext, mcVars, NamesOnly, ModesOnly, DetailsOnly, BuffersOnly, ShrinkOnly, shrinkVars

LEMMA ShrinkAlways == MCSpec => [](part = "shrink" => ShrinkInv)
<1> DEFINE Inv == part = "shrink" => ShrinkInv
<1>1. MCInit => Inv
  BY ShrinkBegins DEF MCInit
<1>2. Inv /\ [MCNext]_mcVars => Inv'
  <2> SUFFICES ASSUME part = "shrink" => ShrinkInv, [MCNext]_mcVars, part' = "shrink" PROVE ShrinkInv'
    OBVIOUS
  <2> QED
    BY ShrinkRuns, ShrinkKeeps
<1> QED
  BY <1>1, <1>2, PTL DEF MCSpec

(* A line typed while its peer's handle was known leaves encrypted, or the *)
(* encryption let it pass on its way out; a line that waits for the        *)
(* shortener is overtaken by no other that waits; and none is lost without *)
(* a word, but the one typed without a connection, where it was to be      *)
(* echoed by the server (DelayedLinesAreSafe): for any buffers, nicks,     *)
(* lengths of the lanes and numbers of lines, whatever is opened, closed,  *)
(* renamed or disconnected while the workers answer, fail or panic.        *)
THEOREM DelayedLines == MCSpec => []DelayedLinesAreSafe
<1>1. (part = "shrink" => ShrinkInv) => DelayedLinesAreSafe
  BY DEF ShrinkInv, DelayedLinesAreSafe, SecretLinesStayEncrypted, TypedLinesAreAccountedFor,
         DelayedKeepOrder
<1> QED
  BY <1>1, ShrinkAlways, PTL

(* No step but closing or leaving takes text from a channel's buffer: it   *)
(* is not emptied by a disconnection, by joining again or by what happens  *)
(* to other buffers; and none shows a line in a buffer that was closed     *)
(* while the line waited (BuffersKeepTheirLines).                          *)
THEOREM TextKept == MCSpec => BuffersKeepTheirLines
<1>1. (part = "buffers" => BufInv) /\ [MCNext]_mcVars
        => [part = "buffers" => B!ChannelsKeepTheirTextStep]_mcVars
  <2> SUFFICES ASSUME part = "buffers" => BufInv, MCNext, part = "buffers"
               PROVE  B!ChannelsKeepTheirTextStep
    OBVIOUS
  <2>1. B!Next
    BY DEF MCNext
  <2> QED
    BY <2>1, BufStep
<1>2. (part = "shrink" => ShrinkInv) /\ [MCNext]_mcVars
        => [part = "shrink" => S!ClosedBuffersStaySilentStep]_mcVars
  <2> SUFFICES ASSUME part = "shrink" => ShrinkInv, MCNext, part = "shrink"
               PROVE  S!ClosedBuffersStaySilentStep
    OBVIOUS
  <2>1. S!Next
    BY DEF MCNext
  <2> QED
    BY <2>1, ShrinkSilent
<1>3. MCSpec => ChannelsKeepTheirText
  BY <1>1, BuffersAlways, PTL DEF MCSpec, ChannelsKeepTheirText
<1>4. MCSpec => ClosedBuffersStaySilent
  BY <1>2, ShrinkAlways, PTL DEF MCSpec, ClosedBuffersStaySilent
<1> QED
  BY <1>3, <1>4 DEF BuffersKeepTheirLines

=============================================================================
