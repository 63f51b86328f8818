---------------------------- MODULE NickDetails ------------------------------
(***************************************************************************)
(* What the nick lists say of one user besides the nick: account, away,    *)
(* and host, kept once per shared channel (irc/events.rs).  The server     *)
(* tells it in pieces: NAMES, WHOX, extended JOIN, ACCOUNT, AWAY, CHGHOST  *)
(* and the account tag of a message, as far as the capabilities in `Caps'  *)
(* were negotiated.                                                        *)
(***************************************************************************)
EXTENDS Integers, Sequences

CONSTANTS Channels, Accounts, Hosts, Caps, HasWhox, MaxSteps

None == "none"
VARIABLES user,      \* the user: channels, account, away, host
          ours,      \* the channels we are in, as the server sees it
          wire,      \* the server's messages to us
          asked,     \* the channels of our WHO commands
          entry      \* channel -> the user's entry in its nick list, or NoEntry
VARIABLE steps
vars == <<user, ours, wire, asked, entry, steps>>

NoEntry == [listed |-> FALSE]
Entry(account, away, host) == [listed |-> TRUE, account |-> account, away |-> away, host |-> host]
Shared == {c \in ours : c \in user.channels}
Step == steps < MaxSteps /\ steps' = steps + 1
Tell(ms) == wire' = wire \o ms
TellIf(cap, m) == wire' = IF cap \in Caps /\ Shared # {} THEN Append(wire, m) ELSE wire

Init == /\ user \in [channels : {{}, Channels}, account : {None}, away : BOOLEAN, host : Hosts]
        /\ ours = {} /\ wire = <<>> /\ asked = <<>> /\ steps = 0
        /\ entry = [c \in Channels |-> NoEntry]

-----------------------------------------------------------------------------
(* The server and the user.                                                *)
LogsIn(a) == /\ Step /\ a # user.account /\ user' = [user EXCEPT !.account = a]
             /\ TellIf("account-notify", [what |-> "account", account |-> a])
             /\ UNCHANGED <<ours, asked, entry>>
GoesAway == /\ Step /\ user' = [user EXCEPT !.away = ~@]
            /\ TellIf("away-notify", [what |-> "away", away |-> ~user.away])
            /\ UNCHANGED <<ours, asked, entry>>
ChangesHost(h) == /\ Step /\ h # user.host /\ user' = [user EXCEPT !.host = h]
                  /\ TellIf("chghost", [what |-> "chghost", host |-> h])
                  /\ UNCHANGED <<ours, asked, entry>>
Joins(c) ==
  /\ Step /\ c \notin user.channels /\ user' = [user EXCEPT !.channels = @ \cup {c}]
  /\ IF c \in ours
     THEN Tell(<<[what |-> "join", channel |-> c,
                  account |-> IF Caps \cap {"extended-join", "account-tag"} # {} THEN user.account ELSE None]>>
               \o IF user.away /\ "away-notify" \in Caps THEN <<[what |-> "away", away |-> TRUE]>> ELSE <<>>)
     ELSE UNCHANGED wire
  /\ UNCHANGED <<ours, asked, entry>>
Parts(c) == /\ Step /\ c \in user.channels /\ user' = [user EXCEPT !.channels = @ \ {c}]
            /\ IF c \in ours THEN Tell(<<[what |-> "part", channel |-> c]>>) ELSE UNCHANGED wire
            /\ UNCHANGED <<ours, asked, entry>>
Speaks(c) == /\ Step /\ c \in Shared
             /\ Tell(<<[what |-> "privmsg", channel |-> c,
                        tag |-> IF "account-tag" \in Caps THEN user.account ELSE None]>>)
             /\ UNCHANGED <<user, ours, asked, entry>>
Names(c) == [what |-> "names", channel |-> c, listed |-> c \in user.channels,
             host |-> IF "userhost-in-names" \in Caps THEN user.host ELSE None]
WeJoin(c) == /\ Step /\ c \notin ours /\ ours' = ours \cup {c} /\ Tell(<<Names(c)>>)
             /\ UNCHANGED <<user, asked, entry>>
(* /names: what it answers goes the way of a join.                         *)
AskNames(c) == Step /\ c \in ours /\ Tell(<<Names(c)>>) /\ UNCHANGED <<user, ours, asked, entry>>
AnswerWho ==
  /\ asked # <<>> /\ asked' = Tail(asked)
  /\ LET c == Head(asked) IN
     IF c \in user.channels
     THEN Tell(<<[what |-> "whox", channel |-> c, account |-> user.account,
                  away |-> user.away, host |-> user.host]>>)
     ELSE UNCHANGED wire
  /\ UNCHANGED <<user, ours, entry, steps>>

-----------------------------------------------------------------------------
(* The handlers.  One that is about the user, not a channel, goes over the buffers. *)
Everywhere(field, x) == [c \in Channels |-> IF entry[c].listed THEN [entry[c] EXCEPT ![field] = x] ELSE entry[c]]
HandleAccount(a) == Everywhere("account", a)
HandleAway(w) == Everywhere("away", w)
HandleChghost(h) == Everywhere("host", h)
(* A JOIN knows the account, and starts with nothing else.                 *)
HandleJoin(m) == [entry EXCEPT ![m.channel] = Entry(m.account, FALSE, None)]
HandleNames(m) ==
  IF m.listed THEN [entry EXCEPT ![m.channel] = Entry(None, FALSE, m.host)] ELSE entry
HandleWhoxReply(m) ==
  IF entry[m.channel].listed
  THEN [entry EXCEPT ![m.channel] = Entry(m.account, m.away, m.host)] ELSE entry
(* A message without the tag says nothing of the account.                  *)
AccountTag(m) == IF m.tag # None /\ entry[m.channel].listed
                 THEN [entry EXCEPT ![m.channel].account = m.tag] ELSE entry

(* Mutant of AwayHandler: away in the first buffer only. *)
AwayInOneBuffer(w) ==
  LET c == CHOOSE x \in Channels : entry[x].listed \/ \A y \in Channels : ~entry[y].listed IN
  IF entry[c].listed THEN [entry EXCEPT ![c].away = w] ELSE entry
AwayHandler(w) == HandleAway(w)
WhoxHandler(m) == HandleWhoxReply(m)

Receive ==
  /\ wire # <<>> /\ wire' = Tail(wire)
  /\ LET m == Head(wire) IN
     /\ entry' = CASE m.what = "account" -> HandleAccount(m.account)
                   [] m.what = "away" -> AwayHandler(m.away)
                   [] m.what = "chghost" -> HandleChghost(m.host)
                   [] m.what = "join" -> HandleJoin(m)
                   [] m.what = "part" -> [entry EXCEPT ![m.channel] = NoEntry]
                   [] m.what = "names" -> HandleNames(m)
                   [] m.what = "whox" -> WhoxHandler(m)
                   [] m.what = "privmsg" -> AccountTag(m)
     (* the end of the names asks for the details *)
     /\ asked' = IF m.what = "names" /\ HasWhox THEN Append(asked, m.channel) ELSE asked
  /\ UNCHANGED <<user, ours, steps>>

Next == \/ \E a \in Accounts \cup {None} : LogsIn(a)
        \/ GoesAway \/ AnswerWho \/ Receive
        \/ \E h \in Hosts : ChangesHost(h)
        \/ \E c \in Channels : Joins(c) \/ Parts(c) \/ Speaks(c) \/ WeJoin(c) \/ AskNames(c)
Spec == Init /\ [][Next]_vars

-----------------------------------------------------------------------------
Quiet == wire = <<>> /\ asked = <<>>
BanMask(c) == IF entry[c].host # None THEN entry[c].host ELSE "nick"

TypeOK == /\ user.channels \subseteq Channels /\ ours \subseteq Channels
          /\ \A c \in Channels : entry[c].listed => entry[c].host \in Hosts \cup {None}
          /\ Quiet => \A c \in Channels : entry[c].listed <=> c \in Shared

(* With every capability negotiated, what the nick lists say of the user is true in every shared *)
(* channel once everything was delivered, whatever came in between the question and its answer.  *)
DetailsAreTrue ==
  Quiet => \A c \in Shared : /\ entry[c].account = user.account /\ entry[c].away = user.away
                             /\ entry[c].host \in {None, user.host}

(* Violated by the code: /kickban bans the host of a listed user (a JOIN's host is not kept).    *)
KickbanKnowsTheHost == Quiet => \A c \in Shared : BanMask(c) = user.host
=============================================================================
