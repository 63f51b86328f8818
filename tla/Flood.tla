------------------------------- MODULE Flood ---------------------------------
(***************************************************************************)
(* Incoming PRIVMSGs, CTCPs and nick changes through the ignore list and   *)
(* the flood protection (irc/flood.rs, irc/ignore.rs, handle_privmsg and   *)
(* handle_nick_change of irc/events.rs, /flood).                           *)
(*                                                                         *)
(* `Tilde' is the set of nicks whose ident starts with "~".  A window is   *)
(* the set of the messages in it, numbered as they came; of each the code  *)
(* keeps the time and what it tells apart by.  A /me (CTCP ACTION) passes  *)
(* by all of them: it is shown before the first check.  Ghost: `shown'     *)
(* holds what was displayed while the protection watched its sender.       *)
(***************************************************************************)
EXTENDS Integers, FiniteSets

CONSTANTS Nicks, Tilde, Ignored, Texts, Channels,
          THRESHOLD,                        \* of a "~" nick
          CTCP_THRESHOLD, STORM_THRESHOLD, DUP_MIN_IN_WINDOW, DUP_THRESHOLD, NICK_THRESHOLD,
          WINDOW, BLOCK, MaxClock, MaxMessages

Levels == {"ALL", "PUBLIC", "MSGS", "CTCPS", "NICKS", "ACTIONS"}
FloodAssumption ==
  /\ Nicks # {} /\ Tilde \subseteq Nicks /\ Ignored \subseteq Nicks \X Levels
  /\ {THRESHOLD, CTCP_THRESHOLD, STORM_THRESHOLD, DUP_MIN_IN_WINDOW, DUP_THRESHOLD,
      NICK_THRESHOLD, WINDOW, BLOCK, MaxClock} \subseteq Nat \ {0}
  /\ MaxMessages \in Nat /\ WINDOW < BLOCK

VARIABLES now, protection, exempt,          \* the time, the configuration
          times,                            \* key -> the messages in its window
          blocked,                          \* key -> the time its block ends
          storm,                            \* private messages of "~" nicks
          texts,                            \* channel messages
          queries, shown, messages          \* query buffers, ghost, bound
vars == <<now, protection, exempt, times, blocked, storm, texts, queries, shown, messages>>

(* The keys: one table each in the code.                                   *)
Nick(n) == <<"nick", n>>
Text(t) == <<"text", t>>
Renames(c) == <<"renames", c>>
Ctcp == <<"ctcp", "all">>
Storm == <<"storm", "all">>
Privately == <<"private", "all">>
Action == <<"action", "all">>
Keys == {Nick(n) : n \in Nicks} \cup {Text(t) : t \in Texts} \cup {Renames(c) : c \in Channels} \cup {Ctcp, Storm}
Entry == [no : Nat, nick : Nicks, what : Keys \cup {Privately, Action}, at : Nat]

Init == /\ now = 1 /\ protection = TRUE /\ exempt \in {{}, {CHOOSE n \in Nicks : TRUE}}
        /\ times = [k \in Keys |-> {}] /\ blocked = [k \in Keys |-> 0]
        /\ storm = {} /\ texts = {} /\ queries = {} /\ shown = {} /\ messages = 0

-----------------------------------------------------------------------------
(* One sliding window with a block that every further message prolongs.    *)
This(n, what) == [no |-> messages, nick |-> n, what |-> what, at |-> now]
Recent(ms) == {m \in ms : m.at >= now - WINDOW}
Blocked(k) == now < blocked[k]
Full(ms, threshold) == Cardinality(ms) >= threshold
Counted(k, m) == Recent(times[k] \cup {m})
Suppresses(k, m, threshold) == Blocked(k) \/ Full(Counted(k, m), threshold)
Check(k, m, threshold) ==
  /\ blocked' = IF Suppresses(k, m, threshold) THEN [blocked EXCEPT ![k] = now + BLOCK] ELSE blocked
  /\ times' = IF Blocked(k) THEN times
              ELSE [times EXCEPT ![k] = IF Suppresses(k, m, threshold) THEN {} ELSE Counted(k, m)]

(* Private messages of many "~" nicks.                                     *)
StormWindow(m) == Recent(storm \cup {m})
Senders(ms) == {m.nick : m \in ms}
StormSuppresses(m) == Blocked(Storm) \/ Cardinality(Senders(StormWindow(m))) >= STORM_THRESHOLD

(* The same text, wherever it is said.                                     *)
TextWindow(m) == Recent(texts \cup {m})
Copies(m) == {e \in TextWindow(m) : e.what = m.what}
(* Mutant of IsDuplicate: one copy more is tolerated. *)
DuplicatesOnce(m) ==
  /\ Cardinality(TextWindow(m)) >= DUP_MIN_IN_WINDOW
  /\ Cardinality(Copies(m)) > Cardinality(TextWindow(m)) \div 2 + 1
IsDuplicate(m) ==
  /\ Cardinality(TextWindow(m)) >= DUP_MIN_IN_WINDOW
  /\ Cardinality(Copies(m)) >= DUP_THRESHOLD
TextSuppresses(m) == Blocked(m.what) \/ IsDuplicate(m)

ShouldIgnore(n, level) == <<n, level>> \in Ignored \/ <<n, "ALL">> \in Ignored
Watched(n) == protection /\ n \notin exempt
Show(m) == shown' = IF Watched(m.nick) THEN shown \cup {m} ELSE shown
Hide == UNCHANGED shown
Message == messages < MaxMessages /\ messages' = messages + 1
Settings == <<now, protection, exempt>>

-----------------------------------------------------------------------------
(* A message to a channel, from the ignore list to the buffer.             *)
Public(n, t) ==
  LET m == This(n, Text(t)) IN
  /\ Message /\ ~ShouldIgnore(n, "PUBLIC") /\ UNCHANGED <<Settings, storm, queries>>
  /\ CASE ~Watched(n) -> Show(m) /\ UNCHANGED <<times, blocked, texts>>
       [] Watched(n) /\ n \in Tilde /\ Suppresses(Nick(n), m, THRESHOLD) ->
            Check(Nick(n), m, THRESHOLD) /\ Hide /\ UNCHANGED texts
       [] OTHER ->
            /\ times' = IF n \in Tilde THEN [times EXCEPT ![Nick(n)] = Counted(Nick(n), m)] ELSE times
            /\ texts' = IF Blocked(Text(t)) THEN texts ELSE TextWindow(m)
            /\ IF TextSuppresses(m) THEN Hide /\ blocked' = [blocked EXCEPT ![Text(t)] = now + BLOCK]
               ELSE Show(m) /\ UNCHANGED blocked

(* A private message: the query buffer comes before the flood checks.      *)
Private(n) ==
  LET m == This(n, Privately) IN
  /\ Message /\ ~ShouldIgnore(n, "MSGS") /\ queries' = queries \cup {n} /\ UNCHANGED <<Settings, texts>>
  /\ CASE ~Watched(n) \/ n \notin Tilde -> Show(m) /\ UNCHANGED <<times, blocked, storm>>
       [] Watched(n) /\ n \in Tilde /\ Suppresses(Nick(n), m, THRESHOLD) ->
            Check(Nick(n), m, THRESHOLD) /\ Hide /\ UNCHANGED storm
       [] OTHER ->
            /\ times' = [times EXCEPT ![Nick(n)] = Counted(Nick(n), m)]
            /\ storm' = IF Blocked(Storm) THEN storm
                        ELSE IF StormSuppresses(m) THEN {} ELSE StormWindow(m)
            /\ IF StormSuppresses(m) THEN Hide /\ blocked' = [blocked EXCEPT ![Storm] = now + BLOCK]
               ELSE Show(m) /\ UNCHANGED blocked

(* A /me, to a channel or privately: nothing counts it, and no block stops it. *)
CtcpAction(n) ==
  /\ Message /\ ~ShouldIgnore(n, "ACTIONS") /\ queries' \in {queries, queries \cup {n}}
  /\ Show(This(n, Action)) /\ UNCHANGED <<Settings, times, blocked, storm, texts>>

(* A CTCP request other than ACTION is at most the carrier of a handshake; private ones open a query. *)
CtcpRequest(n) ==
  LET m == This(n, Ctcp) IN
  /\ Message /\ ~ShouldIgnore(n, "CTCPS") /\ queries' = queries \cup {n}
  /\ UNCHANGED <<Settings, storm, texts>>
  /\ IF Watched(n)
     THEN /\ Check(Ctcp, m, CTCP_THRESHOLD)
          /\ IF Suppresses(Ctcp, m, CTCP_THRESHOLD) THEN Hide ELSE Show(m)
     ELSE Show(m) /\ UNCHANGED <<times, blocked>>

(* A nick change is always made, and shown unless its channel has seen too many. *)
NickChange(n, c) ==
  LET m == This(n, Renames(c)) IN
  /\ Message /\ UNCHANGED <<Settings, storm, texts, queries>>
  /\ IF ShouldIgnore(n, "NICKS") \/ ~protection THEN UNCHANGED <<times, blocked, shown>>
     ELSE /\ Check(Renames(c), m, NICK_THRESHOLD)
          /\ shown' = IF Suppresses(Renames(c), m, NICK_THRESHOLD) THEN shown ELSE shown \cup {m}

(* /flood on and off, /flood add and remove.                               *)
CmdFlood(on, es) ==
  /\ Message /\ <<on, es>> # <<protection, exempt>> /\ protection' = on /\ exempt' = es
  /\ UNCHANGED <<now, times, blocked, storm, texts, queries, shown>>

Tick == /\ now < MaxClock /\ now' = now + 1
        /\ shown' = {m \in shown : m.at >= now' - WINDOW}
        /\ UNCHANGED <<protection, exempt, times, blocked, storm, texts, queries, messages>>

Next == \/ Tick
        \/ \E n \in Nicks : \/ \E t \in Texts : Public(n, t)
                            \/ Private(n) \/ CtcpAction(n) \/ CtcpRequest(n)
                            \/ \E c \in Channels : NickChange(n, c)
        \/ \E on \in BOOLEAN, n \in Nicks : CmdFlood(on, exempt) \/ CmdFlood(on, exempt \cup {n}) \/ CmdFlood(on, exempt \ {n})
Spec == Init /\ [][Next]_vars

-----------------------------------------------------------------------------
TypeOK == /\ now \in 1..MaxClock /\ exempt \subseteq Nicks /\ \A n \in queries : <<n, "ALL">> \notin Ignored
          /\ \A k \in Keys : blocked[k] <= now + BLOCK /\ \A m \in times[k] : m.at <= now

(* Within a window no "~" nick gets THRESHOLD messages through, no channel shows NICK_THRESHOLD  *)
(* nick changes, and not more than CTCP_THRESHOLD - 1 requests pass, whatever was switched on    *)
(* and off, blocked and unblocked in between; what a nick says with /me is not among them.       *)
Of(n) == {m \in shown : m.nick = n /\ m.what \in {Privately} \cup {Text(t) : t \in Texts}}
About(what) == {m \in shown : m.what = what}
NobodyFloods ==
  /\ \A n \in Tilde : Cardinality(Of(n)) < THRESHOLD
  /\ \A c \in Channels : Cardinality(About(Renames(c))) < NICK_THRESHOLD
  /\ Cardinality(About(Ctcp)) < CTCP_THRESHOLD
(* Nor do the copies of one text, whoever says them.                                             *)
CopiesAreBounded ==
  \A t \in Texts : LET n == Cardinality(About(Text(t))) IN
                   n < DUP_THRESHOLD \/ n < DUP_MIN_IN_WINDOW
(* Private messages of fewer than STORM_THRESHOLD different "~" nicks are shown in a window.     *)
NoStorm == Cardinality(Senders({m \in About(Privately) : m.nick \in Tilde})) < STORM_THRESHOLD

(* Violated by the code: nobody floods with /me either.                                          *)
ActionsCountToo ==
  \A n \in Tilde : Cardinality(Of(n) \cup {m \in shown : m.nick = n /\ m.what = Action}) < THRESHOLD
(* Violated by the code: what is suppressed leaves no trace (a query buffer is opened all the    *)
(* same).                                                                                        *)
SuppressedOpensNothing ==
  [][\A n \in Nicks : Private(n) /\ Watched(n) /\ n \notin queries => shown' # shown]_vars
(* Violated by the code: a message of somebody who says few things is shown.                     *)
FewMessagesAreShown ==
  [][\A n \in Nicks \ Tilde, t \in Texts :
       Public(n, t) /\ Watched(n) /\ About(Text(t)) = {} => shown' # shown]_vars
=============================================================================
