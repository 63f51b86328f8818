------------------------------- MODULE Netsplit -------------------------------
(***************************************************************************)
(* The netsplit tracker: quits that name two servers and the joins that    *)
(* follow them are kept off the screen one by one and announced together   *)
(* (src/irc/netsplit.rs, its callers handle_quit and handle_join of        *)
(* src/irc/events.rs, and the one-second tick of src/app/maintenance.rs).  *)
(* There is one tracker for all networks.                                  *)
(***************************************************************************)
EXTENDS Naturals, Sequences, FiniteSets

CONSTANTS Nicks,
          Networks,   \* a set of sets of channel buffers
          Pairs,      \* pairs of servers named by a quit
          MaxSteps    \* bound on the messages

NetsplitAssumption == IsFiniteSet(Nicks) /\ MaxSteps \in Nat

VARIABLES
  present,   \* buffer -> nicks in it
  groups,    \* NetsplitState.groups
  index,     \* NetsplitState.nick_index: nick -> position in groups, 0 if none
  netjoins,  \* NetsplitState.netjoins
  hidden,    \* history: quits and joins kept off the screen, not yet announced
  back,      \* history: joins announced with a split since that split
  steps      \* messages so far

vars == <<present, groups, index, netjoins, hidden, back, steps>>

Buffers == UNION Networks
Quits == {"quit"} \X Nicks \X Buffers
Joins == {"join"} \X Nicks \X Buffers

(* How long a group has been quiet: less than five seconds, less than an   *)
(* hour, more.                                                             *)
Quiet == 0 .. 2
Group == [pair : Pairs, lines : SUBSET (Nicks \X Buffers), who : SUBSET Nicks,
          quiet : Quiet, printed : BOOLEAN]

(* Types of every variable.                                                *)
TypeOK ==
  /\ present \in [Buffers -> SUBSET Nicks]
  /\ groups \in Seq(Group) /\ netjoins \in Seq(Group)
  /\ index \in [Nicks -> 0 .. Len(groups)]
  /\ hidden \in SUBSET (Quits \cup Joins)
  /\ back \in SUBSET (Nicks \X Buffers)
  /\ steps \in 0 .. MaxSteps

Init ==
  /\ present = [b \in Buffers |-> Nicks]
  /\ groups = <<>> /\ netjoins = <<>>
  /\ index = [n \in Nicks |-> 0]
  /\ hidden = {} /\ back = {}
  /\ steps = 0

-----------------------------------------------------------------------------
(* The group for a pair that has not been printed yet, or a new one.       *)
Current(list, pair) ==
  LET open == {i \in DOMAIN list : list[i].pair = pair /\ ~list[i].printed} IN
  IF open = {} THEN Len(list) + 1 ELSE CHOOSE i \in open : \A j \in open : i <= j
(* The list with nick n and its lines added to the current group.          *)
Entry(pair, lines, who) ==
  [pair |-> pair, lines |-> lines, who |-> who, quiet |-> 0, printed |-> FALSE]
(* Mutant of Noted: a printed group is used again.                         *)
NotedInPrinted(list, pair, n, lines) ==
  LET same == {i \in DOMAIN list : list[i].pair = pair} IN
  IF same = {} THEN Append(list, Entry(pair, lines, {n}))
  ELSE [list EXCEPT ![CHOOSE i \in same : TRUE] =
          [@ EXCEPT !.lines = @ \cup lines, !.who = @ \cup {n}, !.quiet = 0]]
Noted(list, pair, n, lines) ==
  LET i == Current(list, pair) IN
  IF i > Len(list) THEN Append(list, Entry(pair, lines, {n}))
  ELSE [list EXCEPT ![i] = Entry(pair, @.lines \cup lines, @.who \cup {n})]

(* A quit that names two servers.                                          *)
SplitQuit(n, net, pair) ==
  LET affected == {b \in net : n \in present[b]} IN
  /\ present' = [b \in Buffers |-> IF b \in net THEN present[b] \ {n} ELSE present[b]]
  /\ groups' = Noted(groups, pair, n, {n} \X affected)
  /\ index' = [index EXCEPT ![n] = Current(groups, pair)]
  /\ hidden' = hidden \cup ({"quit"} \X {n} \X affected)
  /\ back' = back \ ({n} \X net)
  /\ UNCHANGED netjoins

(* A join is taken for a rejoin as long as the nick is in the index.       *)
Join(n, b) ==
  /\ n \notin present[b]
  /\ present' = [present EXCEPT ![b] = @ \cup {n}]
  /\ IF index[n] # 0
     THEN /\ netjoins' = Noted(netjoins, groups[index[n]].pair, n, {<<n, b>>})
          /\ index' = [index EXCEPT ![n] = 0]
          /\ hidden' = hidden \cup {<<"join", n, b>>}
          /\ back' = back \cup {<<n, b>>}
     ELSE UNCHANGED <<netjoins, index, hidden, back>>
  /\ UNCHANGED groups

(* Any other departure from a channel.                                     *)
Leave(n, b) ==
  /\ n \in present[b]
  /\ present' = [present EXCEPT ![b] = @ \ {n}]
  /\ UNCHANGED <<groups, index, netjoins, hidden, back>>

-----------------------------------------------------------------------------
(* tick: what has been quiet for five seconds is printed, what is an hour  *)
(* old is forgotten, and the index is rebuilt from what is left.           *)
Ready(g) == ~g.printed /\ g.quiet >= 1
Marked(g) == [g EXCEPT !.printed = @ \/ Ready(g)]
Staying(list) == {i \in DOMAIN list : list[i].quiet < 2}
Rank(stay, i) == Cardinality({j \in stay : j <= i})
Kept(list) ==
  LET stay == Staying(list) IN
  [k \in 1 .. Cardinality(stay) |-> Marked(list[CHOOSE i \in stay : Rank(stay, i) = k])]
Printed(word, list) ==
  {word} \X UNION {list[i].lines : i \in {j \in DOMAIN list : Ready(list[j])}}
Announced(word, list) == {<<word, l[2][1], l[2][2]>> : l \in Printed(word, list)}
Rebuilt(list) ==
  [n \in Nicks |->
     LET with == {i \in DOMAIN list : n \in list[i].who} IN
     IF with = {} THEN 0 ELSE CHOOSE i \in with : \A j \in with : i >= j]
Tick ==
  /\ groups' = Kept(groups) /\ netjoins' = Kept(netjoins)
  /\ index' = Rebuilt(Kept(groups))
  /\ hidden' = hidden \ (Announced("quit", groups) \cup Announced("join", netjoins))
  /\ UNCHANGED <<present, back, steps>>

(* Time passes for one group; the process may have slept.                  *)
TimePasses ==
  /\ \/ \E i \in DOMAIN groups :
          /\ groups[i].quiet < 2 /\ groups' = [groups EXCEPT ![i].quiet = @ + 1]
          /\ UNCHANGED netjoins
     \/ \E i \in DOMAIN netjoins :
          /\ netjoins[i].quiet < 2 /\ netjoins' = [netjoins EXCEPT ![i].quiet = @ + 1]
          /\ UNCHANGED groups
  /\ UNCHANGED <<present, index, hidden, back, steps>>

Message ==
  /\ steps < MaxSteps /\ steps' = steps + 1
  /\ \E n \in Nicks, net \in Networks :
       \/ \E pair \in Pairs : SplitQuit(n, net, pair)
       \/ \E b \in net : Join(n, b) \/ Leave(n, b)
Next == Message \/ Tick \/ TimePasses
Spec == Init /\ [][Next]_vars

-----------------------------------------------------------------------------
(* The index points into the groups, at one that has the nick: a tick that *)
(* drops groups moves the others.                                          *)
IndexIsSound ==
  \A n \in Nicks : index[n] # 0 => index[n] <= Len(groups) /\ n \in groups[index[n]].who

(* What was kept off the screen is waiting to be announced, whatever the   *)
(* order of quits, joins, ticks and sleeps.                                *)
Waiting(word, list) == {word} \X UNION {list[i].lines : i \in {j \in DOMAIN list : ~list[j].printed}}
HiddenIsWaiting ==
  \A h \in hidden :
    <<h[1], <<h[2], h[3]>>>> \in Waiting("quit", groups) \cup Waiting("join", netjoins)

(* "was removed from nick_index, so second join won't match": one split    *)
(* explains one return to a channel.                                       *)
HidesJoin(n, b) == <<"join", n, b>> \in hidden' \ hidden
ReturnsOnce == [][\A n \in Nicks, b \in Buffers : HidesJoin(n, b) => <<n, b>> \notin back]_vars

(* "Per-connection netsplit tracking state": a join is not explained by a  *)
(* split of another network.                                               *)
SplitIsLocal ==
  [][\A n \in Nicks, net \in Networks : \A b \in net :
       HidesJoin(n, b) =>
         \E i \in DOMAIN groups : \E other \in net : <<n, other>> \in groups[i].lines]_vars
=============================================================================
