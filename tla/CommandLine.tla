---------------------------- MODULE CommandLine ----------------------------
(***************************************************************************)
(* From a submitted line to what it does (App::handle_submit,              *)
(* execute_command_with_depth, expand_alias_template, handle_paste and     *)
(* drain_paste_queue): commands, aliases that expand to chains of          *)
(* commands, their recursion limit, and pasted lines sent one every half   *)
(* second. A line is a sequence of words; a word of one symbol stands for  *)
(* any word, "/x" for a command, ";" for the separator of a chain and      *)
(* "$..." for a variable of an alias. Two buffers stand for those a        *)
(* message can be sent to (the log browser, which takes a few commands     *)
(* only, is LogBrowser; a paste into the form of a server or into a shell  *)
(* does not come here). One line is handled without interruption: while    *)
(* the agenda is not empty nothing else happens.                           *)
(***************************************************************************)
EXTENDS Integers, SequencesExt

CONSTANTS MAX_ALIAS_DEPTH, MAX_PASTE_LINES,
          Templates,   \* the bodies an alias may be given
          TypedLines,  \* the lines the user may type
          Pastes,      \* the texts the user may paste: sequences of two lines or more, none empty
          Drafts,      \* what may stand in the input line then; a draft ends in a space
          MaxEntries   \* bound: lines typed and texts pasted

CommandLineAssumption ==
    /\ MAX_ALIAS_DEPTH \in Nat /\ MAX_PASTE_LINES \in Nat /\ MaxEntries \in Nat
    /\ \A text \in Pastes : text \in Seq(Seq(STRING)) /\ Len(text) >= 2

VARIABLES aliases,     \* config.aliases: name -> body
          activeBuf,   \* active_buffer_id
          pasteQueue,  \* paste_queue: lines with the paste and the place they come from
          agenda,      \* the chains under way, innermost first: [parts, depth], what is still to be run of each
          source,      \* the paste and place of that line
          done,        \* what was run: [words, buf, source]
          entries      \* number of lines typed and texts pasted

lineVars == <<aliases, activeBuf, pasteQueue, agenda, source, done, entries>>

Buffers == {"c1", "c2"}
Typed == [paste |-> 0, index |-> 0]
AliasOf(word) == CASE word = "/al" -> "al" [] word = "/bl" -> "bl" [] OTHER -> "none"

TypeOK ==
    /\ DOMAIN aliases \subseteq {"al", "bl"} /\ activeBuf \in Buffers
    /\ Len(pasteQueue) <= MAX_PASTE_LINES
    /\ \A i \in DOMAIN agenda : agenda[i].depth \in 0..MAX_ALIAS_DEPTH + 1 /\ agenda[i].parts # <<>>
    /\ source \in [paste : 0..MaxEntries, index : Nat] /\ entries \in 0..MaxEntries

Init ==
    /\ aliases \in [{"al", "bl"} -> Templates] /\ activeBuf = "c1"
    /\ pasteQueue = <<>> /\ agenda = <<>> /\ source = Typed /\ done = <<>> /\ entries = 0

----------------------------------------------------------------------------
(* Aliases. *)

Words == Seq(STRING)
Replace(variable, by) ==
    [words \in Words |-> FlattenSeq([i \in DOMAIN words |-> IF words[i] = variable THEN by ELSE <<words[i]>>])]
Arg(args, i) == IF i < Len(args) THEN <<args[i + 1]>> ELSE <<>>
ArgsFrom(args, i) == IF i < Len(args) THEN SubSeq(args, i + 1, Len(args)) ELSE <<>>

\* the variables are replaced one after another, each in the result of the one before
ExpandAliasTemplate(body, args, channel) ==
    LET whole == IF Range(body) \cap {"$C", "$1-", "$*", "$1", "$0"} = {} THEN Append(body, "$*") ELSE body
        named == Replace("$C", <<channel>>)[whole]
        all   == Replace("$*", args)[Replace("$1-", ArgsFrom(args, 1))[named]]
    IN  Replace("$0", Arg(args, 0))[Replace("$1", Arg(args, 1))[all]]

\* the parts of a chain: what lies between two separators
Cuts(words) == {0, Len(words) + 1} \cup {i \in DOMAIN words : words[i] = ";"}
Split == [words \in Words |->
    LET starts == {i \in DOMAIN words : i - 1 \in Cuts(words) /\ i \notin Cuts(words)}
        end(i) == CHOOSE j \in Cuts(words) : j > i /\ \A k \in Cuts(words) : k > i => j <= k
        first == SetToSortSeq(starts, <)
    IN  [n \in DOMAIN first |-> SubSeq(words, first[n], end(first[n]) - 1)]]
IsCommand(words) == words[1] \in {"/go", "/alias", "/unalias", "/al", "/bl"}

\* the first part of the innermost chain, what is left then, and a chain to be run before that
Current == [words |-> Head(Head(agenda).parts), depth |-> Head(agenda).depth]
Left ==
    IF Tail(Head(agenda).parts) = <<>> THEN Tail(agenda)
    ELSE <<[Head(agenda) EXCEPT !.parts = Tail(@)]>> \o Tail(agenda)
Chain(words, depth) == IF Split[words] = <<>> THEN <<>> ELSE <<[parts |-> Split[words], depth |-> depth]>>

----------------------------------------------------------------------------
(* One part of a line: execute_command_with_depth or handle_plain_message. *)

Ran(words) == done' = Append(done, [words |-> words, buf |-> activeBuf, source |-> source])
(* Mutant of OneDeeper: the depth of an alias is not counted. *)
SameDepth(depth) == depth
OneDeeper(depth) == depth + 1

RunBuiltin(words) ==
    CASE words[1] = "/go" /\ Len(words) > 1 /\ words[2] \in Buffers ->
             activeBuf' = words[2] /\ UNCHANGED aliases
      [] words[1] = "/alias" /\ Len(words) > 2 /\ AliasOf(words[2]) # "none" ->
             /\ aliases' = [n \in DOMAIN aliases \cup {AliasOf(words[2])} |->
                                IF n = AliasOf(words[2]) THEN SubSeq(words, 3, Len(words)) ELSE aliases[n]]
             /\ UNCHANGED activeBuf
      [] words[1] = "/unalias" /\ Len(words) > 1 ->
             /\ aliases' = [n \in DOMAIN aliases \ {AliasOf(words[2])} |-> aliases[n]]
             /\ UNCHANGED activeBuf
      [] OTHER -> UNCHANGED <<aliases, activeBuf>>

\* a built-in command, an alias, or an unknown command
RunCommand(item) ==
    LET name == AliasOf(item.words[1])
    IN  IF name \in DOMAIN aliases
        THEN /\ agenda' = Chain(ExpandAliasTemplate(aliases[name], Tail(item.words), activeBuf), OneDeeper(item.depth))
                          \o Left
             /\ UNCHANGED <<done, aliases, activeBuf>>
        ELSE /\ agenda' = Left
             /\ IF name # "none" THEN Ran(<<"unknown">>) ELSE UNCHANGED done
             /\ RunBuiltin(item.words)

RunNext ==
    LET item == Current
    IN  /\ agenda # <<>>
        /\ CASE ~ IsCommand(item.words) ->
                    Ran(item.words) /\ agenda' = Left /\ UNCHANGED <<aliases, activeBuf>>
             [] IsCommand(item.words) /\ item.depth > MAX_ALIAS_DEPTH ->
                    Ran(<<"limit">>) /\ agenda' = Left /\ UNCHANGED <<aliases, activeBuf>>
             [] OTHER -> RunCommand(item)
        /\ UNCHANGED <<pasteQueue, source, entries>>

\* a script hides a command, or one that is neither built in nor an alias is the script's own
ScriptTakes ==
    /\ agenda # <<>> /\ IsCommand(Current.words) /\ Current.depth <= MAX_ALIAS_DEPTH
    /\ agenda' = Left
    /\ UNCHANGED <<aliases, activeBuf, pasteQueue, source, done, entries>>

----------------------------------------------------------------------------
(* Lines. *)

HandleSubmit(words, from) ==
    agenda' = <<[parts |-> <<words>>, depth |-> 0]>> /\ source' = from

Type(words) ==
    /\ agenda = <<>> /\ entries < MaxEntries /\ entries' = entries + 1
    /\ HandleSubmit(words, Typed)
    /\ UNCHANGED <<aliases, activeBuf, pasteQueue, done>>

SwitchBuffer(b) ==
    /\ agenda = <<>> /\ entries < MaxEntries /\ entries' = entries + 1 /\ activeBuf' = b
    /\ UNCHANGED <<aliases, pasteQueue, agenda, source, done>>

\* several lines: the first at once and behind the draft, the others wait; a paste that waits is given up
Queued(text, n) == [i \in 1..Len(text) - 1 |-> [words |-> text[i + 1], source |-> [paste |-> n, index |-> i + 1]]]
Capped(lines) == SubSeq(lines, 1, IF Len(lines) > MAX_PASTE_LINES THEN MAX_PASTE_LINES ELSE Len(lines))
(* Mutant of OnlyThese: a second paste queues behind the first. *)
AfterTheOthers(lines) == Capped(pasteQueue \o lines)
OnlyThese(lines) == Capped(lines)
HandlePaste(text, draft) ==
    /\ agenda = <<>> /\ entries < MaxEntries /\ entries' = entries + 1
    /\ HandleSubmit(draft \o text[1], [paste |-> entries + 1, index |-> 1])
    /\ pasteQueue' = OnlyThese(Queued(text, entries + 1))
    /\ UNCHANGED <<aliases, activeBuf, done>>

\* the timer of the main loop
TakeFirst(lines) == [line |-> Head(lines), rest |-> Tail(lines)]
DrainPasteQueue ==
    LET next == TakeFirst(pasteQueue)
    IN  /\ agenda = <<>> /\ pasteQueue # <<>>
        /\ HandleSubmit(next.line.words, next.line.source)
        /\ pasteQueue' = next.rest
        /\ UNCHANGED <<aliases, activeBuf, done, entries>>

Next ==
    \/ RunNext \/ ScriptTakes \/ DrainPasteQueue
    \/ \E words \in TypedLines : Type(words)
    \/ \E b \in Buffers : SwitchBuffer(b)
    \/ \E text \in Pastes, draft \in Drafts : HandlePaste(text, draft)

Spec == Init /\ [][Next]_lineVars
\* the program is single-threaded here and its timer never stops
Fairness == WF_lineVars(RunNext) /\ WF_lineVars(DrainPasteQueue)
FairSpec == Spec /\ Fairness

----------------------------------------------------------------------------
(* Every line is finished, however its aliases call each other or redefine themselves, and the
   client is free for the next key. *)
ChainsEnd == []<>(agenda = <<>>)

(* Pasted lines are run in the order of the text, and once another text is pasted no line of the
   one before follows. *)
PastesInOrder ==
    \A i, j \in DOMAIN done : i < j /\ Typed \notin {done[i].source, done[j].source} =>
        \/ done[i].source.paste < done[j].source.paste
        \/ done[i].source.paste = done[j].source.paste /\ done[i].source.index <= done[j].source.index

(* A pasted text goes to one buffer.  It does not: each line goes to the buffer shown when its
   half second is over. *)
PastesStayTogether ==
    \A i, j \in DOMAIN done :
        done[i].source # Typed /\ done[i].source.paste = done[j].source.paste => done[i].buf = done[j].buf
=============================================================================
