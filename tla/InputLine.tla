----------------------------- MODULE InputLine ------------------------------
(***************************************************************************)
(* The input line: text, cursor, history, tab completion and spelling.     *)
(* Offsets count bytes, as in the code: cutting the text inside of a       *)
(* character, or beyond its end, ends the program.  "_" is the space, "W"  *)
(* a space of three bytes, "e" a letter of two.                            *)
(***************************************************************************)
EXTENDS Integers, Sequences, SequencesExt

CONSTANTS Chars,            \* what is typed
          MaxHistory, MaxLength, MaxKeys

VARIABLES
    value, cursor,          \* the text and the byte offset of the cursor
    history, historyIndex, savedInput,
    tab,                    \* the completion that is cycled
    spell, spellMode,       \* the correction on offer; what is done with it
    crashed,
    draft,                  \* the text when the walk through the history began
    unspelled,              \* the text before the correction on offer
    stale,                  \* the text was edited, and the correction on offer left as it was
    adrift,                 \* a stale correction was put in, or one with the cursor in its word
    keys

inputVars == <<value, cursor, history, historyIndex, savedInput, tab, spell, spellMode, crashed,
               draft, unspelled, stale, adrift, keys>>

None == <<>>
Some(x) == <<x>>
Letters == {"a", "b", "e"}
Spaces == {"_", "W"}
Width(c) == CASE c = "e" -> 2 [] c = "W" -> 3 [] OTHER -> 1
Bytes(s) == FoldLeft(LAMBDA n, c : n + Width(c), 0, s)
Boundaries(s) == {Bytes(SubSeq(s, 1, i)) : i \in 0..Len(s)}
UpTo(s, byte) == SubSeq(s, 1, CHOOSE i \in 0..Len(s) : Bytes(SubSeq(s, 1, i)) = byte)
From(s, byte) == SubSeq(s, Len(UpTo(s, byte)) + 1, Len(s))

Before == UpTo(value, cursor)
After == From(value, cursor)
CanCut == cursor \in Boundaries(value)

Texts == Seq(Letters \cup Spaces \cup {",", ":"})
TypeOK ==
    /\ value \in Texts /\ cursor \in Nat /\ crashed \in BOOLEAN
    /\ history \in Seq(Texts) /\ Len(history) <= MaxHistory
    /\ historyIndex # None => historyIndex[1] \in DOMAIN history /\ savedInput # None
    /\ spell # None => spell[1].index \in DOMAIN spell[1].suggestions
    /\ tab # None => tab[1].index \in DOMAIN tab[1].matches

Init ==
    /\ value = <<>> /\ cursor = 0 /\ history = <<>> /\ historyIndex = None /\ savedInput = None
    /\ tab = None /\ spell = None /\ spellMode \in {"highlight", "replace"}
    /\ crashed = FALSE /\ draft = <<>> /\ unspelled = <<>> /\ stale = FALSE /\ adrift = FALSE /\ keys = 0

Past == <<history, historyIndex, savedInput, draft>>
Press == ~ crashed /\ keys < MaxKeys /\ keys' = keys + 1 /\ UNCHANGED spellMode
Set(text, byte) == value' = text /\ cursor' = byte
Crash == crashed' = TRUE /\ UNCHANGED <<value, cursor, tab, spell, unspelled, stale, adrift, Past>>

(* Mutant of DropTab: an edit leaves the completion on. *)
KeepTab == UNCHANGED tab
DropTab == tab' = None
\* a key that leaves the correction alone, and the range of it where it is
LeaveSpell(text) ==
    stale' = (stale \/ (spell # None /\ text # value)) /\ UNCHANGED <<spell, unspelled, adrift>>
Edit(text, byte) == Set(text, byte) /\ DropTab /\ LeaveSpell(text) /\ UNCHANGED crashed

----------------------------------------------------------------------------
(* Moving and deleting. *)

KeyOn(text, byte) ==
    Press /\ (IF CanCut THEN Edit(text, byte) /\ UNCHANGED Past ELSE Crash)

MoveLeft == KeyOn(value, IF Before = <<>> THEN 0 ELSE Bytes(Front(Before)))
MoveRight == KeyOn(value, IF After = <<>> THEN cursor ELSE cursor + Width(Head(After)))
Delete == KeyOn(IF After = <<>> THEN value ELSE Before \o Tail(After), cursor)
ClearToStart == KeyOn(After, 0)
ClearToEnd == KeyOn(Before, cursor)
Home == Press /\ Edit(value, 0) /\ UNCHANGED Past
End == Press /\ Edit(value, Bytes(value)) /\ UNCHANGED Past

TrimEnd(s) ==
    LET last == {i \in DOMAIN s : s[i] \notin Spaces}
    IN SubSeq(s, 1, IF last = {} THEN 0 ELSE CHOOSE i \in last : \A j \in last : j <= i)
LastSpace(s) == {i \in DOMAIN s : s[i] \in Spaces /\ \A j \in i + 1..Len(s) : s[j] \notin Spaces}

\* the byte after the first byte of the last space
WordStart(s) == IF LastSpace(s) = {} THEN 0
                ELSE Bytes(SubSeq(s, 1, (CHOOSE i \in LastSpace(s) : TRUE) - 1)) + 1
DeleteWordBack ==
    /\ Press
    /\ IF ~ CanCut \/ WordStart(TrimEnd(Before)) \notin Boundaries(value) THEN Crash
       ELSE IF cursor = 0 THEN Edit(value, 0) /\ UNCHANGED Past
       ELSE Edit(UpTo(value, WordStart(TrimEnd(Before))) \o After, WordStart(TrimEnd(Before)))
            /\ UNCHANGED Past

----------------------------------------------------------------------------
(* Spelling: in replace mode the first suggestion is put in place of the word at once. *)

Dictionary(word) == CASE word = <<"b">> -> << <<"a", "a">>, <<"e">> >>
                      [] word = <<"b", "b">> -> << <<"a">> >>
                      [] OTHER -> <<>>
Correcting == spell # None /\ spellMode = "replace"

\* replace_range on the word of s, where the cursor goes, where the word ends then
CanReplace(s) == {s.start, s.end} \subseteq Boundaries(value) /\ s.start <= s.end
Replaced(s, text, word) == UpTo(text, s.start) \o word \o From(text, s.end)
CursorMoved(s, byte, word) ==
    LET moved == byte + Bytes(word) - (s.end - s.start)
    IN IF byte <= s.start THEN byte ELSE IF moved > 0 THEN moved ELSE 0
NewEnd(s, word) == s.start + Bytes(word)
Astray == stale \/ (spell[1].start < cursor /\ cursor < spell[1].end)

\* last_completed_word before the separator just typed, without punctuation, and where it starts
CompletedWord(text) ==
    LET t == TrimEnd(text)
        first == IF LastSpace(t) = {} THEN 1 ELSE (CHOOSE i \in LastSpace(t) : TRUE) + 1
        core == {i \in first..Len(t) : t[i] # ","}
    IN IF core = {} THEN [word |-> <<>>, at |-> 0]
       ELSE LET i == CHOOSE k \in core : \A l \in core : k <= l
                j == CHOOSE k \in core : \A l \in core : k >= l
            IN [word |-> SubSeq(t, i, j), at |-> Bytes(SubSeq(t, 1, i - 1))]

\* check_spelling_after_separator
CheckSpelling(text, rest) ==
    LET found == CompletedWord(text)
        words == Dictionary(found.word)
        s == [start |-> found.at, end |-> found.at + Bytes(found.word), original |-> found.word,
              suggestions |-> words, index |-> 1]
        offered == words # <<>>
    IN /\ stale' = FALSE /\ UNCHANGED adrift /\ unspelled' = IF offered THEN text \o rest ELSE unspelled
       /\ IF offered /\ spellMode = "replace"
          THEN /\ Set(Replaced(s, text \o rest, words[1]), CursorMoved(s, Bytes(text), words[1]))
               /\ spell' = Some([s EXCEPT !.end = NewEnd(s, words[1])])
          ELSE Set(text \o rest, Bytes(text)) /\ spell' = IF offered THEN Some(s) ELSE None

\* cycle_spell_suggestion
CycleSpellSuggestion ==
    LET s == spell[1]
        n == (s.index % Len(s.suggestions)) + 1
    IN IF ~ CanReplace(s) THEN Crash
       ELSE /\ Set(Replaced(s, value, s.suggestions[n]), CursorMoved(s, cursor, s.suggestions[n]))
            /\ spell' = Some([s EXCEPT !.index = n, !.end = NewEnd(s, s.suggestions[n])])
            /\ adrift' = (adrift \/ Astray) /\ UNCHANGED <<tab, crashed, unspelled, stale, Past>>

\* dismiss_spell: the word comes back as it was written
CanDismiss == Correcting => CanReplace(spell[1])
DismissedText == IF Correcting THEN Replaced(spell[1], value, spell[1].original) ELSE value
DismissedCursor == IF Correcting THEN CursorMoved(spell[1], cursor, spell[1].original) ELSE cursor
Forget == spell' = None /\ stale' = FALSE /\ UNCHANGED <<unspelled, adrift>>
Dismiss == /\ spell' = None /\ stale' = FALSE /\ UNCHANGED unspelled
           /\ adrift' = (adrift \/ (Correcting /\ Astray))

Escape ==
    /\ Press /\ spell # None
    /\ IF ~ CanDismiss THEN Crash
       ELSE Set(DismissedText, DismissedCursor) /\ Dismiss /\ UNCHANGED <<tab, crashed, Past>>

Backspace ==
    /\ Press
    /\ IF ~ CanDismiss \/ DismissedCursor \notin Boundaries(DismissedText) THEN Crash
       ELSE LET before == UpTo(DismissedText, DismissedCursor)
                kept == IF before = <<>> THEN <<>> ELSE Front(before)
            IN /\ Set(kept \o From(DismissedText, DismissedCursor), Bytes(kept))
               /\ tab' = None /\ Dismiss /\ UNCHANGED <<crashed, Past>>

----------------------------------------------------------------------------
(* Typing. *)

Inserted(text) == Set(Before \o text \o After, cursor + Bytes(text))

\* a space takes the suggestion, and stands for the separator that is there already
TakeWithSpace ==
    IF spell[1].end \notin Boundaries(value) THEN Crash
    ELSE /\ IF From(value, spell[1].end) # <<>> /\ Head(From(value, spell[1].end)) = "_"
            THEN UNCHANGED <<value, cursor, tab, crashed>>
            ELSE IF CanCut THEN Inserted(<<"_">>) /\ tab' = None /\ UNCHANGED crashed
                 ELSE crashed' = TRUE /\ UNCHANGED <<value, cursor, tab>>
         /\ Forget /\ UNCHANGED Past

\* accept_spell_with_punctuation: the mark takes the place of the separator
TakeWithPunctuation ==
    LET end == spell[1].end
    IN IF end \notin Boundaries(value) THEN Crash
       ELSE /\ Set(UpTo(value, end) \o <<",">>
                     \o (IF From(value, end) = <<>> THEN <<>> ELSE Tail(From(value, end))), end + 1)
            /\ Forget /\ UNCHANGED <<tab, crashed, Past>>

Type(c) ==
    /\ Press /\ Len(value) < MaxLength
    /\ IF Correcting /\ c = "_" THEN TakeWithSpace
       ELSE IF Correcting /\ c = "," THEN TakeWithPunctuation
       ELSE IF ~ CanCut THEN Crash
       ELSE /\ tab' = None /\ UNCHANGED <<crashed, Past>>
            /\ IF c \in {"_", ","} THEN CheckSpelling(Append(Before, c), After)
               ELSE Inserted(<<c>>) /\ Forget

\* a name from the emote picker; the correction on offer is left as it is
InsertEmote ==
    Press /\ Len(value) < MaxLength /\ (IF CanCut THEN Edit(Before \o <<"a">> \o After, cursor + 1) /\ UNCHANGED Past ELSE Crash)

----------------------------------------------------------------------------
(* History and completion. *)

Submitted == IF value = <<>> THEN history
             ELSE SubSeq(Append(history, value), IF Len(history) = MaxHistory THEN 2 ELSE 1, Len(history) + 1)
Submit ==
    /\ Set(<<>>, 0) /\ tab' = None /\ history' = Submitted
    /\ historyIndex' = None /\ savedInput' = None /\ UNCHANGED <<crashed, draft>>
Enter == Press /\ Submit /\ Forget

\* a paste of several lines submits the line first, and does not look at the correction
PasteLines == Press /\ Submit /\ LeaveSpell(<<>>)

Recall(index) ==
    /\ Set(history[index], Bytes(history[index])) /\ historyIndex' = Some(index)
    /\ tab' = None /\ LeaveSpell(history[index]) /\ UNCHANGED <<history, crashed>>

HistoryUp ==
    /\ Press /\ history # <<>>
    /\ IF historyIndex = None
       THEN Recall(Len(history)) /\ savedInput' = Some(value) /\ draft' = value
       ELSE /\ UNCHANGED <<savedInput, draft>>
            /\ IF historyIndex[1] > 1 THEN Recall(historyIndex[1] - 1)
               ELSE Edit(value, cursor) /\ UNCHANGED <<history, historyIndex>>

(* Mutant of SavedText: the recalled line stays. *)
CurrentText == value
SavedText == IF savedInput = None THEN <<>> ELSE savedInput[1]
HistoryDown ==
    /\ Press /\ historyIndex # None
    /\ IF historyIndex[1] < Len(history) THEN Recall(historyIndex[1] + 1) /\ UNCHANGED <<savedInput, draft>>
       ELSE /\ Edit(SavedText, Bytes(SavedText))
            /\ historyIndex' = None /\ savedInput' = None /\ UNCHANGED <<history, draft>>

\* recent speakers first, then the nicks of the channel in their order
Speakers == << <<"b", "e">> >>
Nicks == << <<"a", "b">>, <<"b", "a">>, <<"b", "e">> >>
NickCompletions(prefix) ==
    SelectSeq(Speakers, LAMBDA n : IsPrefix(prefix, n))
    \o SelectSeq(Nicks, LAMBDA n : IsPrefix(prefix, n) /\ n \notin ToSet(Speakers))

\* split_completion_word: what follows the last space or comma
WordToComplete(text) ==
    LET seps == {i \in DOMAIN text : text[i] \in {"_", ","}}
    IN SubSeq(text, (IF seps = {} THEN 0 ELSE CHOOSE i \in seps : \A j \in seps : j <= i) + 1, Len(text))
Completed(t) == t.before \o t.matches[t.index] \o (IF t.before = <<>> THEN <<":", "_">> ELSE <<"_">>)

NextMatch(t) == (t.index % Len(t.matches)) + 1
TabComplete ==
    LET word == WordToComplete(Before)
        matches == NickCompletions(word)
        t == IF tab # None THEN [tab[1] EXCEPT !.index = NextMatch(tab[1])]
             ELSE [before |-> SubSeq(Before, 1, Len(Before) - Len(word)), matches |-> matches, index |-> 1]
    IN IF ~ CanCut THEN Crash
       ELSE /\ UNCHANGED <<crashed, Past>> /\ Forget
            /\ IF tab = None /\ (word = <<>> \/ matches = <<>>) THEN UNCHANGED <<value, cursor, tab>>
               ELSE Set(Completed(t), Bytes(Completed(t))) /\ tab' = Some(t)

\* Tab: the next suggestion, or else a completion
Tab == Press /\ Len(value) < MaxLength /\ (IF Correcting THEN CycleSpellSuggestion ELSE TabComplete)

Next ==
    \/ \E c \in Chars : Type(c)
    \/ Backspace \/ Delete \/ MoveLeft \/ MoveRight \/ Home \/ End
    \/ ClearToStart \/ ClearToEnd \/ DeleteWordBack
    \/ Escape \/ Tab \/ InsertEmote
    \/ Enter \/ PasteLines \/ HistoryUp \/ HistoryDown

Spec == Init /\ [][Next]_inputVars

----------------------------------------------------------------------------

(* The cursor is between two characters of the text, so that every key finds it there, until a   *)
(* correction is put in, cycled or taken back that went stale, or in whose word the cursor       *)
(* stands (clear_to_end, delete, the history, a paste and the cursor keys leave spell_state).    *)
CursorIsInTheText == CanCut \/ adrift

(* A correction on offer replaces its word and nothing else, however often it is cycled and      *)
(* wherever the cursor goes, until the text is edited by a key that leaves spell_state.          *)
ReplacesItsWord ==
    \E i \in 0..Len(unspelled) :
        LET s == spell[1] IN
        /\ Bytes(SubSeq(unspelled, 1, i)) = s.start
        /\ value = SubSeq(unspelled, 1, i) \o s.suggestions[s.index]
                     \o SubSeq(unspelled, i + Len(s.original) + 1, Len(unspelled))
CorrectionsAreLocal == Correcting /\ ~ stale => ReplacesItsWord

(* A key ends the program for one of three reasons only: the correction on offer is stale, the   *)
(* cursor was left inside of a character by one that was put in, or the word before a space of   *)
(* several bytes is deleted.                                                                     *)
CrashesHaveACause == crashed => stale \/ adrift \/ "W" \in ToSet(value)

(* A completion that can be cycled is the text: no other key leaves a stale one behind.          *)
TabShowsItsMatch == tab # None => value = Completed(tab[1])

HistoryKeepsTheDraftStep ==
  historyIndex # None /\ historyIndex' = None /\ value' # <<>> => value' = draft
(* Leaving the history downwards brings back what was being written.                             *)
HistoryKeepsTheDraft == [][HistoryKeepsTheDraftStep]_inputVars

(* No key ends the program, and a correction on offer always replaces its word (both violated).  *)
KeysNeverCrash == ~ crashed
CorrectionsAlwaysReplaceTheirWord == Correcting => ReplacesItsWord

(* In highlight mode any key dismisses the suggestions (ui/input.rs, SpellCorrection).           *)
AnyKeyDismisses ==
    [][spellMode = "highlight" /\ spell # None /\ keys' # keys => spell' # spell]_inputVars

(* A completion keeps what is right of the cursor.                                               *)
TabKeepsTheRest == [][tab = None /\ tab' # None => IsSuffix(After, value')]_inputVars
=============================================================================
