------------------------------ MODULE WebInput ------------------------------
(***************************************************************************)
(* The input line of the web client (src/web-ui/src/components/input.rs).  *)
(* Two of them are mounted, one for each layout, and the style sheet shows *)
(* one.  The browser counts the caret in UTF-16 units, the code cuts its   *)
(* texts at byte offsets, and Tab remembers byte offsets from one press to *)
(* the next while the text may also change without a key.                  *)
(*                                                                         *)
(* A text is a sequence over Chars; a character of Wide takes two units    *)
(* and four bytes, any other one of each.  An effect of the framework runs *)
(* after the handler, so the textarea takes the new text when the caret    *)
(* has been set already: whether the caret stays there or goes to the end  *)
(* of the new text is left open.                                           *)
(***************************************************************************)
EXTENDS Integers, Sequences, FiniteSets, SequencesExt

CONSTANTS Chars,    \* "/", ":" and " " are among them
          Wide,
          Commands, Paths, Emotes,   \* what can be completed (no emotes: they are off)
          SetPrefix,                 \* the text "/set "
          Nicks,    \* the nicks of each buffer: [buffer -> set of texts]
          Dialogs,  \* texts that open a dialog of the client
          Tokens,   \* what the pickers insert
          Pasted,   \* what arrives without a key, by mouse
          Layouts,
          MaxText,  \* bound: length of a text
          MaxSteps  \* bound

VARIABLES texts,    \* the text of each input line
          carets,   \* of each textarea, in UTF-16 units
          tabs,     \* the round of completions of each
          visible,  \* the layout that is shown
          active,   \* the active buffer, or NoBuffer
          sent,     \* history: <<buffer, line>> sent to the server
          opened,   \* how often a dialog was opened
          steps
vars == <<texts, carets, tabs, visible, active, sent, opened, steps>>

NoBuffer == "none"
Buffers == DOMAIN Nicks

-----------------------------------------------------------------------------
(* Offsets.  A text is cut at a byte offset, before character n + 1.       *)
Units(c) == IF c \in Wide THEN 2 ELSE 1
Bytes(c) == IF c \in Wide THEN 4 ELSE 1
Length(t, Width(_)) == FoldSeq(LAMBDA c, n : Width(c) + n, 0, t)
UnitAt(t, n) == Length(SubSeq(t, 1, n), Units)
ByteAt(t, n) == Length(SubSeq(t, 1, n), Bytes)
IsBoundary(t, b) == \E n \in 0..Len(t) : ByteAt(t, n) = b
Least(S) == CHOOSE x \in S : \A y \in S : x <= y
Greatest(S) == CHOOSE x \in S : \A y \in S : y <= x
UpTo(t, b) == SelectSeq([n \in 1..Len(t) |-> <<n, t[n]>>],
                        LAMBDA p : ByteAt(t, p[1]) <= b)
From(t, b) == SelectSeq([n \in 1..Len(t) |-> <<n, t[n]>>],
                        LAMBDA p : ByteAt(t, p[1]) > b)
Plain(s) == [n \in DOMAIN s |-> s[n][2]]
Before(t, b) == Plain(UpTo(t, b))
After(t, b) == Plain(From(t, b))

(* Mutant of Utf16OffsetToByte: the caret of the browser is taken for a byte offset. *)
NotTranslated(t, u) == IF u <= ByteAt(t, Len(t)) THEN u ELSE ByteAt(t, Len(t))
Utf16OffsetToByte(t, u) ==
    LET at == {n \in 0..Len(t) : UnitAt(t, n) >= u}
    IN  ByteAt(t, IF at = {} THEN Len(t) ELSE Least(at))
FloorCharBoundary(t, b) ==
    Greatest({n \in 0..Len(t) : ByteAt(t, n) <= b})
(* Mutant of ByteToUtf16Offset: a byte offset is given to the browser.     *)
GivenInBytes(t, b) == b
ByteToUtf16Offset(t, b) == UnitAt(t, FloorCharBoundary(t, b))

-----------------------------------------------------------------------------
(* Completion.                                                             *)
StartsWith(t, p) == IsPrefix(p, t)
WordStart(t) ==   \* of the last word of t, as a count of characters
    LET spaces == {n \in DOMAIN t : t[n] = " "}
    IN  IF spaces = {} THEN 0 ELSE Greatest(spaces)
Word(t) == SubSeq(t, WordStart(t) + 1, Len(t))
Colon(w) == <<":">> \o w \o <<":">>
EmoteTabMatches(w) ==
    IF w = <<>> \/ w[1] # ":" \/ Len(w) = 1 \/ ":" \in Range(Tail(w)) THEN {}
    ELSE {Colon(e) : e \in {f \in Emotes : StartsWith(f, Tail(w))}}
InFirstWord(t, before) ==
    " " \notin Range(SubSeq(t, 1, IF WordStart(before) = 0 THEN 1
                                  ELSE WordStart(before)))
NicksHere == IF active = NoBuffer THEN {} ELSE Nicks[active]
(* The tables of the commands and of the settings, by what they begin with. *)
CommandMatches(w) ==
    LET p == IF StartsWith(w, <<"/">>) THEN Tail(w) ELSE w
    IN  {<<"/">> \o c : c \in {d \in Commands : StartsWith(d, p)}}
SettingMatches(w) ==
    {SetPrefix \o p : p \in {q \in Paths : StartsWith(q, w)}}
BuildTabMatches(t, before) ==
    LET w == Word(before)
    IN  IF StartsWith(t, <<"/">>) /\ InFirstWord(t, before)
        THEN CommandMatches(w)
        ELSE IF StartsWith(t, SetPrefix) /\ WordStart(before) >= Len(SetPrefix)
        THEN SettingMatches(w)
        ELSE IF EmoteTabMatches(w) # {} THEN EmoteTabMatches(w)
        ELSE {n \in NicksHere : StartsWith(n, w)}

Carries(m) == m[1] \in {"/", ":"}   \* a delimiter of its own
Completion(m, first) ==
    IF ~Carries(m) /\ first THEN m \o <<":", " ">> ELSE m \o <<" ">>
(* In which order the matches come does not matter here: by their names.   *)
InOrder(S) == SetToSeq(S)

NoRound == [on |-> FALSE, matches |-> <<>>, index |-> 1, start |-> 0, stop |-> 0]

-----------------------------------------------------------------------------
Init ==
    /\ texts = [l \in Layouts |-> <<>>]
    /\ carets = [l \in Layouts |-> 0]
    /\ tabs = [l \in Layouts |-> NoRound]
    /\ visible \in Layouts
    /\ active = NoBuffer
    /\ sent = {}
    /\ opened = 0
    /\ steps = 0

Step == steps < MaxSteps /\ steps' = steps + 1
Text == texts[visible]
Tab == tabs[visible]
Cursor == Utf16OffsetToByte(Text, carets[visible])
CaretAt == CHOOSE n \in 0..Len(Text) : UnitAt(Text, n) = carets[visible]

(* The program sets a text and the byte offset of the caret.               *)
CaretsAfter(l, t, b) ==
    IF t = texts[l] THEN {ByteToUtf16Offset(t, b)}
    ELSE {ByteToUtf16Offset(t, b), UnitAt(t, Len(t))}
Sets(l, t, b) ==
    /\ Len(t) <= MaxText
    /\ texts' = [texts EXCEPT ![l] = t]
    /\ \E c \in CaretsAfter(l, t, b) : carets' = [carets EXCEPT ![l] = c]

(* What the user types or pastes reaches the textarea, then on_input.      *)
OnInput(t, n) ==
    /\ Len(t) <= MaxText
    /\ texts' = [texts EXCEPT ![visible] = t]
    /\ carets' = [carets EXCEPT ![visible] = UnitAt(t, n)]

Typed(c) ==
    /\ Step
    /\ OnInput(InsertAt(Text, CaretAt + 1, c), CaretAt + 1)
    /\ tabs' = [tabs EXCEPT ![visible].on = FALSE]
    /\ UNCHANGED <<visible, active, sent, opened>>

(* The mouse replaces the text between the caret and a second place.       *)
Paste(s, n, m) ==
    LET t == SubSeq(Text, 1, n) \o s \o SubSeq(Text, m + 1, Len(Text)) IN
    /\ Step
    /\ OnInput(t, n + Len(s))
    /\ UNCHANGED <<tabs, visible, active, sent, opened>>

(* A click puts the caret between two characters; no key is pressed.       *)
Click(n) ==
    /\ Step
    /\ carets' = [carets EXCEPT ![visible] = UnitAt(Text, n)]
    /\ UNCHANGED <<texts, tabs, visible, active, sent, opened>>

-----------------------------------------------------------------------------
NextIndex(r) == (r.index % Len(r.matches)) + 1
Continues == Tab.on /\ Cursor = Tab.stop

NextMatch ==
    LET i == NextIndex(Tab)
        m == Tab.matches[i]
        before == Before(Text, Tab.start)
        stop == Tab.start + Length(m, Bytes) IN
    /\ Step
    /\ Continues
    /\ IsBoundary(Text, Tab.start)   \* otherwise the client panics
    /\ Sets(visible, before \o m \o After(Text, Tab.stop), stop)
    /\ tabs' = [tabs EXCEPT ![visible].index = i, ![visible].stop = stop]
    /\ UNCHANGED <<visible, active, sent, opened>>

FirstMatch ==
    LET before == Before(Text, Cursor)
        found == InOrder(BuildTabMatches(Text, before))
        first == WordStart(before) = 0
        all == [i \in DOMAIN found |-> Completion(found[i], first)]
        start == IF found[1][1] = "/" THEN 0 ELSE ByteAt(before, WordStart(before))
        stop == start + Length(all[1], Bytes) IN
    /\ Step
    /\ ~Continues
    /\ Word(before) # <<>> \/ StartsWith(Text, <<"/">>)
    /\ found # <<>>
    /\ Sets(visible, Before(Text, start) \o all[1] \o After(Text, Cursor), stop)
    /\ tabs' = [tabs EXCEPT ![visible] =
                   [on |-> TRUE, matches |-> all, index |-> 1,
                    start |-> start, stop |-> stop]]
    /\ UNCHANGED <<visible, active, sent, opened>>

PressTab == NextMatch \/ FirstMatch

-----------------------------------------------------------------------------
(* Enter and the button send the text; only Enter ends the round of Tab.   *)
Blank(s) == Range(s) \subseteq {" "}
SendText(t) ==
    IF t \in Dialogs THEN opened' = opened + 1 /\ UNCHANGED sent
    ELSE /\ sent' = IF active = NoBuffer \/ Blank(t) THEN sent
                    ELSE sent \cup {<<active, t>>}
         /\ UNCHANGED opened
Cleared ==
    /\ texts' = [texts EXCEPT ![visible] = <<>>]
    /\ carets' = [carets EXCEPT ![visible] = 0]
PressEnter ==
    /\ Step
    /\ SendText(Text)
    /\ Cleared
    /\ tabs' = [tabs EXCEPT ![visible].on = FALSE]
    /\ UNCHANGED <<visible, active>>
PressSend ==
    /\ Step
    /\ SendText(Text)
    /\ Cleared
    /\ UNCHANGED <<tabs, visible, active>>

(* A picker asks for a token; the effects of both input lines see it, and  *)
(* the first that takes it clears it.                                      *)
Takes(l) == l = visible
InsertToken(l, s) ==
    LET c == Utf16OffsetToByte(texts[l], carets[l]) IN
    /\ Step
    /\ Takes(l)
    /\ Sets(l, Before(texts[l], c) \o s \o After(texts[l], c), c + Length(s, Bytes))
    /\ UNCHANGED <<tabs, visible, active, sent, opened>>

(* The window gets narrow or wide; another buffer becomes active.          *)
Rotate ==
    /\ Step
    /\ visible' \in Layouts \ {visible}
    /\ UNCHANGED <<texts, carets, tabs, active, sent, opened>>
Switch ==
    /\ Step
    /\ active' \in Buffers \ {active}
    /\ UNCHANGED <<texts, carets, tabs, visible, sent, opened>>

Next ==
    \/ \E c \in Chars : Typed(c)
    \/ \E s \in Pasted, n, m \in 0..Len(Text) : n <= m /\ Paste(s, n, m)
    \/ \E n \in 0..Len(Text) : Click(n)
    \/ PressTab \/ PressEnter \/ PressSend
    \/ \E l \in Layouts, s \in Tokens : InsertToken(l, s)
    \/ Rotate \/ Switch

Spec == Init /\ [][Next]_vars

-----------------------------------------------------------------------------
(* A round of Tab stands at one of its matches.                            *)
TypeOK ==
    /\ \A l \in Layouts :
          /\ Range(texts[l]) \subseteq Chars /\ Len(texts[l]) <= MaxText
          /\ tabs[l].on => tabs[l].index \in DOMAIN tabs[l].matches
          /\ tabs[l].start <= tabs[l].stop
    /\ visible \in Layouts /\ active \in Buffers \cup {NoBuffer}

(* The caret is never in the middle of a character nor past the text,      *)
(* though the program computes it in bytes.                                *)
CaretIsBetween ==
    \A l \in Layouts : \E n \in 0..Len(texts[l]) : carets[l] = UnitAt(texts[l], n)

TabReplacesTheWordStep ==
  LET n == CaretAt
      rest == SubSeq(Text, n + 1, Len(Text))
      new == texts'[visible]
  IN  /\ NextMatch => IsSuffix(rest, new)
      /\ FirstMatch => \E k \in {0, WordStart(SubSeq(Text, 1, n))} :
                         new = SubSeq(Text, 1, k) \o tabs'[visible].matches[1] \o rest
(* Tab puts its match in the place of the word before the caret, or of all *)
(* that is before it, and leaves what follows the caret as it is.          *)
TabReplacesTheWord == [][TabReplacesTheWordStep]_vars

HiddenDraftsStayStep ==
  \A l \in Layouts : texts'[l] # texts[l] => l = visible
(* The draft of the layout that is hidden stays as it was left.            *)
HiddenDraftsStay == [][HiddenDraftsStayStep]_vars

(* Violated: Tab cuts the text at an offset it remembers from another      *)
(* text, which may be inside a character.                                  *)
TabCutsBetween == Continues => IsBoundary(Text, Tab.start)

(* Violated: the completion of a setting replaces the whole text before    *)
(* the caret, also the words between "/set" and the one completed.         *)
EarlierWordsStay ==
    [][FirstMatch => LET b == Before(Text, Cursor)
                     IN  StartsWith(texts'[visible], SubSeq(b, 1, WordStart(b)))]_vars

(* Violated: Enter takes the text away also when there is no buffer to     *)
(* send it to.                                                             *)
NothingIsLost ==
    [][PressEnter /\ ~Blank(Text) =>
           sent' # sent \/ opened' # opened \/ <<active, Text>> \in sent]_vars
=============================================================================
