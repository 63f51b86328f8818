------------------------------- MODULE Wizard -------------------------------
(***************************************************************************)
(* The server form of the terminal: pages of fields and the buttons Save   *)
(* and Cancel, worked with the keyboard, the mouse and pasted text.  The   *)
(* form ends where it hands a server over to be stored (apply_server_config*)
(* is in Configuration).  A click is answered from the rectangles that the *)
(* last frame recorded in the form, and the main loop handles every event  *)
(* that is waiting before it draws again, so a click may be answered from  *)
(* a frame that shows another page.  The terminal has room for the form.   *)
(***************************************************************************)
EXTENDS Integers, Sequences, FiniteSets, SequencesExt

CONSTANTS Fields,      \* sequence of [kind, page, required, locked]; locked: not to be edited
          Chars, Digits, \* what can be typed; " " is among it, but not a digit
          Options,     \* number of choices of a select field
          DrawsFirst,  \* TRUE: every event is handled on a fresh frame
          MaxText,     \* bound: length of a text
          MaxKeys      \* bound: keys and clicks

VARIABLES wizard,  \* the open form, or Closed
          frame,   \* what it recorded when it was drawn: its page, or Blank
          handed,  \* what its last save asked for each secret: "keep", "set" or "remove"
          complete, \* FALSE once a server was handed over that lacks a value or has a wrong one
          typed,   \* history: the fields the user typed into in this form
          keys
vars == <<wizard, frame, handed, complete, typed, keys>>

Closed == [open |-> FALSE]
Blank == 0
Pages == {Fields[f].page : f \in DOMAIN Fields}
Texts == {"text", "number", "masked"}
IsText(f) == Fields[f].kind \in Texts
Secrets == {f \in DOMAIN Fields : Fields[f].kind = "masked"}
Updates == {"keep", "set", "remove"}
Kept == [f \in Secrets |-> "keep"]

WizardAssumption ==
    /\ Fields \in Seq([kind : Texts \cup {"toggle", "select"}, page : Nat \ {Blank},
                       required : BOOLEAN, locked : BOOLEAN])
    /\ 1 \in Pages /\ Pages = 1..Cardinality(Pages)
    /\ \A f \in DOMAIN Fields : Fields[f].required => IsText(f)
    /\ " " \in Chars \ Digits /\ Digits \subseteq Chars /\ Digits # {} /\ Options \in Nat \ {0}
    /\ DrawsFirst \in BOOLEAN /\ {MaxText, MaxKeys} \subseteq Nat

(* What takes the focus on a page, in order: its fields, then the buttons. *)
Save == Len(Fields) + 1
Cancel == Len(Fields) + 2
Readonly(w, f) == w.edit /\ Fields[f].locked
PageFields(w, p) == {f \in DOMAIN Fields : Fields[f].page = p /\ ~Readonly(w, f)}
FocusRing(w, p) == PageFields(w, p) \cup {Save, Cancel}
FirstField(w, p) == Min(FocusRing(w, p))

Focused(w) == w.focus \in DOMAIN Fields
OnKind(w, kinds) == Focused(w) /\ Fields[w.focus].kind \in kinds
TextFocused(w) == OnKind(w, Texts) /\ ~Readonly(w, w.focus)

SyncCursor(w) ==
    [w EXCEPT !.cursor = IF OnKind(w, Texts) THEN Len(w.values[w.focus]) ELSE 0]
SetFocus(w, f) == SyncCursor([w EXCEPT !.focus = f])

(* An element that is not in the ring counts as the first one.             *)
Place(w) == IF w.focus \in FocusRing(w, w.page) THEN w.focus ELSE FirstField(w, w.page)
Behind(w) == {f \in FocusRing(w, w.page) : f > Place(w)}
Before(w) == {f \in FocusRing(w, w.page) : f < Place(w)}
FocusNext(w) == SetFocus(w, IF Behind(w) = {} THEN FirstField(w, w.page) ELSE Min(Behind(w)))
FocusPrev(w) == SetFocus(w, IF Before(w) = {} THEN Cancel ELSE Max(Before(w)))

SetPage(w, p) ==
    IF p \in Pages THEN SetFocus([w EXCEPT !.page = p], FirstField(w, p)) ELSE w
PrevPage(w) == SetPage(w, IF w.page > 1 THEN w.page - 1 ELSE 1)
NextPage(w) == SetPage(w, w.page + 1)

(* insert_char for each character, at the cursor.                          *)
Insert(w, s) ==
    IF ~TextFocused(w) THEN w
    ELSE [w EXCEPT !.touched = @ \cup {w.focus},
                   !.values[w.focus] =
                      SubSeq(@, 1, w.cursor) \o s \o SubSeq(@, w.cursor + 1, Len(@)),
                   !.cursor = @ + Len(s)]
Backspace(w) ==
    IF w.cursor = 0 \/ ~TextFocused(w) THEN w
    ELSE [w EXCEPT !.touched = @ \cup {w.focus},
                   !.values[w.focus] = RemoveAt(@, w.cursor),
                   !.cursor = @ - 1]
ToggleFocused(w) ==
    [w EXCEPT !.values[w.focus] = 1 - @, !.touched = @ \cup {w.focus}]
CycleFocused(w, by) ==
    [w EXCEPT !.values[w.focus] = (@ + by + Options) % Options,
              !.touched = @ \cup {w.focus}]

(* What Left and Right do depends on the field.                            *)
Sideways(w, by) ==
    IF OnKind(w, {"select"}) THEN CycleFocused(w, by)
    ELSE IF by = 1 THEN NextPage(w) ELSE PrevPage(w)
Types(w, c) ==
    IF c = " " /\ OnKind(w, {"toggle"}) THEN ToggleFocused(w) ELSE Insert(w, <<c>>)

-----------------------------------------------------------------------------
(* A form for a stored server starts with its values, without the secrets; *)
(* one for a new server has a port and is empty otherwise.                 *)
Stored(f, edit) ==
    IF ~IsText(f) THEN 0
    ELSE IF Fields[f].kind = "number" \/ (edit /\ Fields[f].kind = "text")
    THEN <<CHOOSE c \in Digits : TRUE>> ELSE <<>>
Opened(edit) ==
    SetPage([open |-> TRUE, edit |-> edit, page |-> 1, focus |-> Save, cursor |-> 0,
             values |-> [f \in DOMAIN Fields |-> Stored(f, edit)],
             touched |-> {}, error |-> FALSE], 1)

Init == /\ wizard = Closed /\ frame = Blank /\ handed = Kept
        /\ complete = TRUE /\ typed = {} /\ keys = 0

(* /wizard, which a pasted line or a browser may give while a form is open.*)
OpenServerWizard(edit) ==
    /\ keys < MaxKeys /\ keys' = keys + 1
    /\ wizard' = Opened(edit) /\ frame' = Blank /\ typed' = {} /\ handed' = Kept
    /\ UNCHANGED complete

(* Every frame records the rectangles of the page it shows.                *)
Render ==
    /\ wizard.open /\ frame # wizard.page /\ frame' = wizard.page
    /\ UNCHANGED <<wizard, handed, complete, typed, keys>>

Event ==
    /\ wizard.open /\ keys < MaxKeys
    /\ keys' = keys + 1
    /\ DrawsFirst => frame = wizard.page

HandleKey(w) == wizard' = w /\ UNCHANGED <<frame, handed, complete>>

Moves == /\ Event
         /\ \E w \in {FocusNext(wizard), FocusPrev(wizard), Sideways(wizard, 1),
                      Sideways(wizard, -1)} : HandleKey(w)
         /\ UNCHANGED typed
Edits(w, n) ==
    /\ Event
    /\ TextFocused(wizard) => Len(wizard.values[wizard.focus]) + n <= MaxText
    /\ HandleKey(w)
    /\ typed' = IF TextFocused(wizard) THEN typed \cup {wizard.focus} ELSE typed
TypeChar(c) == Edits(Types(wizard, c), 1)
(* The first line of a pasted text.                                        *)
HandlePaste(c, d) == Edits(Insert(wizard, <<c, d>>), 2)
PressBackspace ==
    /\ Event
    /\ HandleKey(Backspace(wizard))
    /\ typed' = IF TextFocused(wizard) /\ wizard.cursor > 0
                THEN typed \cup {wizard.focus} ELSE typed
EnterInField ==
    /\ Event /\ Focused(wizard) /\ HandleKey(FocusNext(wizard)) /\ UNCHANGED typed

(* A text of blanks only counts as missing (first_missing_required).       *)
IsBlank(s) == \A i \in DOMAIN s : s[i] = " "
IsEmpty(s) == s = <<>>
(* Mutant of Missing: blanks count as a value.                             *)
MissingUntrimmed(w) ==
    {f \in DOMAIN Fields : Fields[f].required /\ IsText(f) /\ IsEmpty(w.values[f])}
Missing(w) ==
    {f \in DOMAIN Fields : Fields[f].required /\ IsText(f) /\ IsBlank(w.values[f])}

IsNumber(s) ==
    \A i \in DOMAIN s :
       \/ s[i] \in Digits
       \/ s[i] = " " /\ (IsBlank(SubSeq(s, 1, i)) \/ IsBlank(SubSeq(s, i, Len(s))))
Malformed(w) == {f \in DOMAIN Fields : Fields[f].kind = "number" /\ ~IsNumber(w.values[f])}

(* Mutant of ResolveCred: an empty field means removal.                    *)
ResolveByValue(w, f) == IF w.values[f] = <<>> THEN "remove" ELSE "set"
(* What is asked for a secret: to keep it unless its field was touched.    *)
ResolveCred(w, f) ==
    IF f \notin w.touched THEN "keep"
    ELSE IF w.values[f] = <<>> THEN "remove" ELSE "set"

(* Save: with an error the form stays open, also when storing fails.       *)
Fails == wizard' = [wizard EXCEPT !.error = TRUE] /\ UNCHANGED frame
Closes == wizard' = Closed /\ frame' = Blank
WizardSave ==
    /\ UNCHANGED typed
    /\ IF Missing(wizard) # {} \/ Malformed(wizard) # {}
       THEN Fails /\ UNCHANGED <<handed, complete>>
       ELSE /\ Closes \/ Fails
            /\ handed' = [f \in Secrets |-> ResolveCred(wizard, f)]
            /\ complete' = (complete /\ \A f \in DOMAIN Fields :
                               /\ Fields[f].required => ~IsBlank(wizard.values[f])
                               /\ Fields[f].kind = "number" => IsNumber(wizard.values[f]))
(* Cancel, Escape and the quit chord.                                      *)
Cancels == Closes /\ UNCHANGED <<handed, complete, typed>>

EnterOnButton == /\ Event
                 /\ \/ wizard.focus = Save /\ WizardSave
                    \/ wizard.focus = Cancel /\ Cancels
Escape == Event /\ Cancels
(* /reload closes the form, which knows the old servers.                   *)
CmdReload == wizard.open /\ Cancels /\ UNCHANGED keys

(* A click on a field of the frame's page; toggles and selects react at    *)
(* once.  Locked fields have no rectangle.                                 *)
HitField(w, f) ==
    LET at == SetFocus(w, f)
    IN  IF Fields[f].kind = "toggle" THEN ToggleFocused(at)
        ELSE IF Fields[f].kind = "select" THEN CycleFocused(at, 1) ELSE at
Click ==
    /\ Event /\ frame # Blank
    /\ \/ WizardSave
       \/ Cancels
       \/ /\ \/ \E p \in Pages : wizard' = SetPage(wizard, p)
             \/ \E f \in PageFields(wizard, frame) : wizard' = HitField(wizard, f)
          /\ UNCHANGED <<frame, handed, complete, typed>>

Next == \/ \E edit \in BOOLEAN : OpenServerWizard(edit)
        \/ Render \/ Moves \/ PressBackspace \/ EnterInField
        \/ EnterOnButton \/ Escape \/ CmdReload \/ Click
        \/ \E c \in Chars : TypeChar(c) \/ \E d \in Chars : HandlePaste(c, d)
Spec == Init /\ [][Next]_vars

-----------------------------------------------------------------------------
TypeOK ==
    /\ frame \in Pages \cup {Blank} /\ handed \in [Secrets -> Updates]
    /\ complete \in BOOLEAN /\ typed \subseteq DOMAIN Fields /\ keys \in 0..MaxKeys
    /\ wizard.open =>
         /\ wizard.page \in Pages /\ wizard.touched \subseteq DOMAIN Fields
         /\ wizard.focus \in DOMAIN Fields \cup {Save, Cancel}
         /\ \A f \in DOMAIN Fields :
              wizard.values[f] \in IF IsText(f) THEN Seq(Chars)
                                  ELSE IF Fields[f].kind = "toggle" THEN {0, 1}
                                  ELSE 0..(Options - 1)

(* The text cursor, kept apart from the texts, stays inside the text of    *)
(* the focused field whatever order of keys, clicks, page changes and      *)
(* deletions led there (sync_cursor_to_focus, insert_char, backspace).     *)
CursorIsInTheText ==
    wizard.open /\ TextFocused(wizard) =>
        wizard.cursor \in 0..Len(wizard.values[wizard.focus])

(* The focus is on the page that is shown or on a button: no key edits a   *)
(* field the user cannot see.  It holds as long as every event meets a     *)
(* fresh frame.                                                            *)
FocusIsOnThePage ==
    wizard.open => wizard.focus \in FocusRing(wizard, wizard.page)

(* A server is handed over only with its required values and with numbers  *)
(* that parse, whatever was typed, pasted and deleted on either page.      *)
SavedServersAreComplete == complete

SecretsAreKeptStep ==
  handed' # handed => \A f \in Secrets : handed'[f] # "keep" => f \in typed
(* Saving the form keeps a stored secret, which the form never received,   *)
(* unless the user typed into its field (resolve_cred, was_touched).       *)
SecretsAreKept == [][SecretsAreKeptStep]_vars

(* What the form shows for a secret is what saving does: a masked field    *)
(* that is empty and not being edited reads "(unchanged)", so saving       *)
(* leaves the secret alone.                                                *)
UnchangedMeansKept ==
    [][ \A f \in Secrets : wizard.open /\ wizard.focus # f /\ wizard.values[f] = <<>>
        => handed'[f] \in {handed[f], "keep"} ]_vars
=============================================================================
