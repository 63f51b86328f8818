------------------------------- MODULE Formatting ----------------------------
(***************************************************************************)
(* How a line is drawn.  The terminal and the browser each have a parser   *)
(* of formatting codes of their own: the terminal's works on the bytes of  *)
(* a line whose emotes were replaced before, the browser's on its          *)
(* characters, and looks for links and emotes afterwards.  The line is     *)
(* typed character by character; "http" stands for http:// or https:// and *)
(* "ee" for a character of several bytes, "+" for the last of them.        *)
(***************************************************************************)
EXTENDS Integers, Sequences, SequencesExt, FiniteSetsExt

CONSTANTS Alphabets, \* sets of characters, of which a line takes one
          HexDigits, \* digits of a colour (6 in the code)
          MaxLength, \* bound of the model
          Longer     \* alphabets of which a line takes one character more

VARIABLES alphabet, line
formatVars == <<alphabet, line>>

Init == alphabet \in Alphabets /\ line = <<>>
Bound == IF alphabet \in Longer THEN MaxLength + 1 ELSE MaxLength
Type(c) == Len(line) < Bound /\ line' = Append(line, c) /\ UNCHANGED alphabet
Next == \E c \in alphabet : Type(c)
Spec == Init /\ [][Next]_formatVars

----------------------------------------------------------------------------
(* Characters, colours and styles. *)

DigitValue == [c \in {"0", "1", "9"} |-> CASE c = "0" -> 0 [] c = "1" -> 1 [] c = "9" -> 9]
Digit == DOMAIN DigitValue
Hex == Digit \cup {"a", "b"}
Default == <<>>
irssi_color == {"r", "b", "W"}
color_map == irssi_color
PaletteSize == 99

PlainStyle == [fg |-> Default, bg |-> Default, on |-> {}]
Toggle(style, attribute) ==
    [style EXCEPT !.on = (@ \ {attribute}) \cup ({attribute} \ @)]

\* what the toggles of one character stand for, after % and alone
Lower == [c \in {"_", "u", "i", "d"} |->
              CASE c = "_" -> "bold" [] c = "u" -> "underline" [] c = "i" -> "italic" [] c = "d" -> "dim"]
Upper == [c \in {"U", "I"} |-> CASE c = "U" -> "underline" [] c = "I" -> "italic"]
Control == [c \in {"^B", "^]", "^^", "^_"} |->
                CASE c = "^B" -> "bold" [] c = "^]" -> "italic" [] c = "^^" -> "dim" [] c = "^_" -> "underline"]

\* a parser: where it is, the style there, the text since the last flush and the spans before it
Start(style) == [i |-> 1, style |-> style, text |-> <<>>, spans |-> <<>>, ok |-> TRUE]
Flush(p) ==
    IF p.text = <<>> THEN p
    ELSE [p EXCEPT !.spans = Append(@, [text |-> p.text, style |-> p.style, kind |-> "text"]), !.text = <<>>]
Put(p, cs, n) == [p EXCEPT !.text = @ \o cs, !.i = @ + n]
Styled(p, style, n) == [Flush(p) EXCEPT !.style = style, !.i = @ + n]

\* a parser takes at least one character per step
Steps(Step(_, _), t, style) ==
    LET run[n \in 0..Len(t)] ==
            IF n = 0 THEN Start(style)
            ELSE LET p == run[n - 1] IN IF p.i > Len(t) \/ ~ p.ok THEN p ELSE Step(t, p)
    IN run
RunFrom(Step(_, _), t, style) == Flush(Steps(Step, t, style)[Len(t)])
Run(Step(_, _), t) == RunFrom(Step, t, PlainStyle)

\* the first position from i on that holds none of cs
After(t, i, cs) == Min({j \in i..Len(t) : t[j] \notin cs} \cup {Len(t) + 1})
At(t, i, cs) == i \in DOMAIN t /\ t[i] \in cs
IsHex(t, i) == i + HexDigits - 1 <= Len(t) /\ \A j \in i..i + HexDigits - 1 : t[j] \in Hex
HexColour(t, i) == <<"hex", SubSeq(t, i, i + HexDigits - 1)>>
NumberLength(t, i) == IF ~ At(t, i, Digit) THEN 0 ELSE IF At(t, i + 1, Digit) THEN 2 ELSE 1
Number(t, i) ==
    IF NumberLength(t, i) = 1 THEN DigitValue[t[i]] ELSE 10 * DigitValue[t[i]] + DigitValue[t[i + 1]]
MircColour(n, otherwise) == IF n < PaletteSize THEN <<"mirc", n>> ELSE otherwise

Painted(style, code, colour) ==
    IF code = "z" THEN [style EXCEPT !.bg = colour] ELSE [style EXCEPT !.fg = colour]

----------------------------------------------------------------------------
(* The terminal: theme/parser.rs *)

\* a character of several bytes, and the code an emote was replaced by
Wide == {"ee", "emote"}
Bytes(t) == FlattenSeq([i \in DOMAIN t |-> IF t[i] \in Wide THEN <<t[i], "+">> ELSE <<t[i]>>])

ReadHex6(t, i) == IsHex(t, i)
PercentCode(t, p) ==
    LET c == t[p.i + 1]
    IN CASE p.i = Len(t) -> Put(p, <<"%">>, 1)
         [] c \in {"N", "n"} -> Styled(p, PlainStyle, 2)
         [] c \in DOMAIN Lower -> Styled(p, Toggle(p.style, Lower[c]), 2)
         [] c \in {"Z", "z"} /\ ReadHex6(t, p.i + 2) ->
                Styled(p, Painted(p.style, c, HexColour(t, p.i + 2)), 2 + HexDigits)
         [] c \in {"Z", "z"} /\ ~ ReadHex6(t, p.i + 2) -> Put(Flush(p), <<"%", c>>, 2)
         [] c = "|" -> Put(p, <<>>, 2)
         [] c = "%" -> Put(p, <<"%">>, 2)
         [] c \in color_map -> Styled(p, Painted(p.style, c, <<"irssi", c>>), 2)
         [] OTHER -> Put(p, <<"%", c>>, 2)

\* ^C[FG[,BG]]: the comma counts only before a digit
CommaBeforeDigit(t, i) == At(t, i, {","}) /\ At(t, i + 1, Digit)
ColourCode(t, p) ==
    LET n == NumberLength(t, p.i + 1)
        comma == p.i + 1 + n
        painted == [p.style EXCEPT !.fg = MircColour(Number(t, p.i + 1), @)]
    IN IF n = 0 THEN Styled(p, [p.style EXCEPT !.fg = Default, !.bg = Default], 1)
       ELSE IF CommaBeforeDigit(t, comma)
       THEN Styled(p, [painted EXCEPT !.bg = MircColour(Number(t, comma + 1), @)],
                   2 + n + NumberLength(t, comma + 1))
       ELSE Styled(p, painted, 1 + n)

\* ^D[RRGGBB[,RRGGBB]]
HexCode(t, p) ==
    LET comma == p.i + 1 + HexDigits
        painted == [p.style EXCEPT !.fg = HexColour(t, p.i + 1)]
    IN IF ~ ReadHex6(t, p.i + 1) THEN Styled(p, [p.style EXCEPT !.fg = Default, !.bg = Default], 1)
       ELSE IF At(t, comma, {","}) /\ ReadHex6(t, comma + 1)
       THEN Styled(p, [painted EXCEPT !.bg = HexColour(t, comma + 1)], 2 + 2 * HexDigits)
       ELSE Styled(p, painted, 1 + HexDigits)

ParseFormatString(t, p) ==
    LET c == t[p.i]
    IN CASE c = "%" -> PercentCode(t, p)
         [] c = "^C" -> ColourCode(t, p)
         [] c = "^D" -> HexCode(t, p)
         [] c = "^O" -> Styled(p, PlainStyle, 1)
         [] c = "^V" -> Styled(p, [p.style EXCEPT !.fg = p.style.bg, !.bg = p.style.fg], 1)
         [] c \in DOMAIN Control -> Styled(p, Toggle(p.style, Control[c]), 1)
         [] c = "^Q" -> Put(p, <<>>, 1)
         [] c = "+" -> [p EXCEPT !.ok = FALSE]  \* no character begins at this byte
         [] c \in Wide -> Put(p, <<c>>, 2)
         [] OTHER -> Put(p, <<c>>, 1)

\* $0, $* and $[N]0 of a text that comes without parameters
UpToBracket(t, i) == After(t, i, {c \in ToSet(t) : c # "]"})
Width(t, i, j) == IF j - i \in {1, 2} /\ \A k \in i..j - 1 : t[k] \in Digit
                  THEN IF j - i = 1 THEN DigitValue[t[i]] ELSE 10 * DigitValue[t[i]] + DigitValue[t[i + 1]]
                  ELSE 0
Variable(t, p) ==
    LET close == UpToBracket(t, p.i + 2)
    IN CASE At(t, p.i + 1, {"*"}) -> Put(p, <<>>, 2)
         [] At(t, p.i + 1, {"["}) ->
                [Put(p, [k \in 1..Width(t, p.i + 2, close) |-> " "], 0) EXCEPT !.i = After(t, close + 1, Digit)]
         [] At(t, p.i + 1, Digit) -> [p EXCEPT !.i = After(t, p.i + 1, Digit)]
         [] p.i = Len(t) -> Put(p, <<"$">>, 1)
         [] OTHER -> Put(p, <<"$", t[p.i + 1]>>, 2)
SubstituteVars(t, p) == IF t[p.i] = "$" THEN Variable(t, p) ELSE Put(p, <<t[p.i]>>, 1)
Text(p) == FlattenSeq([i \in DOMAIN p.spans |-> p.spans[i].text])

\* :name: of a known emote
KnownEmotes == {<<"a">>, <<"a", "1">>}
NameByte == Digit \cup {"a", "b", "r", "_", "u", "i", "d"}
EmoteAt(t, i) ==
    LET close == After(t, i + 1, NameByte)
    IN IF t[i] = ":" /\ At(t, close, {":"}) /\ SubSeq(t, i + 1, close - 1) \in KnownEmotes THEN close ELSE 0
Tokenize(t, p) ==
    IF EmoteAt(t, p.i) = 0 THEN Put(p, <<t[p.i]>>, 1) ELSE [Put(p, <<"emote">>, 0) EXCEPT !.i = EmoteAt(t, p.i) + 1]
EmotifyMessageText(t) == Text(Run(Tokenize, t))

TerminalLine(t) == Run(ParseFormatString, Bytes(EmotifyMessageText(t)))
TerminalTopic(t) == Run(ParseFormatString, Bytes(Text(Run(SubstituteVars, t))))

----------------------------------------------------------------------------
(* The browser: web-ui/src/format.rs *)

Fits(t, i) == i + HexDigits <= Len(t)
WebPercentCode(t, p) ==
    LET c == t[p.i + 1]
    IN CASE p.i = Len(t) -> Put(p, <<"%">>, 1)
         [] c \in {"Z", "z"} /\ Fits(t, p.i + 1) ->
                Styled(p, Painted(p.style, c, HexColour(t, p.i + 2)), 2 + HexDigits)
         [] c \in {"N", "n"} -> Styled(p, PlainStyle, 2)
         [] c \in DOMAIN Lower -> Styled(p, Toggle(p.style, Lower[c]), 2)
         [] c \in DOMAIN Upper -> Styled(p, Toggle(p.style, Upper[c]), 2)
         [] c = "%" -> Put(p, <<"%">>, 2)
         [] c \in irssi_color -> Styled(p, Painted(p.style, c, <<"irssi", c>>), 2)
         [] OTHER -> Put(p, <<"%", c>>, 2)

\* the comma counts whatever follows it
WebColourCode(t, p) ==
    LET n == NumberLength(t, p.i + 1)
        comma == p.i + 1 + n
        m == NumberLength(t, comma + 1)
        painted == [p.style EXCEPT !.fg = MircColour(Number(t, p.i + 1), Default)]
    IN IF n = 0 THEN Styled(p, [p.style EXCEPT !.fg = Default, !.bg = Default], 1)
       ELSE IF At(t, comma, {","})
       THEN Styled(p, [painted EXCEPT !.bg = IF m = 0 THEN Default ELSE MircColour(Number(t, comma + 1), Default)],
                   2 + n + m)
       ELSE Styled(p, painted, 1 + n)

WebHexCode(t, p) ==
    IF IsHex(t, p.i + 1)
    THEN Styled(p, [p.style EXCEPT !.fg = HexColour(t, p.i + 1)], 1 + HexDigits)
    ELSE Styled(p, p.style, 1)

ParseFormat(t, p) ==
    LET c == t[p.i]
    IN CASE c = "%" -> WebPercentCode(t, p)
         [] c = "^C" -> WebColourCode(t, p)
         [] c = "^D" -> WebHexCode(t, p)
         [] c = "^O" -> Styled(p, PlainStyle, 1)
         [] c = "^V" -> Put(p, <<>>, 1)
         [] c \in DOMAIN Control -> Styled(p, Toggle(p.style, Control[c]), 1)
         [] OTHER -> Put(p, <<c>>, 1)
StripFormat(t) == Text(Run(ParseFormat, t))

Found(p, piece) == [Flush(p) EXCEPT !.spans = Append(@, piece)]
(* A span of text is cut at what EndOf finds. *)
Cut(EndOf(_, _), kind, span) ==
    LET Step(t, p) ==
            IF EndOf(t, p.i) = 0 THEN Put(p, <<t[p.i]>>, 1)
            ELSE [Found(p, [text |-> SubSeq(t, p.i, EndOf(t, p.i)), style |-> span.style, kind |-> kind])
                    EXCEPT !.i = EndOf(t, p.i) + 1]
    IN IF span.kind # "text" THEN <<span>> ELSE RunFrom(Step, span.text, span.style).spans
CutAll(EndOf(_, _), kind, spans) == FlattenSeq([i \in DOMAIN spans |-> Cut(EndOf, kind, spans[i])])

Terminators == {" ", "<", ">", ")", "]", "}"}
MatchUrl(t, i) ==
    LET end == After(t, i + 1, alphabet \ Terminators) - 1
    IN IF t[i] = "http" /\ end > i THEN end ELSE 0
LinkifySpans(spans) == CutAll(MatchUrl, "link", spans)
EmotifySpans(spans) == CutAll(EmoteAt, "emote", spans)

WebLine(t) == Run(ParseFormat, t)
RenderMessageText(t) == EmotifySpans(LinkifySpans(WebLine(t).spans))

\* the links a preview is made for: detect.rs, extract_urls
Excluded == {" ", "<", ">", ")", "]"}
UrlRe(t, i) ==
    LET end == After(t, i + 1, alphabet \ Excluded) - 1
    IN IF t[i] = "http" /\ end > i THEN end ELSE 0
LinksOf(spans) == SelectSeq(spans, LAMBDA s : s.kind = "link")
ExtractUrls(t) == LinksOf(Cut(UrlRe, "link", [text |-> t, style |-> PlainStyle, kind |-> "text"]))

----------------------------------------------------------------------------

\* what a reader sees: each character in its style, an emote as one
Seen(spans) ==
    FlattenSeq([i \in DOMAIN spans |-> [j \in DOMAIN spans[i].text |-> <<spans[i].text[j], spans[i].style>>]])
Emotes(spans) == SelectSeq(spans, LAMBDA s : s.kind = "emote")
Texts(spans) == [i \in DOMAIN spans |-> spans[i].text]

(* What the terminal meets where one of its codes begins and the browser takes otherwise: the     *)
(* causes for which a text differs, and those for which only its colours do.                      *)
TextDiffersAt(t, i) ==
    LET n == NumberLength(t, i + 1)
    IN CASE t[i] = "%" -> \/ At(t, i + 1, DOMAIN Upper \cup {"|"} \cup Wide)
                          \/ At(t, i + 1, {"Z", "z"}) /\ Fits(t, i + 1) /\ ~ IsHex(t, i + 2)
         [] t[i] = "^C" -> n > 0 /\ At(t, i + 1 + n, {","}) /\ ~ CommaBeforeDigit(t, i + 1 + n)
         [] t[i] = "^D" -> /\ IsHex(t, i + 1) /\ At(t, i + 1 + HexDigits, {","})
                           /\ IsHex(t, i + 2 + HexDigits)
         [] OTHER -> t[i] = "^Q"
NoSuchColour(t, i) == NumberLength(t, i) > 0 /\ Number(t, i) >= PaletteSize
ColoursDifferAt(t, i) ==
    LET comma == i + 1 + NumberLength(t, i + 1)
    IN CASE t[i] = "^C" -> \/ NoSuchColour(t, i + 1)
                           \/ comma > i + 1 /\ CommaBeforeDigit(t, comma) /\ NoSuchColour(t, comma + 1)
         [] t[i] = "^D" -> ~ IsHex(t, i + 1)
         [] OTHER -> t[i] = "^V"
\* the bytes at which the terminal looks for a code
Looks(t) == {p.i : p \in Range(Steps(ParseFormatString, t, PlainStyle))} \cap DOMAIN t
Bytewise == Bytes(line)
TextsAgree == \A i \in Looks(Bytewise) : ~ TextDiffersAt(Bytewise, i)
ColoursAgree == \A i \in Looks(Bytewise) : ~ ColoursDifferAt(Bytewise, i)
Drawn == Run(ParseFormatString, Bytewise).spans

EmotesIn(t) == Len(SelectSeq(EmotifyMessageText(t), LAMBDA c : c = "emote"))
EmotesInLinks == FoldLeft(LAMBDA n, s : n + EmotesIn(s.text), 0, LinksOf(RenderMessageText(line)))

TypeOK ==
    /\ alphabet \in Alphabets /\ line \in Seq(alphabet) /\ Len(line) <= Bound
    /\ \A p \in {Run(ParseFormatString, Bytewise), WebLine(line)} :
          p.ok => p.i > Len(line) /\ p.text = <<>> /\ \A s \in ToSet(p.spans) : s.text # <<>>

(* A line without emotes is shown with the same text in the terminal and in the browser, but for  *)
(* a code of TextDiffersAt; and in the same colours and attributes, but for one of                *)
(* ColoursDifferAt (theme/parser.rs and web-ui/src/format.rs, two parsers in two crates).         *)
SameOnBothScreens ==
    TextsAgree => /\ Text([spans |-> Drawn]) = StripFormat(line)
                  /\ ColoursAgree => Seen(Drawn) = Seen(WebLine(line).spans)

(* The two parsers agree on every line (violated, by each of these codes).                        *)
ScreensAlwaysAgree == Seen(Drawn) = Seen(WebLine(line).spans)

(* What the browser cuts into links and emotes is, put together, the text that it parsed          *)
(* (linkify_spans, emotify_spans).                                                                *)
PiecesMakeTheLine == Seen(RenderMessageText(line)) = Seen(WebLine(line).spans)

(* The emotes that the terminal finds before the codes are parsed are those that the browser      *)
(* finds afterwards, and those inside of a link, where the browser looks for none; but for a code *)
(* of which one of the two keeps or drops the text (emotes/parse.rs: keep the two rules in        *)
(* lockstep).                                                                                     *)
SameEmotes ==
    TextsAgree /\ ColoursAgree => EmotesIn(line) = Len(Emotes(RenderMessageText(line))) + EmotesInLinks

(* The rules are in lockstep (violated: beside a link the terminal draws an emote that the        *)
(* browser does not).                                                                             *)
EmotesInLockstep == EmotesIn(line) = Len(Emotes(RenderMessageText(line)))

(* The terminal draws every line (theme/parser.rs, parse_format_string).                          *)
EveryLineIsDrawn == TerminalLine(line).ok

(* The browser links what the client makes a preview of (web-ui/src/format.rs, linkify_spans).    *)
SameLinks == Texts(LinksOf(RenderMessageText(line))) = Texts(ExtractUrls(line))

(* A topic reads the same in the terminal and in the browser (ui/topic_bar.rs, styled.rs).        *)
SameTopic == Text(TerminalTopic(line)) = StripFormat(line)
=============================================================================
