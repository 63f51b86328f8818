--------------------------- MODULE UrlShortening ----------------------------
(***************************************************************************)
(* What the shortener does to one line: the URLs it finds, the answers it  *)
(* gets for them from the cache or from the service, each of which may     *)
(* fail, and the substitution.  A line is a sequence of symbols: "h" the   *)
(* scheme and host of a URL, "a" any character of a path, "." a trailing   *)
(* mark, "(" a bracket, "_" white space; "S" stands for a short URL.       *)
(***************************************************************************)
EXTENDS Integers, Sequences, SequencesExt, FiniteSets

CONSTANTS Texts,     \* the lines considered
          MinLength, \* shrink.min_url_length
          CacheCap   \* shrink.cache_max_entries

VARIABLES
    pendingText, \* lines still to come
    lineIn, lineOut, \* the last line before and after the substitution
    failures,    \* the URLs of it that could not be shortened
    urlCache,    \* the cache, from the least to the most recently used
    uses         \* every look-up that ended with the URL in the cache, in order

urlVars == <<pendingText, lineIn, lineOut, failures, urlCache, uses>>

\* maximal runs, from a scheme on, of symbols a URL may contain
UrlSymbols == {"h", "a", "."}
StopsAt(text, i, symbols) ==
    CHOOSE j \in i..Len(text) + 1 :
        /\ \A k \in i..j - 1 : text[k] \in symbols
        /\ j = Len(text) + 1 \/ text[j] \notin symbols
Starts(text) == SetToSortSeq({i \in DOMAIN text : text[i] = "h" /\ (i = 1 \/ text[i - 1] \notin UrlSymbols)}, <)
RECURSIVE TrimEnd(_)
TrimEnd(url) == IF url # <<>> /\ Last(url) = "." THEN TrimEnd(Front(url)) ELSE url

\* the distinct long URLs, in the order of their first appearance
FindLongUrls(text) ==
    LET url(i) == TrimEnd(SubSeq(text, i, StopsAt(text, i, UrlSymbols) - 1))
    IN  FoldLeft(LAMBDA out, i :
            IF Len(url(i)) < MinLength \/ url(i) \in Range(out) THEN out ELSE Append(out, url(i)),
            <<>>, Starts(text))

RECURSIVE Replace(_, _)
Replace(url, text) ==
    IF Len(text) < Len(url) THEN text
    ELSE IF SubSeq(text, 1, Len(url)) = url
         THEN <<"S">> \o Replace(url, SubSeq(text, Len(url) + 1, Len(text)))
         ELSE <<Head(text)>> \o Replace(url, Tail(text))

\* every occurrence of each answered URL is replaced, the longest URL first
(* Mutant of LongestFirst: the shortest link is replaced first. *)
Shortest(urls) == SetToSortSeq(urls, LAMBDA u, v : Len(u) < Len(v) \/ (Len(u) = Len(v) /\ u # v))
LongestFirst(urls) ==
    SetToSortSeq(urls, LAMBDA u, v : Len(u) > Len(v))
ApplySubstitutions(text, urls) ==
    FoldLeft(LAMBDA out, u : Replace(u, out), text, LongestFirst(urls))

----------------------------------------------------------------------------
(* The cache. *)

Without(cache, u) == SelectSeq(cache, LAMBDA v : v # u)
CacheGet(cache, u) == IF u \in Range(cache) THEN Append(Without(cache, u), u) ELSE cache
CacheInsert(cache, u) ==
    LET room == IF u \in Range(cache) \/ Len(cache) < CacheCap THEN Without(cache, u) ELSE Tail(cache)
    IN  Append(room, u)

\* hits come from the cache, the misses that the service answers enter it afterwards
ResolveShortenings(urls, failed) ==
    LET hits == SelectSeq(urls, LAMBDA u : u \in Range(urlCache))
        answered == SelectSeq(urls, LAMBDA u : u \notin Range(urlCache) \cup failed)
    IN  /\ urlCache' = FoldLeft(CacheInsert, FoldLeft(CacheGet, urlCache, hits), answered)
        /\ uses' = uses \o hits \o answered

ShrinkAndSubstitute(failed) ==
    /\ pendingText # <<>>
    /\ pendingText' = Tail(pendingText)
    /\ LET text == Head(pendingText)
           urls == FindLongUrls(text)
       IN  /\ failed \subseteq Range(urls) \ Range(urlCache)
           /\ ResolveShortenings(urls, failed)
           /\ lineIn' = text /\ failures' = failed
           /\ lineOut' = ApplySubstitutions(text, Range(urls) \ failed)

Init ==
    /\ pendingText \in [1..2 -> Texts]
    /\ lineIn = <<>> /\ lineOut = <<>> /\ failures = {} /\ urlCache = <<>> /\ uses = <<>>
Next == pendingText # <<>> /\ \E failed \in SUBSET Range(FindLongUrls(Head(pendingText))) : ShrinkAndSubstitute(failed)
Spec == Init /\ [][Next]_urlVars

----------------------------------------------------------------------------
(* Reference: what the reader of a line takes for a link, brackets included. *)
Links(text) ==
    {TrimEnd(SubSeq(text, i, StopsAt(text, i, UrlSymbols \cup {"(", "S"}) - 1)) :
        i \in {k \in DOMAIN text : text[k] \in {"h", "S"} /\ (k = 1 \/ text[k - 1] \notin UrlSymbols \cup {"(", "S"})}}
HasBracket(text) == "(" \in Range(text)

\* every link of the line is either an original one or a short one, never a mixture
LinksAreWhole == \A l \in Links(lineOut) : l = <<"S">> \/ l \in Links(lineIn)

(* The cache holds distinct URLs worth shortening, the failures are URLs of the line. *)
TypeOK ==
    /\ \A i, j \in DOMAIN urlCache : Len(urlCache[i]) >= MinLength /\ (urlCache[i] = urlCache[j] => i = j)
    /\ failures \subseteq Range(FindLongUrls(lineIn))

(* When every URL of a line is answered, none is cut, although one URL may be the beginning of  *)
(* another and stand in the line several times. *)
AnsweredLinksAreWhole == failures = {} /\ ~ HasBracket(lineIn) => LinksAreWhole

(* Longest first keeps a URL that begins like a shorter one from being cut, whatever fails. *)
LongestFirstIsEnough == ~ HasBracket(lineIn) => LinksAreWhole

(* A URL with brackets goes through unchanged. *)
BracketsGoThrough == \A l \in Links(lineIn) : "(" \in Range(l) => l \in Links(lineOut)

(* The cache holds the URLs used last. *)
Recent(u) == CHOOSE i \in DOMAIN uses : uses[i] = u /\ \A j \in DOMAIN uses : uses[j] = u => j <= i
CacheHoldsTheMostRecent ==
    /\ Len(urlCache) <= CacheCap /\ Range(urlCache) \subseteq Range(uses)
    /\ \A u \in Range(urlCache), v \in Range(uses) \ Range(urlCache) : Recent(v) < Recent(u)
=============================================================================
