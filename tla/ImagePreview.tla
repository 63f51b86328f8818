---------------------------- MODULE ImagePreview ----------------------------
(***************************************************************************)
(* The picture shown over the chat: /preview and clicks on links, the tasks*)
(* that look a link up in the cache or fetch and store it, the events by   *)
(* which the main loop learns of their results, and the graphics that a    *)
(* terminal under tmux keeps until they are cleared.                       *)
(***************************************************************************)
EXTENDS Naturals, FiniteSets, Sequences

CONSTANTS Urls,
          Large,          \* those whose popup is larger than the others'
          Protocols,      \* of the terminal: "kitty" or "iterm2"
          OneAtATime,     \* the user dismisses a preview before opening another
          MaxShows, MaxFaults

VARIABLES preview,        \* [kind, url, written]: App::image_preview
          asked,          \* the link the user wants to see, or "none"
          tasks,          \* running tasks: id -> [url, at, data]
          events,         \* results under way to the main loop
          file,           \* the cache: url -> "none", "part" (of a picture) or "whole"
          screen,         \* pictures on the terminal
          protocol, shows, faults
vars == <<preview, asked, tasks, events, file, screen, protocol, shows, faults>>

ImageAssumption ==
  /\ MaxShows \in Nat /\ MaxFaults \in Nat /\ OneAtATime \in BOOLEAN /\ "none" \notin Urls
Ids == 1..MaxShows
Hidden == [kind |-> "hidden", url |-> "none", written |-> FALSE]
Status(k, u) == [kind |-> k, url |-> u, written |-> FALSE]
Stages == {"look", "get", "store", "decode"}

TypeOK ==
  /\ preview.kind \in {"hidden", "loading", "ready", "error"} /\ preview.url \in Urls \cup {"none"}
  /\ preview.written \in BOOLEAN /\ asked \in Urls \cup {"none"}
  /\ DOMAIN tasks \subseteq Ids
  /\ \A t \in DOMAIN tasks : /\ tasks[t].url \in Urls /\ tasks[t].at \in Stages
                             /\ tasks[t].data \in {"none", "part", "whole"}
  /\ Len(events) <= MaxShows /\ file \in [Urls -> {"none", "part", "whole"}]
  /\ screen \subseteq Urls
  /\ shows \in 0..MaxShows /\ faults \in 0..MaxFaults

Init ==
  /\ preview = Hidden /\ asked = "none" /\ tasks = << >> /\ events = << >>
  /\ file = [u \in Urls |-> "none"] /\ screen = {} /\ protocol \in Protocols
  /\ shows = 0 /\ faults = 0

(* A link that is loading or shown already is left alone; another takes its place.                 *)
ShowImagePreview(u) ==
  /\ shows < MaxShows /\ shows' = shows + 1
  /\ OneAtATime => preview.kind = "hidden"
  /\ asked' = u
  /\ IF preview.kind \in {"loading", "ready"} /\ preview.url = u
     THEN UNCHANGED <<preview, tasks>>
     ELSE /\ preview' = Status("loading", u)
          /\ tasks' = [t \in DOMAIN tasks \cup {shows + 1} |->
               IF t = shows + 1 THEN [url |-> u, at |-> "look", data |-> "none"] ELSE tasks[t]]
  /\ UNCHANGED <<events, file, screen, protocol, faults>>

(* Kitty deletes every picture; otherwise the popup's own area is blanked.                         *)
Covers(u) == IF u \in Large THEN Urls ELSE Urls \ Large
CleanupImageGraphics(p) ==
  IF p.kind # "ready" THEN {}
  ELSE IF protocol = "kitty" THEN screen ELSE screen \cap Covers(p.url)
Cleared(p) == CleanupImageGraphics(p)
DismissImagePreview ==
  /\ preview.kind # "hidden"
  /\ screen' = screen \ Cleared(preview)
  /\ preview' = Hidden /\ asked' = "none"
  /\ UNCHANGED <<tasks, events, file, protocol, shows, faults>>

(* After a frame the picture is written past tmux, once.                                           *)
WriteTmuxDirectImage ==
  /\ preview.kind = "ready" /\ ~preview.written
  /\ preview' = [preview EXCEPT !.written = TRUE]
  /\ screen' = screen \cup {preview.url}
  /\ UNCHANGED <<asked, tasks, events, file, protocol, shows, faults>>

(* A result for a link that is not awaited any more is dropped.                                    *)
(* Mutant of Awaited: the result of an earlier link is taken too. *)
AnyResult(e) == preview.kind = "loading"
Awaited(e) == preview.kind = "loading" /\ preview.url = e.url
HandlePreviewEvent ==
  /\ events # << >> /\ events' = Tail(events)
  /\ preview' = IF Awaited(Head(events)) THEN Status(Head(events).kind, Head(events).url)
                ELSE preview
  /\ UNCHANGED <<asked, tasks, file, screen, protocol, shows, faults>>
-----------------------------------------------------------------------------
(* The task of a preview.                                                                          *)
Ends(t, k) ==
  /\ tasks' = [x \in DOMAIN tasks \ {t} |-> tasks[x]]
  /\ events' = Append(events, [kind |-> k, url |-> tasks[t].url])
At(t, s) == tasks[t].at = s
Others(t) == {x \in DOMAIN tasks \ {t} : tasks[x].url = tasks[t].url /\ At(x, "store")}
Rest == UNCHANGED <<preview, asked, screen, protocol, shows>>

IsCached(t) ==
  /\ At(t, "look")
  /\ LET f == file[tasks[t].url] IN
     tasks' = [tasks EXCEPT ![t].at = IF f = "none" THEN "get" ELSE "decode", ![t].data = f]
  /\ UNCHANGED <<events, file, faults>> /\ Rest
(* Fetched within the time allowed; the file is created, then filled.                              *)
FetchImage(t) ==
  /\ At(t, "get") /\ tasks' = [tasks EXCEPT ![t].at = "store", ![t].data = "whole"]
  /\ file' = [file EXCEPT ![tasks[t].url] = "part"]
  /\ UNCHANGED <<events, faults>> /\ Rest
(* Mutant of FetchFails: the task ends without a word. *)
FetchStops(t) ==
  /\ At(t, "get") /\ faults < MaxFaults /\ faults' = faults + 1
  /\ tasks' = [x \in DOMAIN tasks \ {t} |-> tasks[x]]
  /\ UNCHANGED <<events, file>> /\ Rest
FetchFails(t) ==
  /\ At(t, "get") /\ faults < MaxFaults /\ faults' = faults + 1 /\ Ends(t, "error")
  /\ UNCHANGED file /\ Rest
(* A full disk leaves what was written; the picture is shown all the same.                         *)
Store(t) ==
  /\ At(t, "store") /\ tasks' = [tasks EXCEPT ![t].at = "decode"]
  /\ \/ /\ file' = [file EXCEPT ![tasks[t].url] =
                      IF @ = "none" THEN @ ELSE IF Others(t) = {} THEN "whole" ELSE "part"]
        /\ UNCHANGED faults
     \/ faults < MaxFaults /\ faults' = faults + 1 /\ UNCHANGED file
  /\ UNCHANGED events /\ Rest
DecodeAndEncode(t) ==
  /\ At(t, "decode") /\ Ends(t, IF tasks[t].data = "whole" THEN "ready" ELSE "error")
  /\ UNCHANGED <<file, faults>> /\ Rest
TaskStep(t) ==
  IsCached(t) \/ FetchImage(t) \/ FetchFails(t) \/ Store(t) \/ DecodeAndEncode(t)

(* /image clear and /image cleanup; the process is killed.                                         *)
Cleanup(U) ==
  /\ \E u \in U : file[u] # "none"
  /\ file' = [u \in Urls |-> IF u \in U THEN "none" ELSE file[u]]
  /\ UNCHANGED <<tasks, events, faults>> /\ Rest
Crash ==
  /\ faults < MaxFaults /\ faults' = faults + 1
  /\ preview' = Hidden /\ asked' = "none" /\ tasks' = << >> /\ events' = << >> /\ screen' = {}
  /\ UNCHANGED <<file, protocol, shows>>

Next ==
  \/ \E u \in Urls : ShowImagePreview(u)
  \/ DismissImagePreview \/ WriteTmuxDirectImage \/ HandlePreviewEvent
  \/ \E t \in DOMAIN tasks : TaskStep(t)
  \/ \E U \in (SUBSET Urls) \ {{}} : Cleanup(U)
  \/ Crash
Spec == Init /\ [][Next]_vars
FairSpec ==
  /\ Spec /\ WF_vars(HandlePreviewEvent)
  /\ \A t \in Ids : WF_vars(t \in DOMAIN tasks /\ TaskStep(t))
-----------------------------------------------------------------------------
(* What is shown is what was asked for last: no late result of an earlier link, or of one that was *)
(* dismissed, takes its place.                                                                     *)
ShownIsAsked == preview.url = asked

(* A dismissed preview leaves nothing on the terminal, for a user who dismisses one before opening *)
(* the next.                                                                                       *)
NothingLeftOnScreen == OneAtATime /\ preview.kind = "hidden" => screen = {}

(* "Loading" ends: in a picture, in an error, or because the user dismissed it.                    *)
LoadingEnds == preview.kind = "loading" ~> preview.kind # "loading"

(* The code does not give these: a crash or a full disk leaves a part of a picture in the cache,   *)
(* which is what the link then shows as an error; and a preview opened over another leaves that    *)
(* one's graphics behind.                                                                          *)
CachedFilesAreWhole ==
  \A u \in Urls : file[u] = "part" =>
    \E t \in DOMAIN tasks : tasks[t].url = u /\ At(t, "store")
ScreenIsTidy == preview.kind = "hidden" => screen = {}
=============================================================================
