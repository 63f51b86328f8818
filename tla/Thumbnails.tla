----------------------------- MODULE Thumbnails -----------------------------
(***************************************************************************)
(* The thumbnails of the web pages: the registry that a broadcast message  *)
(* fills with the hashes of its links, and the requests of the browsers    *)
(* that read a thumbnail from the cache or fetch, write and prune it.  A   *)
(* link stands for its hash.                                               *)
(***************************************************************************)
EXTENDS Naturals, FiniteSets, Sequences, SequencesExt

CONSTANTS Links, Direct,            \* links; those a browser fetches by itself
          Readers,                  \* requests that may be served at the same time
          MAX_REGISTRY_ENTRIES, MaxPerMessage,
          CacheMax,                 \* the files the cache may hold
          MaxMessages, MaxRequests, MaxFaults

VARIABLES registry, shown,          \* hashes known; the links of the last message
          request,                  \* [at, link, fd, got]: what its browser got, at last
          holds,                    \* name -> none, part, whole or torn
          dir,                      \* the names in the cache directory, by time of last write
          prune,                    \* of a request that prunes: [list, over]
          messages, requests, faults
vars == <<registry, shown, request, holds, dir, prune, messages, requests, faults>>

ThumbnailsAssumption ==
  /\ IsFiniteSet(Links) /\ "none" \notin Links
  /\ {MAX_REGISTRY_ENTRIES, MaxPerMessage, CacheMax, MaxMessages, MaxRequests, MaxFaults} \subseteq Nat
  /\ MAX_REGISTRY_ENTRIES > 0

(* A link has a name in the cache, <hash>.jpg, and one that is written first, <hash>.jpg.tmp.      *)
Names == Links \X {"file", "tmp"}
File(u) == <<u, "file">>
Tmp(u) == <<u, "tmp">>
(* What a file holds: it is torn, a part or a mixture it may be, from when it was begun by one     *)
(* request while another for the same link had not yet renamed its own.                            *)
Contents == {"none", "part", "whole", "torn"}
Phases == {"idle", "read", "fetch", "write", "rename", "prune", "remove"}
Requests == [at : Phases, link : Links \cup {"none"}, fd : {"none", "tmp", "file", "gone"},
             got : Contents]
Idle(got) == [at |-> "idle", link |-> "none", fd |-> "none", got |-> got]
NoPrune == [list |-> << >>, over |-> 0]
TypeOK ==
  /\ registry \subseteq Links /\ Cardinality(registry) <= MAX_REGISTRY_ENTRIES
  /\ Len(shown) <= MaxPerMessage /\ IsInjective(shown)
  /\ request \in [Readers -> Requests]
  /\ holds \in [Names -> Contents]
  /\ IsInjective(dir) /\ ToSet(dir) = {n \in Names : holds[n] # "none"}
  /\ prune \in [Readers -> [list : Seq(Names), over : Int]]
  /\ messages \in 0..MaxMessages /\ requests \in 0..MaxRequests /\ faults \in 0..MaxFaults

Init ==
  /\ registry = {} /\ shown = << >> /\ request = [r \in Readers |-> Idle("none")]
  /\ holds = [n \in Names |-> "none"] /\ dir = << >> /\ prune = [r \in Readers |-> NoPrune]
  /\ messages = 0 /\ requests = 0 /\ faults = 0

(* The links of a message are entered one by one, each once and no more than MaxPerMessage; a full *)
(* registry starts anew, and a request may come in between.                                        *)
Entered(reg, u) ==
  IF u \in Direct THEN reg
  ELSE IF Cardinality(reg) >= MAX_REGISTRY_ENTRIES THEN {u} ELSE reg \cup {u}
Classify(u, before) ==
  /\ Len(before) < MaxPerMessage /\ u \notin ToSet(before)
  /\ shown' = Append(before, u) /\ registry' = Entered(registry, u)
  /\ UNCHANGED <<request, holds, dir, prune, requests, faults>>
ExtractFirst(u) == messages < MaxMessages /\ messages' = messages + 1 /\ Classify(u, << >>)
ExtractNext(u) == shown # << >> /\ UNCHANGED messages /\ Classify(u, shown)

Same == UNCHANGED <<registry, shown, messages>>
At(r, s) == request[r].at = s
Goes(r, s) == request' = [request EXCEPT ![r].at = s]

(* A request whose hash is not registered is answered 404.                                         *)
PreviewHandler(r, u) ==
  /\ At(r, "idle") /\ requests < MaxRequests /\ requests' = requests + 1
  /\ u \in registry
  /\ request' = [request EXCEPT ![r] = [at |-> "read", link |-> u, fd |-> "none", got |-> "none"]]
  /\ UNCHANGED <<holds, dir, prune, faults>> /\ Same
ReadCache(r) ==
  /\ At(r, "read")
  /\ LET f == holds[File(request[r].link)]
     IN  IF f = "none" THEN Goes(r, "fetch") ELSE request' = [request EXCEPT ![r] = Idle(f)]
  /\ UNCHANGED <<holds, dir, prune, requests, faults>> /\ Same
FetchFails(r) ==
  /\ At(r, "fetch") /\ request' = [request EXCEPT ![r] = Idle("none")]
  /\ UNCHANGED <<holds, dir, prune, requests, faults>> /\ Same

(* A name that is written is the newest; one that is renamed keeps the time of the old one.        *)
Without(s, n) ==
  IF n \in ToSet(s) THEN RemoveAt(s, CHOOSE i \in DOMAIN s : s[i] = n) ELSE s
Newest(n) == Append(Without(dir, n), n)
Renamed(u) ==
  LET rest == Without(dir, File(u))
  IN  [i \in DOMAIN rest |-> IF rest[i] = Tmp(u) THEN File(u) ELSE rest[i]]

(* write_cache: the temporary file is created or emptied, filled, and renamed.  Whoever still      *)
(* writes a file that is renamed, replaced or removed goes on writing it; whoever comes to the     *)
(* rename renames what is there, of whichever request for the link.                                *)
Stores(r, u) == request[r].link = u /\ request[r].at \in {"write", "rename"}
Begun(r, u) == IF \E x \in Readers \ {r} : Stores(x, u) THEN "torn" ELSE "part"
(* Mutant of WriteBegins: the file itself is written. *)
WriteInPlace(r) ==
  /\ At(r, "fetch") /\ request' = [request EXCEPT ![r].at = "write", ![r].fd = "file"]
  /\ holds' = [holds EXCEPT ![File(request[r].link)] = "part"]
  /\ dir' = Newest(File(request[r].link))
  /\ UNCHANGED <<prune, requests, faults>> /\ Same
WriteBegins(r) ==
  /\ At(r, "fetch") /\ request' = [request EXCEPT ![r].at = "write", ![r].fd = "tmp"]
  /\ holds' = [holds EXCEPT ![Tmp(request[r].link)] = Begun(r, request[r].link)]
  /\ dir' = Newest(Tmp(request[r].link))
  /\ UNCHANGED <<prune, requests, faults>> /\ Same
WriteEnds(r) ==
  LET n == <<request[r].link, request[r].fd>> IN
  /\ At(r, "write") /\ Goes(r, "rename")
  /\ IF n \in Names
     THEN /\ holds' = [holds EXCEPT ![n] = IF holds[n] = "torn" THEN "torn" ELSE "whole"]
          /\ dir' = Newest(n)
     ELSE UNCHANGED <<holds, dir>>
  /\ UNCHANGED <<prune, requests, faults>> /\ Same

(* The browser gets the thumbnail also when it was not stored, and a prune follows.                *)
Prunes(q, r) == [q EXCEPT ![r] = [at |-> "prune", link |-> "none", fd |-> "none", got |-> "whole"]]
WriteFails(r) ==
  /\ At(r, "fetch") \/ At(r, "write")
  /\ request' = Prunes(request, r)
  /\ UNCHANGED <<holds, dir, prune, requests, faults>> /\ Same
Reopened(q, n, fd) ==
  [r \in Readers |-> IF q[r].at = "write" /\ <<q[r].link, q[r].fd>> = n
                     THEN [q[r] EXCEPT !.fd = fd] ELSE q[r]]
Rename(r) ==
  LET u == request[r].link IN
  /\ At(r, "rename")
  /\ IF holds[Tmp(u)] = "none" THEN request' = Prunes(request, r) /\ UNCHANGED <<holds, dir>>
     ELSE /\ request' = Prunes(Reopened(Reopened(request, File(u), "gone"), Tmp(u), "file"), r)
          /\ holds' = [n \in Names |-> IF n = File(u) THEN holds[Tmp(u)]
                                   ELSE IF n = Tmp(u) THEN "none" ELSE holds[n]]
          /\ dir' = Renamed(u)
  /\ UNCHANGED <<prune, requests, faults>> /\ Same

(* prune_cache, a task of its own: the directory is listed, then the oldest names are removed      *)
(* until the rest of the list fits; one that is no longer there does not count.                    *)
PruneReads(r) ==
  /\ At(r, "prune") /\ Goes(r, "remove")
  /\ prune' = [prune EXCEPT ![r] = [list |-> dir, over |-> Len(dir) - CacheMax]]
  /\ UNCHANGED <<holds, dir, requests, faults>> /\ Same
PruneRemoves(r) ==
  LET p == prune[r]   n == Head(p.list) IN
  /\ At(r, "remove") /\ p.over > 0 /\ p.list # << >>
  /\ IF holds[n] = "none"
     THEN /\ prune' = [prune EXCEPT ![r] = [list |-> Tail(p.list), over |-> p.over]]
          /\ UNCHANGED <<request, holds, dir>>
     ELSE /\ prune' = [prune EXCEPT ![r] = [list |-> Tail(p.list), over |-> p.over - 1]]
          /\ holds' = [holds EXCEPT ![n] = "none"] /\ dir' = Without(dir, n)
          /\ request' = Reopened(request, n, "gone")
  /\ UNCHANGED <<requests, faults>> /\ Same
PruneEnds(r) ==
  /\ At(r, "remove") /\ (prune[r].over <= 0 \/ prune[r].list = << >>)
  /\ request' = [request EXCEPT ![r] = Idle("whole")]
  /\ prune' = [prune EXCEPT ![r] = NoPrune]
  /\ UNCHANGED <<holds, dir, requests, faults>> /\ Same

Crash ==
  /\ faults < MaxFaults /\ faults' = faults + 1
  /\ registry' = {} /\ shown' = << >>
  /\ request' = [r \in Readers |-> Idle("none")] /\ prune' = [r \in Readers |-> NoPrune]
  /\ UNCHANGED <<holds, dir, messages, requests>>

Next ==
  \/ \E u \in Links : ExtractFirst(u) \/ ExtractNext(u)
  \/ \E r \in Readers :
       \/ \E u \in Links : PreviewHandler(r, u)
       \/ ReadCache(r) \/ FetchFails(r) \/ WriteBegins(r) \/ WriteEnds(r) \/ WriteFails(r)
       \/ Rename(r) \/ PruneReads(r) \/ PruneRemoves(r) \/ PruneEnds(r)
  \/ Crash
Spec == Init /\ [][Next]_vars
-----------------------------------------------------------------------------
(* A browser, which keeps a thumbnail for a day, is never served a part of one: the file is        *)
(* written apart and renamed, through failed writes, crashes, pruning and requests for other       *)
(* links.  The one way to a file that is not whole is two requests that write the same link.       *)
ThumbnailsAreWhole == \A r \in Readers : request[r].got # "part"

(* The code does not give this: two requests for a link share its temporary file, so one renames   *)
(* what the other has only begun.                                                                  *)
NothingIsTorn == \A r \in Readers : request[r].got # "torn"

(* When every request and prune is done the cache is within its limit, unless a crash cut the last *)
(* prune short.                                                                                    *)
CacheIsBounded ==
  faults = 0 /\ (\A r \in Readers : At(r, "idle")) => Len(dir) <= CacheMax

(* The code does not give this: only very old messages may show a broken thumbnail.  A registry    *)
(* that fills up within a message forgets the first links of that same message.                    *)
NewThumbnailsWork == ToSet(shown) \ Direct \subseteq registry
=============================================================================
