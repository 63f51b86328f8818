----------------------------- MODULE KeyringFile -----------------------------
(***************************************************************************)
(* /e2e export and /e2e import: the keyring written to a file and the      *)
(* keyring replaced by one (src/src/e2e/portable.rs).  An export goes to a *)
(* temporary file that is renamed; an import validates the whole document  *)
(* and replaces every table in one transaction.  The recipients of our key *)
(* are not in the file, and the controller keeps the identity it loaded    *)
(* when the program started.                                               *)
(*                                                                         *)
(* One conversation.  A keyring is its identity, the status of each peer   *)
(* and of the session it sent us, our key with its flag, the recipients    *)
(* of our key, and the mode.                                               *)
(***************************************************************************)
EXTENDS Naturals, FiniteSets

CONSTANTS Peers, Mine, Other,   \* the others; two identities
          MaxKey, MaxSteps      \* bounds

VARIABLES ring,     \* the tables
          memory,   \* the identity the controller signs with
          file,     \* the file, NoFile without one
          temp,     \* the document being written, NoFile when none is
          reads,    \* history: the last key of ours each peer received
          asked,    \* history: the peers that asked for our key
          saved,    \* history: the tables at the last finished export
          restored, \* history: the tables an import of that file left
          steps
vars == <<ring, memory, file, temp, reads, asked, saved, restored, steps>>

NoIdentity == "none"
KeyringFileAssumption ==
    /\ NoIdentity \notin {Mine, Other}
    /\ MaxKey \in Nat \ {0} /\ MaxSteps \in Nat

Statuses == {"pending", "trusted", "revoked"}
Modes == {"auto-accept", "normal", "quiet"}
Rings == [identity : {Mine, Other, NoIdentity},
          peers : [Peers -> Statuses \cup {"none"}],
          sessions : [Peers -> Statuses \cup {"none"}],
          key : 0..MaxKey, rotate : BOOLEAN,
          recipients : SUBSET Peers, mode : Modes]
NoRing == [identity |-> NoIdentity, peers |-> [p \in Peers |-> "none"],
           sessions |-> [p \in Peers |-> "none"], key |-> 0, rotate |-> FALSE,
           recipients |-> {}, mode |-> "normal"]

(* A document: what is written, whether it is all there and whether its    *)
(* rows have distinct keys.                                                *)
Document(r, whole, distinct) == [ring |-> r, whole |-> whole, distinct |-> distinct]
NoFile == Document(NoRing, FALSE, FALSE)

(* build_portable and validate: every row goes through its text and back;  *)
(* the recipients are left out.                                            *)
ParseTrustStatus(s) == s
Parsed(s) == ParseTrustStatus(s)
BuildPortable(r) == [r EXCEPT !.recipients = {}]
Validate(r) == [r EXCEPT !.peers = [p \in Peers |-> Parsed(r.peers[p])],
                         !.sessions = [p \in Peers |-> Parsed(r.sessions[p])]]

Init ==
    /\ ring = [NoRing EXCEPT !.identity = Mine] /\ memory = Mine
    /\ file = NoFile /\ temp = NoFile /\ reads = [p \in Peers |-> 0]
    /\ asked = {} /\ saved = NoRing /\ restored = NoRing /\ steps = 0

Step == steps < MaxSteps /\ steps' = steps + 1
Idle == temp = NoFile
Files == <<file, temp, saved, restored>>

(* What the conversation does to the keyring in between.                   *)
Learn(p, s) ==
    /\ Step /\ Idle /\ s # ring.peers[p]
    /\ ring' = [ring EXCEPT !.peers[p] = s, !.sessions[p] = s,
                            !.rotate = @ \/ (s = "revoked" /\ ring.key # 0),
                            !.recipients = IF s = "revoked" THEN @ \ {p} ELSE @]
    /\ asked' = IF s = "revoked" THEN asked \ {p} ELSE asked
    /\ UNCHANGED <<memory, Files, reads>>
GetOrGenerateOutgoingKey ==
    IF ring.key = 0 \/ ring.rotate THEN ring.key + 1 ELSE ring.key
HandleKeyreq(p) ==
    /\ Step /\ Idle /\ ring.peers[p] = "trusted"
    /\ GetOrGenerateOutgoingKey <= MaxKey
    /\ ring' = [ring EXCEPT !.key = GetOrGenerateOutgoingKey, !.rotate = FALSE,
                            !.recipients = @ \cup {p}]
    /\ reads' = [q \in Peers |-> IF q \in ring.recipients \cup {p}
                                 THEN GetOrGenerateOutgoingKey ELSE reads[q]]
    /\ asked' = asked \cup {p}
    /\ UNCHANGED <<memory, Files>>
(* A line of ours: a flagged key is replaced first and sent to the         *)
(* recipients.                                                             *)
SendLine ==
    /\ Step /\ Idle /\ GetOrGenerateOutgoingKey # ring.key
    /\ GetOrGenerateOutgoingKey <= MaxKey
    /\ ring' = [ring EXCEPT !.key = GetOrGenerateOutgoingKey, !.rotate = FALSE]
    /\ reads' = [q \in Peers |-> IF q \in ring.recipients
                                 THEN GetOrGenerateOutgoingKey ELSE reads[q]]
    /\ UNCHANGED <<memory, Files, asked>>
SetMode(m) == /\ Step /\ Idle /\ m # ring.mode /\ ring' = [ring EXCEPT !.mode = m]
              /\ UNCHANGED <<memory, Files, reads, asked>>

-----------------------------------------------------------------------------
(* write_private_file: the temporary file, then the rename.  A write or a  *)
(* rename that fails leaves the file as it was; so does a crash.           *)
Opened(doc) == file
(* Mutant of Target: the document is written in place.                     *)
OpenedInPlace(doc) == [doc EXCEPT !.whole = FALSE]
Target(doc) == Opened(doc)
ExportBegins ==
    /\ Step /\ Idle
    /\ temp' = Document(BuildPortable(ring), TRUE, TRUE)
    /\ file' = Target(temp')
    /\ UNCHANGED <<ring, memory, reads, asked, saved, restored>>
ExportEnds ==
    /\ ~Idle /\ file' = temp /\ temp' = NoFile /\ saved' = ring /\ restored' = NoRing
    /\ UNCHANGED <<ring, memory, reads, asked, steps>>
ExportFails ==
    /\ ~Idle /\ temp' = NoFile
    /\ UNCHANGED <<ring, memory, file, reads, asked, saved, restored, steps>>

(* The user puts another file in its place: the keyring of another         *)
(* machine, or one with the same row twice.                                *)
OtherFile(distinct) ==
    /\ Step /\ Idle
    /\ file' = Document([NoRing EXCEPT !.identity = Other, !.key = 1], TRUE, distinct)
    /\ saved' = NoRing /\ restored' = NoRing
    /\ UNCHANGED <<ring, memory, temp, reads, asked>>

(* replace_all_for_import: every table is emptied and filled again; a row  *)
(* that cannot be inserted undoes all of it.                               *)
RolledBack == ring
AfterFailure == RolledBack
ReplaceAll(r) == Validate(r)
Replacement(r) == ReplaceAll(r)

ImportFromPath ==
    /\ Step /\ Idle /\ file.whole
    /\ ring' = IF file.distinct THEN Replacement(file.ring) ELSE AfterFailure
    /\ restored' = IF file.distinct /\ saved # NoRing THEN ring' ELSE restored
    /\ UNCHANGED <<memory, file, temp, reads, asked, saved>>

(* The program ends, perhaps in the middle of an export, and starts again: *)
(* the identity is read from the keyring.                                  *)
Restart ==
    /\ Step /\ memory' = ring.identity /\ temp' = NoFile
    /\ UNCHANGED <<ring, file, reads, asked, saved, restored>>

Next == \/ \E p \in Peers : HandleKeyreq(p) \/ \E s \in Statuses : Learn(p, s)
        \/ \E m \in Modes : SetMode(m)
        \/ SendLine \/ ExportBegins \/ ExportEnds \/ ExportFails
        \/ \E d \in BOOLEAN : OtherFile(d)
        \/ ImportFromPath \/ Restart
Spec == Init /\ [][Next]_vars

-----------------------------------------------------------------------------
TypeOK ==
    /\ ring \in Rings /\ memory \in {Mine, Other, NoIdentity}
    /\ file.ring \in Rings /\ temp.ring \in Rings
    /\ reads \in [Peers -> 0..MaxKey] /\ asked \subseteq Peers /\ steps \in 0..MaxSteps

(* The keyring always holds an identity, whatever import fails half way    *)
(* (replace_all_for_import empties the table of identities first).         *)
IdentityIsThere == ring.identity # NoIdentity

(* The file an export names is never a part of a document: a crash or a    *)
(* failure between opening and renaming leaves the one before.             *)
FileIsWhole == file # NoFile => file.whole

(* Importing what was exported gives back every table as it was exported,  *)
(* whatever was learned, revoked or rotated in between, except for the     *)
(* recipients, which no file holds.                                        *)
RestoreIsExact == restored # NoRing => restored = BuildPortable(saved)

(* The identity the controller signs with is the one of the keyring.       *)
SignsAsStored == memory = ring.identity

(* A peer that holds our key and was not revoked can read the line sent    *)
(* under the key that replaces it: it is a recipient.                      *)
HoldersGetTheNextKey ==
    [][ \A p \in asked : /\ reads[p] = ring.key /\ ring'.key = ring.key + 1
                         /\ ring'.identity = ring.identity /\ p \in asked'
                         => reads'[p] = ring'.key ]_vars
=============================================================================
