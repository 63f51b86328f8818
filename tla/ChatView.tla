------------------------------ MODULE ChatView ------------------------------
(***************************************************************************)
(* How the web client keeps the newest message in sight                    *)
(* (src/web-ui/src/components/chat_view.rs).  Nothing but this code scrolls*)
(* the list (the style sheet turns scroll anchoring off): effects and      *)
(* listeners ask for an animation frame, and the frame pins the list to    *)
(* its bottom.  The browser reports every change of scrollTop, the         *)
(* program's own too, with one scroll event at the beginning of the next   *)
(* frame, before the callbacks of that frame.                              *)
(*                                                                         *)
(* Lengths are counted in rows.                                            *)
(***************************************************************************)
EXTENDS Integers, FiniteSets

CONSTANTS SCROLL_THRESHOLD,
          Views,      \* heights of the window
          Growths,    \* heights of a message
          Card,       \* height of a preview once its image is loaded
          MaxHeight,  \* bound: of the list
          MaxSteps    \* bound

VARIABLES at,         \* is_at_bottom
          top,        \* scrollTop
          height,     \* scrollHeight
          view,       \* clientHeight
          event,      \* "none", or who caused the pending scroll event
          skip,       \* skip_next_scroll
          frames,     \* callbacks that wait for the next frame
          pinScheduled, resizeThrottle,
          missed,     \* history: a scroll of the user was not looked at
          left,       \* history: the user scrolled since the list was last pinned
                      \* for the user (a switch of buffers or the button)
          steps
vars == <<at, top, height, view, event, skip, frames, pinScheduled,
          resizeThrottle, missed, left, steps>>

Smaller(x, y) == IF x < y THEN x ELSE y
Bottom(h, v) == IF h > v THEN h - v ELSE 0
IsNearBottom(h, t, v) == h - t - v <= SCROLL_THRESHOLD
Near == IsNearBottom(height, top, view)
Step == steps < MaxSteps /\ steps' = steps + 1

(* The browser keeps scrollTop within the list and reports every change.   *)
Becomes(t, who) ==
    /\ top' = t
    /\ event' = IF t = top THEN event
                ELSE IF "user" \in {who, event} THEN "user" ELSE "program"

Init ==
    /\ at = TRUE /\ top = 0 /\ height = 0 /\ view \in Views
    /\ event = "none" /\ skip = FALSE /\ frames = {}
    /\ pinScheduled = FALSE /\ resizeThrottle = FALSE
    /\ missed = FALSE /\ left = FALSE /\ steps = 0

-----------------------------------------------------------------------------
(* The effect that follows the messages: one callback for a burst.         *)
SchedulePin(bottom) ==
    IF bottom /\ ~pinScheduled
    THEN pinScheduled' = TRUE /\ frames' = frames \cup {"pin"}
    ELSE UNCHANGED <<pinScheduled, frames>>

MessageArrives(n) ==
    /\ Step
    /\ height + n <= MaxHeight
    /\ height' = height + n
    /\ SchedulePin(at)
    /\ UNCHANGED <<at, top, view, event, skip, resizeThrottle, missed, left>>

(* The image of a preview is there: its own script looks where the list    *)
(* stands, reveals the card and scrolls, without asking for the next       *)
(* event to be skipped.                                                    *)
ImageLoads ==
    /\ Step
    /\ height + Card <= MaxHeight
    /\ height' = height + Card
    /\ IF Near THEN Becomes(Bottom(height + Card, view), "program")
       ELSE UNCHANGED <<top, event>>
    /\ UNCHANGED <<at, view, skip, frames, pinScheduled, resizeThrottle, missed, left>>

Dismiss ==
    /\ Step
    /\ height >= Card
    /\ height' = height - Card
    /\ Becomes(Smaller(top, Bottom(height - Card, view)), "program")
    /\ UNCHANGED <<at, view, skip, frames, pinScheduled, resizeThrottle, missed, left>>

Scroll(t) ==
    /\ Step
    /\ t # top
    /\ Becomes(t, "user")
    /\ left' = TRUE
    /\ UNCHANGED <<at, height, view, skip, frames, pinScheduled, resizeThrottle, missed>>

(* Another buffer: its list takes the place of the old one, and both the   *)
(* effect of the switch and that of the messages ask for a frame.          *)
SwitchBuffer(h) ==
    /\ Step
    /\ height' = h
    /\ Becomes(Smaller(top, Bottom(h, view)), "program")
    /\ at' = TRUE
    /\ pinScheduled' = TRUE
    /\ frames' = frames \cup {"switch", "pin"}
    /\ missed' = FALSE /\ left' = FALSE
    /\ UNCHANGED <<view, skip, resizeThrottle>>

Resize(v) ==
    /\ Step
    /\ view' = v
    /\ Becomes(Smaller(top, Bottom(height, v)), "program")
    /\ resizeThrottle' = TRUE
    /\ frames' = frames \cup {"resize"}
    /\ UNCHANGED <<at, height, skip, pinScheduled, missed, left>>

(* The button with the arrow.                                              *)
ClickBottom ==
    /\ Step
    /\ ~at
    /\ at' = TRUE
    /\ skip' = TRUE
    /\ Becomes(Bottom(height, view), "program")
    /\ missed' = FALSE /\ left' = FALSE
    /\ UNCHANGED <<height, view, frames, pinScheduled, resizeThrottle>>

-----------------------------------------------------------------------------
(* A frame: the scroll event, then the callbacks.                          *)
OnScroll(bottom) == IF event = "none" \/ skip THEN bottom ELSE Near

(* Mutant of Pins: the callback does not look again where the user is.     *)
PinsAnyway(callbacks, bottom) == callbacks # {}
Pins(callbacks, bottom) == "switch" \in callbacks \/ (callbacks # {} /\ bottom)

(* Mutant of StillScheduled: the mark of the callback stays when it does not pin. *)
KeptIfNotPinned(pins) == pinScheduled /\ ~pins
StillScheduled(pins) == FALSE

Frame ==
    LET bottom == OnScroll(at)
        pins == Pins(frames, bottom)
    IN  /\ event # "none" \/ frames # {}
        /\ at' = bottom
        /\ top' = IF pins THEN Bottom(height, view) ELSE top
        /\ event' = IF top' # top THEN "program" ELSE "none"
        /\ skip' = (pins \/ (skip /\ event = "none"))
        /\ frames' = {}
        /\ pinScheduled' = StillScheduled(pins)
        /\ resizeThrottle' = FALSE
        /\ missed' = (~pins /\ ((skip /\ event = "user")
                                \/ (missed /\ (skip \/ event = "none"))))
        /\ UNCHANGED <<height, view, left, steps>>

Next ==
    \/ \E n \in Growths : MessageArrives(n)
    \/ ImageLoads \/ Dismiss
    \/ \E t \in 0..Bottom(height, view) : Scroll(t)
    \/ \E h \in 0..MaxHeight : SwitchBuffer(h)
    \/ \E v \in Views \ {view} : Resize(v)
    \/ ClickBottom \/ Frame

Spec == Init /\ [][Next]_vars

-----------------------------------------------------------------------------
(* The list is scrolled within its bounds.                                 *)
TypeOK ==
    /\ {at, skip, pinScheduled, resizeThrottle, missed, left} \subseteq BOOLEAN
    /\ view \in Views /\ height \in 0..MaxHeight /\ top \in 0..Bottom(height, view)
    /\ event \in {"none", "user", "program"}
    /\ frames \subseteq {"switch", "pin", "resize"}
    /\ "pin" \in frames => pinScheduled

(* Who is taken to be at the bottom sees it once the frames are drawn,     *)
(* unless a scroll of the user was skipped.                                *)
FollowersAreServed ==
    at /\ ~missed /\ frames = {} /\ event = "none" => Near

ReadersStayStep ==
  ~OnScroll(at) /\ "switch" \notin frames /\ Frame => top' = top
(* Messages, images and the window never move somebody who reads further   *)
(* up: once that is known, only a switch of buffers or the button does.    *)
ReadersStay == [][ReadersStayStep]_vars

(* Violated: a pin that does not move the list causes no event, and the    *)
(* next one, the user's, is skipped instead.                               *)
ScrollsAreHonoured == [][Frame => ~(event = "user" /\ skip)]_vars

(* Violated: whoever did not scroll since a switch keeps following; the    *)
(* event of an image or of the window is measured after a new message.     *)
NobodyIsLeftBehind == ~left => at
=============================================================================
