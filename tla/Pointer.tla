------------------------------ MODULE Pointer ------------------------------
(***************************************************************************)
(* motion_notify() of events.c: the controller follows the pointer by the  *)
(* differences between motion events, and puts it back to the middle of    *)
(* the window when it comes near the edge, so that it can go on for ever.  *)
(*                                                                         *)
(* Two parties act.  The X server moves the pointer for the user and for   *)
(* XWarpPointer() and queues events; the controller handles them one by    *)
(* one.  A warp is a request: the server executes it some time later, and  *)
(* its own event comes behind those that are already queued.               *)
(*                                                                         *)
(* Positions are relative to the window.  A window that is moved, or        *)
(* resized from the left or the top, slides under a resting pointer: its   *)
(* position changes, but no event tells the new one.                       *)
(*                                                                         *)
(* Motion events carry how far the user moved the pointer, and how far the *)
(* window slid before that: the code has only the position.                *)
(***************************************************************************)
EXTENDS Integers, Sequences

CONSTANTS
    Sizes,     \* the sizes the window can have, as [x |-> width, y |-> height]
    Slides,    \* how far the window can slide under the pointer at once
    OobDiv,    \* OOB_DIV: 20
    OobMin,    \* OOB_MIN_PIXEL: 50
    Int8Mod,   \* the number of values of an int8_t: 256
    MaxMoves   \* bound on what the user does before the events have settled

Axes    == {"x", "y"}
Point   == [Axes -> Int]
Outside == [a \in Axes |-> -1]

ASSUME SizesAssumption == Sizes \subseteq [Axes -> Nat \ {0}] /\ Sizes # {}
ASSUME SlidesAssumption == Slides \subseteq Point
ASSUME OobAssumption == OobDiv \in Nat \ {0} /\ OobMin \in Nat
ASSUME Int8Assumption == Int8Mod \in Nat \ {0} /\ Int8Mod % 2 = 0
ASSUME MovesAssumption == MaxMoves \in Nat

VARIABLES
    window,     \* the size of the window, as the X server has it
    pointer,    \* the position of the pointer, Outside for all that are not in the window
    warps,      \* warps requested and not yet executed
    queue,      \* events on their way to the controller
    size,       \* win->width and win->height
    cursor,     \* win->cursor_x and win->cursor_y
    sent,       \* the distance last given to be->move()
    last,       \* history: the event handled last
    slid,       \* history: how far the window slid under the pointer since the
                \* last event with a position
    lost,       \* history: ... and then a warp led to where the pointer was, so
                \* that no event tells
    overtaken,  \* history: the user did something between a warp and its request
    moves       \* how often the user acted since the events settled last

server     == <<window, pointer>>
controller == <<size, cursor, sent, last>>
slide      == <<slid, lost>>
vars       == <<server, warps, queue, controller, slide, overtaken, moves>>

Zero      == [a \in Axes |-> 0]
Plus(p, q)  == [a \in Axes |-> p[a] + q[a]]
Minus(p, q) == [a \in Axes |-> p[a] - q[a]]
Inside(s) == {p \in [Axes -> 0..s.x + s.y] : \A a \in Axes : p[a] < s[a]}

Motion(p, d, s, who) == [type |-> "motion", at |-> p, moved |-> d, slid |-> s, by |-> who]
Enter(p)          == [type |-> "enter", at |-> p]
Configure(s)      == [type |-> "configure", size |-> s]
Events == [type : {"motion"}, at : Point, moved : Point, slid : Point,
           by : {"user", "program"}]
          \cup [type : {"enter"}, at : Point]
          \cup [type : {"configure"}, size : Sizes]

-----------------------------------------------------------------------------
\* CURSOR_OUT_OF_BOUNDS()
CursorOutOfBounds(val, max) ==
    LET share  == max \div OobDiv
        offset == IF share < OobMin THEN OobMin ELSE share
    IN  val < offset \/ val > max - offset

\* Mutant of Int8: the distance is kept modulo 256, without its sign.
Int8_Unsigned(d) == d % Int8Mod

\* An int stored in an int8_t.
Int8(d) == ((d + Int8Mod \div 2) % Int8Mod) - Int8Mod \div 2

\* The place for a pointer that is at p: p itself, or the middle of the window
\* on each axis on which p is near the edge.
Recentred(p, s) ==
    [a \in Axes |-> IF CursorOutOfBounds(p[a], s[a]) THEN s[a] \div 2 ELSE p[a]]

TypeOK ==
    /\ window \in Sizes /\ size \in Sizes
    /\ pointer \in Inside(window) \cup {Outside}
    /\ warps \in Seq(Point)
    /\ queue \in Seq(Events)
    /\ cursor \in Point
    /\ \A a \in Axes : sent[a] \in -(Int8Mod \div 2)..Int8Mod \div 2 - 1
    /\ last \in {"none", "user", "program", "enter", "configure"}
    /\ slid \in Point /\ lost \in BOOLEAN /\ overtaken \in BOOLEAN
    /\ moves \in 0..MaxMoves

\* malloc() leaves cursor_x and cursor_y as they are.
Init ==
    /\ window \in Sizes /\ size = window
    /\ pointer = Outside
    /\ warps = <<>> /\ queue = <<>>
    /\ cursor \in Inside(window)
    /\ sent = Zero /\ last = "none"
    /\ slid = Zero /\ lost = FALSE /\ overtaken = FALSE /\ moves = 0

-----------------------------------------------------------------------------
(* The X server: the user moves the pointer, moves or resizes the window,   *)
(* and warps are executed.                                                 *)

\* The position of the pointer is told by an event, or it is not in the window.
Told == slid' = Zero /\ lost' = FALSE

UserActs ==
    /\ moves < MaxMoves /\ moves' = moves + 1
    /\ UNCHANGED <<warps, controller>>

UserMoves ==
    /\ UserActs
    /\ pointer # Outside
    /\ \E p \in Inside(window) \ {pointer} :
          /\ pointer' = p
          /\ queue' = Append(queue, Motion(p, Minus(p, pointer), slid, "user"))
    /\ Told
    /\ overtaken' = (overtaken \/ warps # <<>>)
    /\ UNCHANGED window

\* Also by a window that is moved to where the pointer is.
UserEnters ==
    /\ UserActs
    /\ pointer = Outside
    /\ \E p \in Inside(window) :
          pointer' = p /\ queue' = Append(queue, Enter(p))
    /\ Told
    /\ overtaken' = (overtaken \/ warps # <<>>)
    /\ UNCHANGED window

\* The program does not ask for LeaveNotify events.
UserLeaves ==
    /\ UserActs
    /\ pointer # Outside
    /\ pointer' = Outside
    /\ Told
    /\ UNCHANGED <<window, queue, overtaken>>

\* The window gets another size, another place or both, by the user or by a
\* window manager; the event for a new place alone may come or not.
UserConfigures ==
    /\ UserActs
    /\ \E s \in Sizes :
          /\ window' = s
          /\ \/ queue' = Append(queue, Configure(s))
             \/ s = window /\ UNCHANGED queue
          /\ \/ /\ pointer' = Outside
                /\ Told
             \/ /\ pointer # Outside
                /\ \E d \in Slides :
                      pointer' = Plus(pointer, d) /\ slid' = Plus(slid, d)
                /\ pointer' \in Inside(s)
                /\ UNCHANGED lost
    /\ overtaken' = (overtaken \/ (warps # <<>> /\ pointer' \notin {pointer, Outside}))

\* The user pauses until everything is handled.
UserPauses ==
    /\ moves > 0 /\ queue = <<>> /\ warps = <<>>
    /\ moves' = 0
    /\ UNCHANGED <<server, warps, queue, controller, slide, overtaken>>

\* XWarpPointer() arrives.  A pointer that stays where it is may cause an
\* event or not.
Warp ==
    /\ warps # <<>>
    /\ warps' = Tail(warps)
    /\ LET p == Head(warps) IN
       \/ /\ p \notin Inside(window)
          /\ pointer' = Outside
          /\ Told
          /\ UNCHANGED queue
       \/ /\ p \in Inside(window) /\ pointer = Outside
          /\ pointer' = p
          /\ queue' = Append(queue, Enter(p))
          /\ Told
       \/ /\ p \in Inside(window) /\ pointer # Outside
          /\ pointer' = p
          /\ queue' = Append(queue, Motion(p, Zero, Zero, "program"))
          /\ Told
       \/ /\ p \in Inside(window) /\ pointer = p
          /\ lost' = (lost \/ slid # Zero)
          /\ UNCHANGED <<pointer, queue, slid>>
    /\ UNCHANGED <<window, controller, overtaken, moves>>

-----------------------------------------------------------------------------
(* The controller: one event of the queue.                                 *)

\* Mutant of MotionNotify: the warp is not anticipated.
MotionNotify_NotAnticipated(e) ==
    /\ sent' = [a \in Axes |-> Int8(e.at[a] - cursor[a])]
    /\ cursor' = e.at
    /\ warps' = IF Recentred(e.at, size) # e.at
                THEN Append(warps, Recentred(e.at, size)) ELSE warps
    /\ last' = e.by
    /\ UNCHANGED size

\* Mutant of MotionNotify: out of bounds means a warp, wherever it leads.
MotionNotify_AlwaysWarps(e) ==
    /\ sent' = [a \in Axes |-> Int8(e.at[a] - cursor[a])]
    /\ cursor' = Recentred(e.at, size)
    /\ warps' = IF \E a \in Axes : CursorOutOfBounds(e.at[a], size[a])
                THEN Append(warps, cursor') ELSE warps
    /\ last' = e.by
    /\ UNCHANGED size

\* motion_notify()
MotionNotify(e) ==
    /\ sent' = [a \in Axes |-> Int8(e.at[a] - cursor[a])]
    /\ cursor' = Recentred(e.at, size)
    /\ warps' = IF cursor' # e.at THEN Append(warps, cursor') ELSE warps
    /\ last' = e.by
    /\ UNCHANGED size

\* Mutant of EnterNotify: the position is not taken over.
EnterNotify_Ignored(e) ==
    /\ last' = "enter"
    /\ UNCHANGED <<warps, size, cursor, sent>>

\* enter_notify()
EnterNotify(e) ==
    /\ cursor' = e.at
    /\ last' = "enter"
    /\ UNCHANGED <<warps, size, sent>>

\* configure_notify() and xlib_resize()
ConfigureNotify(e) ==
    /\ size' = e.size
    /\ last' = "configure"
    /\ UNCHANGED <<warps, cursor, sent>>

\* event_handle(): the next event.
EventHandle ==
    /\ queue # <<>>
    /\ queue' = Tail(queue)
    /\ LET e == Head(queue) IN
       \/ e.type = "motion" /\ MotionNotify(e)
       \/ e.type = "enter" /\ EnterNotify(e)
       \/ e.type = "configure" /\ ConfigureNotify(e)
    /\ overtaken' = IF queue' = <<>> /\ warps' = <<>> /\ ~lost THEN FALSE
                    ELSE overtaken \/ (warps' # warps /\ (queue' # <<>> \/ slid # Zero))
    /\ UNCHANGED <<server, slide, moves>>

User == UserMoves \/ UserEnters \/ UserLeaves \/ UserConfigures \/ UserPauses

Next == User \/ Warp \/ EventHandle

Spec == Init /\ [][Next]_vars

\* The event loop and the X server run; the user does as he likes.
FairSpec == Spec /\ WF_vars(EventHandle) /\ WF_vars(Warp)

-----------------------------------------------------------------------------
(* Properties.                                                             *)

\* As long as the user does nothing between a motion event near the edge and
\* the execution of the warp it leads to, each motion event of the user sends,
\* as far as an int8_t holds it, how far he moved the pointer since the event
\* before, and how far the window slid under it; however often the pointer is
\* moved back.  The events of the warps send nothing.  It holds with an
\* uninitialised cursor position at the start and when the window's size
\* changes.
SentIsMoved ==
    [][~overtaken /\ last' \in {"user", "program"} /\ queue' # queue /\ queue # <<>>
       /\ queue' = Tail(queue)
        => LET e == Head(queue)
           IN  \A a \in Axes : sent'[a] = Int8(e.moved[a] + e.slid[a])]_vars

\* When nothing is under way, the controller knows where the pointer is, also
\* after the user was faster than a warp: an error does not last.  Only the
\* place of the window is not known to it: it is wrong by as much as the window
\* slid under the pointer since the last event with a position, and no more.
Tracks ==
    queue = <<>> /\ warps = <<>> /\ pointer # Outside /\ ~lost
        => Plus(cursor, slid) = pointer

\* ... and after a motion event the pointer is away from the edges, so that it
\* can move on in each direction, or in the middle of a window too small for
\* that: the warp for one axis does not spoil the other one.
RoomToMove ==
    queue = <<>> /\ warps = <<>> /\ last \in {"user", "program"}
    /\ pointer # Outside /\ slid = Zero /\ ~lost
        => \A a \in Axes : \/ ~CursorOutOfBounds(pointer[a], size[a])
                          \/ pointer[a] = size[a] \div 2

\* After each burst of the user the events stop: a warp does not lead to
\* another one for ever, whatever the size of the window.
Settles == []<>(queue = <<>> /\ warps = <<>>)

\* What the comment in motion_notify() says: the events that a warp causes
\* "must not be translated to the receiver, hence the window cursor position
\* is updated, hence dx and dy are zero for the upcoming XMotionEvents".
WarpNotTranslated == last = "program" => sent = Zero
=============================================================================
