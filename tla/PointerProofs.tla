--------------------------- MODULE PointerProofs ---------------------------
(* Proofs about Pointer, for all sizes of the window and any distances it  *)
(* can slide, any margin and any width of the distances that are sent.     *)
EXTENDS Pointer, SequenceTheorems, TLAPS

USE SizesAssumption, SlidesAssumption, OobAssumption, Int8Assumption, MovesAssumption

-----------------------------------------------------------------------------
\* A value stored in an int8_t is in its range.
LEMMA Int8Range ==
  ASSUME NEW d \in Int
  PROVE  Int8(d) \in -(Int8Mod \div 2)..Int8Mod \div 2 - 1
<1> DEFINE h == Int8Mod \div 2
<1>1. h \in Int /\ 2 * h = Int8Mod
  OBVIOUS
<1>2. \A x \in Int : x % Int8Mod \in 0..Int8Mod - 1
  OBVIOUS
<1> HIDE DEF h
<1>3. (d + h) % Int8Mod \in 0..2 * h - 1
  BY <1>1, <1>2
<1> QED
  BY <1>1, <1>3 DEF Int8, h

\* A pointer is sent to a place.
LEMMA RecentredIs ==
  ASSUME NEW p \in Point, NEW s \in Sizes
  PROVE  /\ Recentred(p, s) \in Point
         /\ \A a \in Axes : \/ Recentred(p, s)[a] = p[a] /\ ~CursorOutOfBounds(p[a], s[a])
                            \/ Recentred(p, s)[a] = s[a] \div 2
<1>1. \A a \in Axes : s[a] \in Int /\ s[a] \div 2 \in Int
  OBVIOUS
<1> QED
  BY <1>1 DEF Recentred, Point

LEMMA PointFacts ==
  /\ Zero \in Point /\ Outside \in Point
  /\ \A p, q \in Point : Minus(p, q) \in Point /\ Plus(p, q) \in Point
  /\ \A s \in Sizes : Inside(s) \subseteq Point
<1>1. Zero \in Point /\ Outside \in Point
  BY DEF Zero, Outside, Point
<1>2. \A p, q \in Point : Minus(p, q) \in Point /\ Plus(p, q) \in Point
  BY DEF Minus, Plus, Point
<1>3. \A s \in Sizes : Inside(s) \subseteq Point
  BY DEF Inside, Point, Axes
<1> QED
  BY <1>1, <1>2, <1>3

LEMMA TypeStep == TypeOK /\ [Next]_vars => TypeOK'
<1> SUFFICES ASSUME TypeOK, [Next]_vars PROVE TypeOK'
  OBVIOUS
<1>1. pointer \in Point /\ \A s \in Sizes : Inside(s) \subseteq Point
  BY PointFacts DEF TypeOK
<1>0. Told => slid' \in Point /\ lost' \in BOOLEAN
  BY PointFacts DEF Told
<1>2. ASSUME UserMoves PROVE TypeOK'
  <2>1. PICK p \in Inside(window) \ {pointer} :
          /\ pointer' = p
          /\ queue' = Append(queue, Motion(p, Minus(p, pointer), slid, "user"))
    BY <1>2 DEF UserMoves
  <2>2. Motion(p, Minus(p, pointer), slid, "user") \in Events
    BY <1>1, PointFacts DEF Motion, Events, TypeOK
  <2>3. queue' \in Seq(Events)
    BY <2>1, <2>2 DEF TypeOK
  <2> QED
    BY <1>0, <1>2, <2>1, <2>3 DEF UserMoves, UserActs, TypeOK, controller
<1>3. ASSUME UserEnters PROVE TypeOK'
  <2>1. PICK p \in Inside(window) : pointer' = p /\ queue' = Append(queue, Enter(p))
    BY <1>3 DEF UserEnters
  <2>2. Enter(p) \in Events
    BY <1>1 DEF Enter, Events, TypeOK
  <2>3. queue' \in Seq(Events)
    BY <2>1, <2>2 DEF TypeOK
  <2> QED
    BY <1>0, <1>3, <2>1, <2>3 DEF UserEnters, UserActs, TypeOK, controller
<1>4. CASE UserLeaves
  BY <1>0, <1>4 DEF UserLeaves, UserActs, TypeOK, controller
<1>5. ASSUME UserConfigures PROVE TypeOK'
  <2>1. PICK s \in Sizes :
          /\ window' = s
          /\ queue' \in {queue, Append(queue, Configure(s))}
          /\ \/ pointer' = Outside /\ Told
             \/ /\ \E d \in Slides : slid' = Plus(slid, d)
                /\ pointer' \in Inside(s) /\ UNCHANGED lost
    BY <1>5 DEF UserConfigures
  <2>2. Configure(s) \in Events
    BY DEF Configure, Events
  <2>3. queue' \in Seq(Events)
    <3>1. CASE queue' = Append(queue, Configure(s))
      BY <2>2, <3>1 DEF TypeOK
    <3> QED
      BY <2>1, <3>1 DEF TypeOK
  <2>4. slid' \in Point /\ lost' \in BOOLEAN
    BY <2>1, PointFacts DEF Told, TypeOK
  <2>5. overtaken' \in BOOLEAN
    BY <1>5 DEF UserConfigures
  <2> QED
    BY <1>5, <2>1, <2>3, <2>4, <2>5 DEF UserConfigures, UserActs, TypeOK, controller
<1>6. CASE UserPauses
  BY <1>6 DEF UserPauses, TypeOK, controller, server, slide
<1>7. ASSUME Warp PROVE TypeOK'
  <2>1. warps' \in Seq(Point) /\ Head(warps) \in Point
    BY <1>7 DEF Warp, TypeOK
  <2>2. Enter(Head(warps)) \in Events /\ Motion(Head(warps), Zero, Zero, "program") \in Events
    BY <2>1, PointFacts DEF Enter, Motion, Events
  <2>3. queue' \in Seq(Events)
    <3>1. queue' \in {queue, Append(queue, Enter(Head(warps))),
                     Append(queue, Motion(Head(warps), Zero, Zero, "program"))}
      BY <1>7, Zenon DEF Warp
    <3>2. \A e \in Events : Append(queue, e) \in Seq(Events)
      BY DEF TypeOK
    <3> QED
      BY <3>1, <3>2, <2>2 DEF TypeOK
  <2>4. pointer' \in Inside(window) \cup {Outside}
    BY <1>7 DEF Warp
  <2>5. slid' \in Point /\ lost' \in BOOLEAN
    BY <1>7, PointFacts DEF Warp, Told, TypeOK
  <2> QED
    BY <1>7, <2>1, <2>3, <2>4, <2>5 DEF Warp, TypeOK, controller
<1>8. ASSUME EventHandle PROVE TypeOK'
  <2>1. queue' \in Seq(Events) /\ Head(queue) \in Events
    BY <1>8 DEF EventHandle, TypeOK
  <2>2. ASSUME Head(queue).type = "motion", MotionNotify(Head(queue)) PROVE TypeOK'
    <3>1. Head(queue).at \in Point /\ Head(queue).by \in {"user", "program"}
      BY <2>1, <2>2 DEF Events
    <3>2. cursor' \in Point
      BY <2>2, <3>1, RecentredIs DEF MotionNotify, TypeOK
    <3>3. warps' \in Seq(Point)
      BY <2>2, <3>2 DEF MotionNotify, TypeOK
    <3>4. \A a \in Axes : Head(queue).at[a] - cursor[a] \in Int
      BY <3>1 DEF TypeOK, Point
    <3>5. \A a \in Axes : sent'[a] \in -(Int8Mod \div 2)..Int8Mod \div 2 - 1
      BY <2>2, <3>4, Int8Range DEF MotionNotify
    <3> QED
      BY <1>8, <2>1, <2>2, <3>1, <3>2, <3>3, <3>5
         DEF EventHandle, MotionNotify, TypeOK, server, slide
  <2>3. CASE Head(queue).type = "enter" /\ EnterNotify(Head(queue))
    BY <1>8, <2>1, <2>3 DEF EventHandle, EnterNotify, TypeOK, server, slide, Events
  <2>4. CASE Head(queue).type = "configure" /\ ConfigureNotify(Head(queue))
    BY <1>8, <2>1, <2>4 DEF EventHandle, ConfigureNotify, TypeOK, server, slide, Events
  <2> QED
    BY <1>8, <2>2, <2>3, <2>4 DEF EventHandle
<1>9. CASE UNCHANGED vars
  BY <1>9 DEF vars, server, controller, slide, TypeOK
<1> QED
  BY <1>2, <1>3, <1>4, <1>5, <1>6, <1>7, <1>8, <1>9 DEF Next, User

LEMMA TypeInit == Init => TypeOK
<1> SUFFICES ASSUME Init PROVE TypeOK
  OBVIOUS
<1>1. cursor \in Point
  BY PointFacts DEF Init
<1>2. \A a \in Axes : sent[a] \in -(Int8Mod \div 2)..Int8Mod \div 2 - 1
  <2>1. Int8Mod \div 2 \in Nat \ {0}
    OBVIOUS
  <2> QED
    BY <2>1 DEF Init, Zero
<1>3. warps \in Seq(Point) /\ queue \in Seq(Events)
  BY DEF Init
<1>4. pointer \in Inside(window) \cup {Outside} /\ moves \in 0..MaxMoves
  BY DEF Init
<1>5. /\ window \in Sizes /\ size \in Sizes /\ last = "none" /\ overtaken \in BOOLEAN
      /\ slid \in Point /\ lost \in BOOLEAN
  BY PointFacts DEF Init
<1> QED
  BY <1>1, <1>2, <1>3, <1>4, <1>5 DEF TypeOK

\* Every variable stays in its type; in particular no distance is sent that
\* an int8_t does not hold, and every warp leads to a position.
THEOREM TypeCorrect == Spec => []TypeOK
  BY TypeInit, TypeStep, PTL DEF Spec

-----------------------------------------------------------------------------
(* What the controller knows of the pointer.                               *)

\* From m to n the queue moves nothing.
Still(m, n) == \A k \in m..n : queue[k].type = "configure"

\* The controller will know where the pointer is but for what the window slid:
\* from the last position in the queue, or from the last warp, or it knows
\* already.
WillKnow ==
    pointer # Outside /\ ~lost =>
        \/ /\ Still(1, Len(queue))
           /\ \/ Plus(cursor, slid) = pointer
              \/ warps # <<>> /\ warps[Len(warps)] = cursor
        \/ \E i \in 1..Len(queue) :
              /\ queue[i].type # "configure" /\ Still(i + 1, Len(queue))
              /\ Plus(queue[i].at, slid) = pointer

\* After a motion event the cursor is away from the edges.
Placed ==
    last \in {"user", "program"} =>
        \A a \in Axes : ~CursorOutOfBounds(cursor[a], size[a]) \/ cursor[a] = size[a] \div 2

\* The queue is a path: each motion starts where the event before it ended,
\* after what the window slid, the first one where the controller believes the
\* pointer.
Way(e) == Plus(e.moved, e.slid)
Path ==
    \A i \in 1..Len(queue) : queue[i].type = "motion" =>
        /\ Still(1, i - 1) => Way(queue[i]) = Minus(queue[i].at, cursor)
        /\ \A j \in 1..i - 1 : queue[j].type # "configure" /\ Still(j + 1, i - 1)
               => Way(queue[i]) = Minus(queue[i].at, queue[j].at)

\* As long as nobody is faster than a warp, it is the only one, nothing waits
\* behind it, the window has not slid before it, and the queue is a path.
InTime ==
    ~overtaken =>
        /\ ~lost
        /\ warps # <<>> => /\ Len(warps) = 1 /\ warps[1] = cursor /\ slid = Zero
                           /\ Still(1, Len(queue))
        /\ Path

LEMMA PlusZero ==
  ASSUME NEW p \in Point
  PROVE  Plus(p, Zero) = p
BY DEF Plus, Zero, Point

\* A pointer that slides with the window and then is moved.
LEMMA SlideThenMove ==
  ASSUME NEW p \in Point, NEW q \in Point, NEW k \in Point, NEW s \in Point, Plus(k, s) = p
  PROVE  Plus(Minus(q, p), s) = Minus(q, k)
<1>1. \A a \in Axes : p[a] = k[a] + s[a]
  BY DEF Plus
<1>2. \A a \in Axes : (q[a] - p[a]) + s[a] = q[a] - k[a]
  BY <1>1 DEF Point
<1> QED
  BY <1>2 DEF Plus, Minus

\* Two slides are one.
LEMMA SlideTwice ==
  ASSUME NEW k \in Point, NEW s \in Point, NEW d \in Point
  PROVE  Plus(k, Plus(s, d)) = Plus(Plus(k, s), d)
<1>1. \A a \in Axes : k[a] + (s[a] + d[a]) = (k[a] + s[a]) + d[a]
  BY DEF Point
<1> QED
  BY <1>1 DEF Plus

LEMMA Taken ==
  ASSUME TypeOK, EventHandle
  PROVE  /\ queue \in Seq(Events) /\ queue' \in Seq(Events) /\ Len(queue) \in Nat
         /\ Len(queue) >= 1 /\ Len(queue') = Len(queue) - 1
         /\ \A i \in 1..Len(queue) - 1 : queue'[i] = queue[i + 1]
         /\ Head(queue) = queue[1] /\ queue[1] \in Events
<1>1. queue \in Seq(Events) /\ queue # <<>> /\ queue' = Tail(queue)
  BY DEF TypeOK, EventHandle
<1> QED
  BY <1>1, HeadTailProperties

LEMMA PlacedStep == TypeOK /\ Placed /\ [Next]_vars => Placed'
<1> SUFFICES ASSUME TypeOK, Placed, [Next]_vars PROVE Placed'
  OBVIOUS
<1>1. CASE UNCHANGED controller
  BY <1>1 DEF controller, Placed
<1>2. ASSUME EventHandle PROVE Placed'
  <2>1. ASSUME Head(queue).type = "motion", MotionNotify(Head(queue)) PROVE Placed'
    <3>1. Head(queue).at \in Point
      BY <1>2, <2>1, Taken DEF Events
    <3>2. size \in Sizes /\ size' = size /\ cursor' = Recentred(Head(queue).at, size)
      BY <2>1 DEF TypeOK, MotionNotify
    <3> QED
      BY <3>1, <3>2, RecentredIs DEF Placed
  <2>2. CASE EnterNotify(Head(queue)) \/ ConfigureNotify(Head(queue))
    BY <2>2 DEF EnterNotify, ConfigureNotify, Placed
  <2> QED
    BY <1>2, <2>1, <2>2 DEF EventHandle
<1> QED
  BY <1>1, <1>2 DEF Next, User, UserMoves, UserEnters, UserLeaves, UserConfigures,
     UserPauses, UserActs, Warp, vars

LEMMA WillKnowStep == TypeOK /\ WillKnow /\ [Next]_vars => WillKnow'
<1> SUFFICES ASSUME TypeOK, WillKnow, [Next]_vars PROVE WillKnow'
  OBVIOUS
<1>1. queue \in Seq(Events) /\ Len(queue) \in Nat /\ warps \in Seq(Point) /\ Len(warps) \in Nat
  BY DEF TypeOK
\* An event at the end of the queue that says where the pointer is.
<1>2. ASSUME NEW e \in Events, e.type # "configure", queue' = Append(queue, e), e.at = pointer',
             Told
      PROVE  WillKnow'
  <2>1. Len(queue') = Len(queue) + 1 /\ queue'[Len(queue) + 1] = e
    BY <1>1, <1>2
  <2>2. Plus(e.at, slid') = pointer'
    <3>1. e.at \in Point
      BY <1>2 DEF Events
    <3> QED
      BY <1>2, <3>1, PlusZero DEF Told
  <2> QED
    BY <1>1, <1>2, <2>1, <2>2 DEF WillKnow, Still
<1>3. ASSUME UserMoves PROVE WillKnow'
  <2>1. PICK p \in Inside(window) \ {pointer} :
          /\ pointer' = p
          /\ queue' = Append(queue, Motion(p, Minus(p, pointer), slid, "user"))
    BY <1>3 DEF UserMoves
  <2>2. Motion(p, Minus(p, pointer), slid, "user") \in Events
    BY PointFacts DEF Motion, Events, TypeOK
  <2> QED
    BY <1>2, <1>3, <2>1, <2>2 DEF UserMoves, Motion
<1>4. ASSUME UserEnters PROVE WillKnow'
  <2>1. PICK p \in Inside(window) : pointer' = p /\ queue' = Append(queue, Enter(p))
    BY <1>4 DEF UserEnters
  <2>2. Enter(p) \in Events
    BY PointFacts DEF Enter, Events, TypeOK
  <2> QED
    BY <1>2, <1>4, <2>1, <2>2 DEF UserEnters, Enter
<1>5. CASE UserLeaves
  BY <1>5 DEF UserLeaves, WillKnow
<1>6. ASSUME UserConfigures PROVE WillKnow'
  <2>1. PICK s \in Sizes : queue' \in {queue, Append(queue, Configure(s))}
    BY <1>6 DEF UserConfigures
  <2>2. UNCHANGED <<warps, cursor>>
    BY <1>6 DEF UserConfigures, UserActs, controller
  <2>3. CASE pointer' = Outside
    BY <2>3 DEF WillKnow
  <2>4. ASSUME pointer' # Outside, ~lost' PROVE WillKnow'
    <3>1. PICK d \in Slides : pointer' = Plus(pointer, d) /\ slid' = Plus(slid, d)
      BY <1>6, <2>4 DEF UserConfigures
    <3>2. pointer # Outside /\ ~lost
      BY <1>6, <2>4 DEF UserConfigures
    \* What was known but for the slide still is.
    <3>3. ASSUME NEW k \in Point, Plus(k, slid) = pointer PROVE Plus(k, slid') = pointer'
      BY <3>1, <3>3, SlideTwice DEF TypeOK
    <3>4. /\ Len(queue) \in 0..Len(queue') /\ Len(queue') \in Nat
          /\ \A i \in 1..Len(queue) : queue'[i] = queue[i]
          /\ \A i \in Len(queue) + 1..Len(queue') : queue'[i].type = "configure"
      <4>1. CASE queue' = queue
        BY <1>1, <4>1
      <4>2. CASE queue' = Append(queue, Configure(s))
        BY <1>1, <4>2 DEF Configure
      <4> QED
        BY <2>1, <4>1, <4>2
    <3>5. \A m \in Nat \ {0} : Still(m, Len(queue)) => Still(m, Len(queue))'
      <4> SUFFICES ASSUME NEW m \in Nat \ {0}, \A k \in m..Len(queue) : queue[k].type = "configure",
                          NEW k \in m..Len(queue')
                   PROVE  queue'[k].type = "configure"
        BY DEF Still
      <4>1. CASE k \in Len(queue) + 1..Len(queue')
        BY <3>4, <4>1
      <4>2. CASE k \in m..Len(queue)
        BY <1>1, <3>4, <4>2
      <4> QED
        BY <1>1, <3>4, <4>1, <4>2
    <3>6. CASE Still(1, Len(queue)) /\ Plus(cursor, slid) = pointer
      BY <2>2, <3>3, <3>5, <3>6 DEF WillKnow, TypeOK
    <3>7. CASE Still(1, Len(queue)) /\ warps # <<>> /\ warps[Len(warps)] = cursor
      BY <2>2, <3>5, <3>7 DEF WillKnow
    <3>8. ASSUME NEW i \in 1..Len(queue), queue[i].type # "configure", Still(i + 1, Len(queue)),
                 Plus(queue[i].at, slid) = pointer
          PROVE  WillKnow'
      <4>1. queue[i].at \in Point
        <5>1. queue[i] \in Events
          BY <1>1, <3>8
        <5> QED
          BY <3>8, <5>1 DEF Events
      <4>2. Plus(queue'[i].at, slid') = pointer'
        BY <3>3, <3>4, <3>8, <4>1
      <4>3. Still(i + 1, Len(queue))'
        BY <3>5, <3>8
      <4> QED
        BY <1>1, <3>4, <3>8, <4>2, <4>3 DEF WillKnow
    <3> QED
      BY <3>2, <3>6, <3>7, <3>8 DEF WillKnow
  <2> QED
    BY <2>3, <2>4 DEF WillKnow
<1>7. CASE UserPauses
  BY <1>7 DEF UserPauses, server, controller, slide, WillKnow, Still
<1>8. ASSUME Warp PROVE WillKnow'
  <2>1. /\ warps' \in Seq(Point) /\ Len(warps') = Len(warps) - 1 /\ Head(warps) = warps[1]
        /\ \A i \in 1..Len(warps) - 1 : warps'[i] = warps[i + 1]
        /\ Head(warps) \in Point /\ UNCHANGED cursor /\ Len(warps) >= 1
    <3>1. warps # <<>> /\ warps' = Tail(warps) /\ UNCHANGED cursor
      BY <1>8 DEF Warp, controller
    <3> QED
      BY <1>1, <3>1, HeadTailProperties
  <2>2. CASE pointer' = Outside
    BY <2>2 DEF WillKnow
  <2>3. CASE pointer' = Head(warps) /\ queue' = Append(queue, Enter(Head(warps))) /\ Told
    <3>1. Enter(Head(warps)) \in Events
      BY <2>1 DEF Enter, Events
    <3> QED
      BY <1>2, <2>3, <3>1 DEF Enter
  <2>4. CASE /\ pointer' = Head(warps) /\ Told
             /\ queue' = Append(queue, Motion(Head(warps), Zero, Zero, "program"))
    <3>1. Motion(Head(warps), Zero, Zero, "program") \in Events
      BY <2>1, PointFacts DEF Motion, Events
    <3> QED
      BY <1>2, <2>4, <3>1 DEF Motion
  <2>5. CASE /\ pointer = Head(warps) /\ lost' = (lost \/ slid # Zero)
             /\ UNCHANGED <<pointer, queue, slid>>
    <3>1. CASE lost'
      BY <3>1 DEF WillKnow
    <3>2. ASSUME ~lost', Still(1, Len(queue)), warps # <<>>, warps[Len(warps)] = cursor
          PROVE  \/ Plus(cursor', slid') = pointer'
                 \/ warps' # <<>> /\ warps'[Len(warps')] = cursor'
      <4>1. slid = Zero /\ Plus(Head(warps), Zero) = Head(warps)
        BY <2>1, <2>5, <3>2, PlusZero
      <4> QED
        BY <1>1, <2>1, <2>5, <3>2, <4>1
    <3> QED
      BY <2>1, <2>5, <3>1, <3>2 DEF WillKnow, Still
  <2> QED
    BY <1>8, <2>2, <2>3, <2>4, <2>5, Zenon DEF Warp
<1>9. ASSUME EventHandle PROVE WillKnow'
  <2>1. /\ Len(queue) >= 1 /\ Len(queue') = Len(queue) - 1 /\ Head(queue) = queue[1]
        /\ \A i \in 1..Len(queue) - 1 : queue'[i] = queue[i + 1]
        /\ UNCHANGED <<pointer, slid, lost>>
    BY <1>9, Taken DEF EventHandle, server, slide
  \* The position is not in the first event: it is nearer now.
  <2>2. ASSUME NEW i \in 2..Len(queue), queue[i].type # "configure",
               Plus(queue[i].at, slid) = pointer, Still(i + 1, Len(queue))
        PROVE  WillKnow'
    <3>1. i - 1 \in 1..Len(queue') /\ queue'[i - 1] = queue[i]
      BY <1>1, <2>1
    <3>2. ASSUME NEW k \in (i - 1) + 1..Len(queue') PROVE queue'[k].type = "configure"
      <4>1. k \in 1..Len(queue) - 1 /\ k + 1 \in i + 1..Len(queue)
        BY <1>1, <2>1
      <4> QED
        BY <2>1, <2>2, <4>1 DEF Still
    <3> QED
      BY <2>1, <2>2, <3>1, <3>2 DEF WillKnow, Still
  <2>3. ASSUME Still(2, Len(queue)) PROVE Still(1, Len(queue))'
    BY <1>1, <2>1, <2>3 DEF Still
  <2>4. ASSUME queue[1].type # "configure", Still(2, Len(queue)),
               Plus(cursor', slid) = pointer \/ warps' = Append(warps, cursor')
        PROVE  WillKnow'
    <3>1. cursor' \in Point
      BY TypeStep, <1>9 DEF TypeOK
    <3> QED
      BY <1>1, <2>1, <2>3, <2>4, <3>1 DEF WillKnow
  <2>5. CASE queue[1].type = "motion" /\ MotionNotify(queue[1])
    <3>1. Plus(queue[1].at, slid) = pointer
             => Plus(cursor', slid) = pointer \/ warps' = Append(warps, cursor')
      BY <2>5 DEF MotionNotify
    <3>2. ~Still(1, Len(queue))
      BY <1>1, <2>1, <2>5 DEF Still
    <3>3. CASE pointer = Outside \/ lost
      BY <2>1, <3>3 DEF WillKnow
    <3>4. CASE pointer # Outside /\ ~lost
      <4>1. PICK i \in 1..Len(queue) : /\ queue[i].type # "configure" /\ Still(i + 1, Len(queue))
                                       /\ Plus(queue[i].at, slid) = pointer
        BY <3>2, <3>4 DEF WillKnow
      <4>2. CASE i = 1
        BY <2>4, <3>1, <4>1, <4>2
      <4>3. CASE i \in 2..Len(queue)
        BY <2>2, <4>1, <4>3
      <4> QED
        BY <1>1, <4>2, <4>3
    <3> QED
      BY <3>3, <3>4
  <2>6. CASE queue[1].type = "enter" /\ EnterNotify(queue[1])
    BY <1>1, <2>1, <2>2, <2>4, <2>6 DEF WillKnow, Still, EnterNotify
  <2>7. CASE queue[1].type = "configure" /\ ConfigureNotify(queue[1])
    <3>1. Still(1, Len(queue)) => Still(2, Len(queue))
      BY <1>1 DEF Still
    <3> QED
      BY <1>1, <2>1, <2>2, <2>3, <2>7, <3>1 DEF WillKnow, ConfigureNotify
  <2> QED
    BY <1>9, <2>1, <2>5, <2>6, <2>7 DEF EventHandle
<1>10. CASE UNCHANGED vars
  BY <1>10 DEF vars, server, controller, slide, WillKnow, Still
<1> QED
  BY <1>3, <1>4, <1>5, <1>6, <1>7, <1>8, <1>9, <1>10 DEF Next, User
\* An event at the end of the queue leaves the path of the others as it is.
LEMMA PathAppend ==
  ASSUME TypeOK, Path, UNCHANGED cursor,
         NEW e \in Events, queue' = Append(queue, e),
         e.type = "motion" =>
            /\ Still(1, Len(queue)) => Way(e) = Minus(e.at, cursor)
            /\ \A j \in 1..Len(queue) :
                  queue[j].type # "configure" /\ Still(j + 1, Len(queue))
                      => Way(e) = Minus(e.at, queue[j].at)
  PROVE  Path'
<1>1. /\ Len(queue) \in Nat /\ Len(queue') = Len(queue) + 1 /\ queue'[Len(queue) + 1] = e
      /\ \A i \in 1..Len(queue) : queue'[i] = queue[i]
  BY DEF TypeOK
<1>2. \A m \in Nat \ {0} : \A n \in 0..Len(queue) : Still(m, n)' => Still(m, n)
  BY <1>1 DEF Still
<1> SUFFICES ASSUME NEW i \in 1..Len(queue) + 1, queue'[i].type = "motion"
             PROVE  /\ Still(1, i - 1)' => Way(queue'[i]) = Minus(queue'[i].at, cursor)
                    /\ \A j \in 1..i - 1 : queue'[j].type # "configure" /\ Still(j + 1, i - 1)'
                           => Way(queue'[i]) = Minus(queue'[i].at, queue'[j].at)
  BY <1>1 DEF Path
<1>3. Still(1, i - 1)' => Still(1, i - 1)
  BY <1>1, <1>2
<1>4. \A j \in 1..i - 1 : queue'[j] = queue[j] /\ (Still(j + 1, i - 1)' => Still(j + 1, i - 1))
  BY <1>1, <1>2
<1>5. CASE i = Len(queue) + 1
  BY <1>1, <1>3, <1>4, <1>5
<1>6. CASE i \in 1..Len(queue)
  BY <1>1, <1>3, <1>4, <1>6 DEF Path
<1>7. i = Len(queue) + 1 \/ i \in 1..Len(queue)
  BY <1>1
<1> QED
  BY <1>5, <1>6, <1>7, Zenon

\* The path goes on from the first event once that is handled.
LEMMA PathTail ==
  ASSUME TypeOK, EventHandle, Path,
         \/ queue[1].type # "configure" /\ cursor' = queue[1].at
         \/ queue[1].type = "configure" /\ cursor' = cursor
  PROVE  Path'
<1>1. /\ Len(queue) \in Nat /\ Len(queue) >= 1 /\ Len(queue') = Len(queue) - 1
      /\ \A i \in 1..Len(queue) - 1 : queue'[i] = queue[i + 1]
  BY Taken
<1>2. ASSUME NEW m \in Nat \ {0}, NEW n \in 0..Len(queue) - 1, Still(m, n)'
      PROVE  Still(m + 1, n + 1)
  <2> SUFFICES ASSUME NEW k \in m + 1..n + 1 PROVE queue[k].type = "configure"
    BY DEF Still
  <2>1. k - 1 \in m..n /\ k - 1 \in 1..Len(queue) - 1 /\ (k - 1) + 1 = k
    BY <1>1
  <2>2. queue'[k - 1].type = "configure"
    BY <1>2, <2>1 DEF Still
  <2> QED
    BY <1>1, <2>1, <2>2
<1> SUFFICES ASSUME NEW i \in 1..Len(queue) - 1, queue'[i].type = "motion"
             PROVE  /\ Still(1, i - 1)' => Way(queue'[i]) = Minus(queue'[i].at, cursor')
                    /\ \A j \in 1..i - 1 : queue'[j].type # "configure" /\ Still(j + 1, i - 1)'
                           => Way(queue'[i]) = Minus(queue'[i].at, queue'[j].at)
  BY <1>1 DEF Path
<1>3. i + 1 \in 1..Len(queue) /\ queue'[i] = queue[i + 1] /\ i - 1 \in 0..Len(queue) - 1
  BY <1>1
<1>4. ASSUME Still(1, i - 1)' PROVE Way(queue'[i]) = Minus(queue'[i].at, cursor')
  <2>1. Still(2, i)
    BY <1>2, <1>3, <1>4
  <2>2. CASE queue[1].type # "configure" /\ cursor' = queue[1].at
    <3>1. 1 \in 1..(i + 1) - 1 /\ Still(1 + 1, (i + 1) - 1)
      BY <2>1
    <3> QED
      BY <1>3, <2>2, <3>1 DEF Path
  <2>3. CASE queue[1].type = "configure" /\ cursor' = cursor
    <3>1. Still(1, (i + 1) - 1)
      BY <2>1, <2>3 DEF Still
    <3> QED
      BY <1>3, <2>3, <3>1 DEF Path
  <2> QED
    BY <2>2, <2>3
<1>5. ASSUME NEW j \in 1..i - 1, queue'[j].type # "configure", Still(j + 1, i - 1)'
      PROVE  Way(queue'[i]) = Minus(queue'[i].at, queue'[j].at)
  <2>1. /\ j + 1 \in 1..(i + 1) - 1 /\ queue'[j] = queue[j + 1]
        /\ Still((j + 1) + 1, (i + 1) - 1)
    <3>1. j + 1 \in Nat \ {0} /\ (i - 1) + 1 = (i + 1) - 1
      OBVIOUS
    <3>2. Still((j + 1) + 1, (i - 1) + 1)
      BY <1>2, <1>3, <1>5, <3>1
    <3> QED
      BY <1>1, <3>1, <3>2
  <2> QED
    BY <1>3, <1>5, <2>1 DEF Path
<1> QED
  BY <1>4, <1>5

LEMMA InTimeStep == TypeOK /\ WillKnow /\ InTime /\ [Next]_vars => InTime'
<1> SUFFICES ASSUME TypeOK, WillKnow, InTime, [Next]_vars, ~overtaken' PROVE InTime'
  BY DEF InTime
<1>1. queue \in Seq(Events) /\ Len(queue) \in Nat /\ warps \in Seq(Point) /\ Len(warps) \in Nat
  BY DEF TypeOK
<1>2. ASSUME UserMoves PROVE InTime'
  <2>1. PICK p \in Inside(window) \ {pointer} :
          /\ pointer' = p
          /\ queue' = Append(queue, Motion(p, Minus(p, pointer), slid, "user"))
    BY <1>2 DEF UserMoves
  <2>2. Motion(p, Minus(p, pointer), slid, "user") \in Events
    BY PointFacts DEF Motion, Events, TypeOK
  <2>3. /\ warps = <<>> /\ warps' = <<>> /\ pointer # Outside /\ cursor' = cursor /\ Path
        /\ ~lost /\ ~lost'
    BY <1>2 DEF UserMoves, UserActs, controller, InTime, Told
  <2>4. /\ Still(1, Len(queue)) => Plus(cursor, slid) = pointer
        /\ \A j \in 1..Len(queue) : queue[j].type # "configure" /\ Still(j + 1, Len(queue))
               => Plus(queue[j].at, slid) = pointer
    BY <1>1, <2>3 DEF WillKnow, Still
  <2> DEFINE e == Motion(p, Minus(p, pointer), slid, "user")
  <2>5. e.at = p /\ Way(e) = Plus(Minus(p, pointer), slid)
    BY DEF Motion, Way
  <2>6. ASSUME NEW k \in Point, Plus(k, slid) = pointer PROVE Way(e) = Minus(e.at, k)
    <3>1. p \in Point /\ pointer \in Point /\ slid \in Point
      BY <2>1, PointFacts DEF TypeOK
    <3> QED
      BY <2>5, <2>6, <3>1, SlideThenMove
  <2>7. \A j \in 1..Len(queue) : queue[j].type # "configure" => queue[j].at \in Point
    BY <1>1 DEF Events
  <2> HIDE DEF e
  <2>8. Path'
    BY <2>1, <2>2, <2>3, <2>4, <2>6, <2>7, PathAppend DEF e, TypeOK
  <2> QED
    BY <2>3, <2>8 DEF InTime
<1>3. ASSUME UserEnters PROVE InTime'
  <2>1. PICK p \in Inside(window) : queue' = Append(queue, Enter(p))
    BY <1>3 DEF UserEnters
  <2>2. Enter(p) \in Events /\ Enter(p).type = "enter"
    BY PointFacts DEF Enter, Events, TypeOK
  <2>3. warps = <<>> /\ warps' = <<>> /\ cursor' = cursor /\ Path /\ ~lost'
    BY <1>3 DEF UserEnters, UserActs, controller, InTime, Told
  <2>4. Path'
    BY <2>1, <2>2, <2>3, PathAppend
  <2> QED
    BY <2>3, <2>4 DEF InTime
<1>4. CASE UserLeaves
  BY <1>4 DEF UserLeaves, UserActs, controller, InTime, Told, Path, Still
<1>5. ASSUME UserConfigures PROVE InTime'
  <2>1. PICK s \in Sizes : queue' \in {queue, Append(queue, Configure(s))}
    BY <1>5 DEF UserConfigures
  <2>2. Configure(s) \in Events /\ Configure(s).type = "configure"
    BY DEF Configure, Events
  <2>3. UNCHANGED <<warps, cursor>> /\ ~overtaken /\ Path /\ ~lost /\ ~lost'
    <3>1. UNCHANGED <<warps, cursor>> /\ ~overtaken
      BY <1>5 DEF UserConfigures, UserActs, controller
    <3>2. Path /\ ~lost
      BY <3>1 DEF InTime
    <3>3. lost' = FALSE \/ lost' = lost
      BY <1>5 DEF UserConfigures, Told
    <3> QED
      BY <3>1, <3>2, <3>3
  <2>4. Path'
    <3>1. CASE queue' = queue
      BY <2>3, <3>1 DEF Path, Still
    <3>2. CASE queue' = Append(queue, Configure(s))
      BY <2>2, <2>3, <3>2, PathAppend
    <3> QED
      BY <2>1, <3>1, <3>2
  <2>5. Still(1, Len(queue)) => Still(1, Len(queue))'
    <3>1. CASE queue' = queue
      BY <3>1 DEF Still
    <3>2. CASE queue' = Append(queue, Configure(s))
      BY <1>1, <2>2, <3>2 DEF Still
    <3> QED
      BY <2>1, <3>1, <3>2
  \* Nothing slides while a warp is under way.
  <2>6. warps # <<>> /\ slid = Zero => slid' = Zero
    <3>1. ASSUME warps # <<>>, slid = Zero, NEW d \in Slides, pointer # Outside,
                 pointer' = Plus(pointer, d), slid' = Plus(slid, d), pointer' = pointer
          PROVE  slid' = Zero
      <4>1. pointer \in Point /\ d \in Point
        BY PointFacts DEF TypeOK
      <4>2. \A a \in Axes : pointer[a] + d[a] = pointer[a]
        BY <3>1 DEF Plus
      <4>3. \A a \in Axes : d[a] = 0
        BY <4>1, <4>2 DEF Point
      <4> QED
        BY <3>1, <4>3 DEF Plus, Zero
    <3>2. warps # <<>> => pointer' \in {pointer, Outside}
      BY <1>5 DEF UserConfigures
    <3>3. \A t \in Sizes : Outside \notin Inside(t)
      BY DEF Outside, Inside, Axes
    <3> QED
      BY <1>5, <3>1, <3>2, <3>3 DEF UserConfigures, Told
  <2> QED
    BY <2>3, <2>4, <2>5, <2>6 DEF InTime
<1>6. CASE UserPauses
  BY <1>6 DEF UserPauses, controller, slide, InTime, Path, Still
<1>7. ASSUME Warp PROVE InTime'
  <2>1. /\ Len(warps) = 1 /\ Head(warps) = cursor /\ Still(1, Len(queue)) /\ Path
        /\ UNCHANGED cursor /\ warps' = Tail(warps) /\ slid = Zero /\ ~lost
    BY <1>1, <1>7 DEF Warp, controller, InTime
  <2>2. warps' = <<>>
    BY <1>1, <2>1
  <2>3. /\ Enter(cursor) \in Events /\ Enter(cursor).type = "enter"
        /\ Motion(cursor, Zero, Zero, "program") \in Events
        /\ Way(Motion(cursor, Zero, Zero, "program")) = Minus(cursor, cursor)
        /\ Motion(cursor, Zero, Zero, "program").at = cursor
    <3>1. Plus(Zero, Zero) = Minus(cursor, cursor)
      BY DEF Zero, Minus, Plus, TypeOK, Point
    <3> QED
      BY <3>1, PointFacts DEF Enter, Motion, Events, TypeOK, Way
  <2>4. ASSUME UNCHANGED queue PROVE Path'
    BY <2>1, <2>4 DEF Path, Still
  <2>5. ASSUME queue' = Append(queue, Enter(cursor)) PROVE Path'
    BY <2>1, <2>3, <2>5, PathAppend
  <2>6. ASSUME queue' = Append(queue, Motion(cursor, Zero, Zero, "program")) PROVE Path'
    <3>1. \A j \in 1..Len(queue) : queue[j].type = "configure"
      BY <2>1 DEF Still
    <3> QED
      BY <2>1, <2>3, <2>6, <3>1, PathAppend
  <2>7. Path'
    <3>1. queue' \in {queue, Append(queue, Enter(cursor)),
                     Append(queue, Motion(cursor, Zero, Zero, "program"))}
      BY <1>7, <2>1, Zenon DEF Warp
    <3> QED
      BY <2>1, <2>4, <2>5, <2>6, <3>1 DEF Path, Still
  <2>8. ~lost'
    BY <1>7, <2>1 DEF Warp, Told
  <2> QED
    BY <2>2, <2>7, <2>8 DEF InTime
<1>8. ASSUME EventHandle PROVE InTime'
  <2>1. /\ Len(queue) >= 1 /\ Len(queue') = Len(queue) - 1 /\ Head(queue) = queue[1]
        /\ \A i \in 1..Len(queue) - 1 : queue'[i] = queue[i + 1]
        /\ queue' \in Seq(Events) /\ queue[1] \in Events /\ UNCHANGED <<slid, lost>>
    BY <1>8, Taken DEF EventHandle, slide
  <2>2. CASE queue' = <<>> /\ warps' = <<>> /\ ~lost
    <3>1. Len(queue') = 0 /\ ~lost'
      BY <2>1, <2>2
    <3> QED
      BY <2>2, <3>1 DEF InTime, Path
  <2>3. CASE ~(queue' = <<>> /\ warps' = <<>> /\ ~lost)
    <3>1. ~overtaken /\ (warps' = warps \/ (queue' = <<>> /\ slid = Zero))
      BY <1>8, <2>3 DEF EventHandle
    <3>2. /\ Path /\ ~lost' /\ UNCHANGED slid
          /\ warps # <<>> => /\ Len(warps) = 1 /\ warps[1] = cursor /\ slid = Zero
                             /\ Still(1, Len(queue))
      BY <2>1, <3>1 DEF InTime
    <3>3. queue[1].type # "configure" => warps = <<>>
      BY <2>1, <3>2 DEF Still
    <3>4. CASE queue[1].type = "motion" /\ MotionNotify(queue[1])
      <4>1. queue[1].at \in Point
        BY <2>1, <3>4 DEF Events
      <4>2. cursor' \in Point
        BY <1>8, TypeStep DEF TypeOK
      <4>3. CASE cursor' = queue[1].at
        BY <1>8, <3>2, <3>3, <3>4, <4>3, PathTail DEF InTime, MotionNotify
      <4>4. CASE cursor' # queue[1].at
        <5>1. warps' = Append(<<>>, cursor')
          BY <3>3, <3>4, <4>4 DEF MotionNotify
        <5>2. Len(warps') = 1 /\ warps'[1] = cursor' /\ warps' # <<>>
          BY <4>2, <5>1
        <5>3. queue' = <<>> /\ slid' = Zero /\ ~lost'
          BY <3>1, <3>2, <3>3, <3>4, <5>2
        <5> QED
          BY <5>2, <5>3 DEF InTime, Path, Still
      <4> QED
        BY <4>3, <4>4
    <3>5. CASE queue[1].type = "enter" /\ EnterNotify(queue[1])
      BY <1>8, <3>2, <3>3, <3>5, PathTail DEF InTime, EnterNotify
    <3>6. CASE queue[1].type = "configure" /\ ConfigureNotify(queue[1])
      <4>1. Path' /\ UNCHANGED <<warps, cursor>>
        BY <1>8, <3>2, <3>6, PathTail DEF ConfigureNotify
      <4>2. Still(1, Len(queue)) => Still(1, Len(queue))'
        BY <1>1, <2>1 DEF Still
      <4> QED
        BY <3>2, <4>1, <4>2 DEF InTime
    <3> QED
      BY <1>8, <2>1, <3>4, <3>5, <3>6 DEF EventHandle
  <2> QED
    BY <2>2, <2>3
<1>9. CASE UNCHANGED vars
  BY <1>9 DEF vars, server, controller, slide, InTime, Path, Still
<1> QED
  BY <1>2, <1>3, <1>4, <1>5, <1>6, <1>7, <1>8, <1>9 DEF Next, User
-----------------------------------------------------------------------------
PointerInv == TypeOK /\ Placed /\ WillKnow /\ InTime

LEMMA PointerInvariant == Spec => []PointerInv
<1>1. Init => PointerInv
  <2>1. Init => TypeOK
    BY TypeInit
  <2>2. Init => Placed /\ WillKnow /\ InTime
    BY DEF Init, Placed, WillKnow, InTime, Path
  <2> QED
    BY <2>1, <2>2 DEF PointerInv
<1>2. PointerInv /\ [Next]_vars => PointerInv'
  BY TypeStep, PlacedStep, WillKnowStep, InTimeStep DEF PointerInv
<1> QED
  BY <1>1, <1>2, PTL DEF Spec

\* When no event and no warp is under way, the controller knows where the
\* pointer is but for what the window slid under it since the last event with a
\* position, also after the user was faster than a warp: every position comes
\* in an event after it, or from the last warp.
THEOREM ControllerTracks == Spec => []Tracks
<1>1. PointerInv => Tracks
  BY DEF PointerInv, WillKnow, Tracks
<1> QED
  BY <1>1, PointerInvariant, PTL

\* ... and after a motion event the pointer is away from the edges, or in the
\* middle of the window, as long as the window does not slide.
THEOREM RoomLeft == Spec => []RoomToMove
<1>1. PointerInv => RoomToMove
  <2>1. PointerInv /\ queue = <<>> /\ warps = <<>> /\ pointer # Outside /\ ~lost
           => Plus(cursor, slid) = pointer /\ cursor \in Point
    BY DEF PointerInv, TypeOK, WillKnow
  <2>2. PointerInv /\ queue = <<>> /\ warps = <<>> /\ pointer # Outside /\ ~lost /\ slid = Zero
           => cursor = pointer
    BY <2>1, PlusZero
  <2> QED
    BY <2>2 DEF PointerInv, Placed, RoomToMove
<1> QED
  BY <1>1, PointerInvariant, PTL

\* What is sent for a motion event is the distance the user moved, after what
\* the window slid under the pointer, as an int8_t holds it, unless he did
\* something between an event near the edge and the warp it led to: the first
\* event of the queue starts where the controller believes the pointer.
THEOREM DistancesAreMoved == Spec => SentIsMoved
<1>1. ASSUME PointerInv, [Next]_vars, ~overtaken, last' \in {"user", "program"},
             queue' # queue, queue # <<>>, queue' = Tail(queue)
      PROVE  \A a \in Axes : sent'[a] = Int8(Head(queue).moved[a] + Head(queue).slid[a])
  <2>1. /\ queue \in Seq(Events) /\ Len(queue) \in Nat /\ Len(queue) >= 1
        /\ Len(queue') = Len(queue) - 1
    BY <1>1, HeadTailProperties DEF PointerInv, TypeOK
  <2>2. ASSUME NEW e PROVE queue' # Append(queue, e)
    <3>1. queue \in Seq(Events \cup {e})
      BY <2>1, SeqMonotonic
    <3>2. Len(Append(queue, e)) = Len(queue) + 1
      BY <3>1, AppendProperties
    <3> QED
      BY <2>1, <3>2
  <2>3. EventHandle
    BY <1>1, <2>2, Zenon DEF Next, User, UserMoves, UserEnters, UserLeaves, UserConfigures,
       UserPauses, Warp, vars
  <2>4. Head(queue) = queue[1] /\ queue[1] \in Events /\ Path
    BY <1>1, <2>3, Taken DEF PointerInv, InTime
  <2>5. queue[1].type = "motion" /\ MotionNotify(queue[1])
    BY <1>1, <2>3, <2>4 DEF EventHandle, EnterNotify, ConfigureNotify
  <2>6. Way(queue[1]) = Minus(queue[1].at, cursor)
    BY <2>1, <2>4, <2>5 DEF Path, Still
  <2>7. \A a \in Axes : queue[1].moved[a] + queue[1].slid[a] = queue[1].at[a] - cursor[a]
    BY <2>6 DEF Way, Plus, Minus
  <2> QED
    BY <2>4, <2>5, <2>7 DEF MotionNotify
<1> QED
  BY <1>1, PointerInvariant, PTL DEF Spec, SentIsMoved
=============================================================================
