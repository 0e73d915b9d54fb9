------------------------------ MODULE LogRing ------------------------------
(***************************************************************************)
(* log.c and render.c: the ring of log entries, the buffers the entries    *)
(* reuse, and the redraw that walks through the ring with log_cycle().     *)
(*                                                                         *)
(* One slot always stays free, so the ring of N slots holds N-1 entries.   *)
(* The controller is one thread: log_add() never runs during a redraw.     *)
(* log_add() returns at once, changing nothing, for a level that is not    *)
(* wanted and when messages go to stdout; these calls are left out.        *)
(***************************************************************************)
EXTENDS Integers, Sequences

CONSTANTS
    N,         \* CONFIG_LOG_MAX
    Msgs,      \* formatted messages
    LenOf,     \* message -> its length
    Lines      \* the values log_lines takes in render()

ASSUME NAssumption == N \in Nat /\ N > 1
ASSUME MsgsAssumption == LenOf \in [Msgs -> Nat]
ASSUME LinesAssumption == Lines \subseteq Nat

Slots == 0..N-1
NoMsg == "no message"
ASSUME NoMsgAssumption == NoMsg \notin Msgs

VARIABLES
    msg,               \* what entry->text holds
    room,              \* the bytes allocated for entry->text, 0 for a null pointer
    len,               \* entry->len
    log_start, log_end, log_next,
    render_requested,
    pc, max, out,      \* a running redraw: its log_lines and the lines drawn
    screen             \* the lines of the last redraw

entries == <<msg, room, len>>
indices == <<log_start, log_end, log_next>>
drawing == <<pc, max, out, screen>>
vars    == <<entries, indices, render_requested, drawing>>

\* Mutant of IncIdx: the end of the array is not the end of the ring.
IncIdx_NoWrap(idx, inc) == idx + inc

IncIdx(idx, inc) == (idx + inc) % N

\* log_cycle(): the number of entries.
log_size == IF log_start <= log_end THEN log_end - log_start
            ELSE N - log_start + log_end

\* The messages in the ring, oldest first.
Content == [j \in 1..log_size |-> msg[IncIdx(log_start, j - 1)]]

TypeOK ==
    /\ msg \in [Slots -> Msgs \cup {NoMsg}]
    /\ room \in [Slots -> Nat]
    /\ len \in [Slots -> Nat]
    /\ log_start \in Slots /\ log_end \in Slots /\ log_next \in Slots
    /\ render_requested \in BOOLEAN
    /\ pc \in {"idle", "cycle"}
    /\ max \in Lines \cup {0}
    /\ out \in Seq(Msgs) /\ screen \in Seq(Msgs)

Init ==
    /\ msg = [i \in Slots |-> NoMsg]
    /\ room = [i \in Slots |-> 0]
    /\ len = [i \in Slots |-> 0]
    /\ log_start = 0 /\ log_end = 0 /\ log_next = 0
    /\ render_requested = FALSE
    /\ pc = "idle" /\ max = 0 /\ out = <<>> /\ screen = <<>>

\* Mutant of Fits: a buffer, once there, is never too short.
Fits_AnyBuffer(m) == room[log_end] # 0

\* log_add(): a buffer is kept when the text fits its length; entry->len stays
\* at the length the buffer was allocated for.
Fits(m) == room[log_end] # 0 /\ LenOf[m] <= len[log_end]

Allocate(m) ==
    \/ Fits(m) /\ UNCHANGED <<room, len>>
    \/ /\ ~Fits(m)
       /\ room' = [room EXCEPT ![log_end] = LenOf[m] + 1]
       /\ len' = [len EXCEPT ![log_end] = LenOf[m]]

\* Mutant of Advance: the next redraw starts where the ring started before.
Advance_StaleNext ==
    /\ log_end' = IncIdx(log_end, 1)
    /\ log_start' = IF log_end' = log_start THEN IncIdx(log_start, 1) ELSE log_start
    /\ UNCHANGED log_next

\* log_add(): the indices after the entry at log_end was written.
Advance ==
    /\ log_end' = IncIdx(log_end, 1)
    /\ IF log_end' = log_start
       THEN /\ log_start' = IncIdx(log_start, 1)
            /\ log_next' = log_start'
       ELSE UNCHANGED <<log_start, log_next>>

\* Mutant of LogAdd: no redraw is asked for.
LogAdd_NoMark(m) ==
    /\ pc = "idle"
    /\ Allocate(m)
    /\ msg' = [msg EXCEPT ![log_end] = m]
    /\ Advance
    /\ UNCHANGED <<render_requested, drawing>>

LogAdd(m) ==
    /\ pc = "idle"
    /\ Allocate(m)
    /\ msg' = [msg EXCEPT ![log_end] = m]
    /\ Advance
    /\ render_requested' = TRUE
    /\ UNCHANGED drawing

\* log_add(): the old buffer was too short, and there is no memory.
LogAddFails(m) ==
    /\ pc = "idle"
    /\ ~Fits(m)
    /\ room' = [room EXCEPT ![log_end] = 0]
    /\ len' = [len EXCEPT ![log_end] = 0]
    /\ msg' = [msg EXCEPT ![log_end] = NoMsg]
    /\ UNCHANGED <<indices, render_requested, drawing>>

\* render_mark(), called for an Expose event and by the backends.
render_mark ==
    /\ pc = "idle"
    /\ render_requested' = TRUE
    /\ UNCHANGED <<entries, indices, drawing>>

\* render() up to its loop over log_cycle().
render ==
    /\ pc = "idle" /\ render_requested
    /\ pc' = "cycle"
    /\ max' \in Lines
    /\ out' = <<>>
    /\ UNCHANGED <<entries, indices, render_requested, screen>>

\* log_cycle(): the entry to return is looked for at this index.
FirstIdx ==
    IF log_next = log_start /\ log_size > max
    THEN IncIdx(log_next, log_size - max)
    ELSE log_next

\* One turn of the loop in render(): log_cycle() returns an entry ...
log_cycle ==
    /\ pc = "cycle"
    /\ FirstIdx # log_end
    /\ out' = Append(out, msg[FirstIdx])
    /\ log_next' = IncIdx(FirstIdx, 1)
    /\ UNCHANGED <<entries, log_start, log_end, render_requested, pc, max, screen>>

\* ... or none, and the redraw is complete.
render_end ==
    /\ pc = "cycle"
    /\ FirstIdx = log_end
    /\ log_next' = log_start
    /\ screen' = out
    /\ pc' = "idle"
    /\ render_requested' = FALSE
    /\ UNCHANGED <<entries, log_start, log_end, max, out>>

Next ==
    \/ \E m \in Msgs : LogAdd(m) \/ LogAddFails(m)
    \/ render_mark \/ render \/ log_cycle \/ render_end

Spec == Init /\ [][Next]_vars

-----------------------------------------------------------------------------
(* Properties.                                                             *)

\* The ring keeps its promise: entries come and go as in a list that keeps
\* the newest N-1, and every redraw shows the newest ones, in order, none
\* twice, however the ring has wrapped and wherever the last redraw stopped.
Log == INSTANCE BoundedLog WITH log <- Content, Keep <- N - 1
KeepsNewest == Log!Spec

\* Every entry a redraw can reach has a text, and the text with its final 0
\* fits the buffer, however often the slot was used again or malloc() failed.
TextFits ==
    \A j \in 1..log_size : LET i == IncIdx(log_start, j - 1)
                           IN  msg[i] # NoMsg /\ LenOf[msg[i]] < room[i]

\* When no redraw is due, the screen shows the newest entries.
ScreenIsCurrent == ~render_requested => screen = Log!Newest(Content, max)
=============================================================================
