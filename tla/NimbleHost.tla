----------------------------- MODULE NimbleHost -----------------------------
(* The Bluetooth host of the firmware: NimBLE's host task with its event    *)
(* queue, HCI commands, resets and GAP state, and what NimBLE-Arduino and   *)
(* BleKeyboard keep of it.                                                  *)
(*                                                                          *)
(* Two tasks send commands to the controller: the host task, which runs the *)
(* queued events one after another, and the loop task while it is in        *)
(* BleKeyboard::begin().  A command waits for its acknowledgement; one that *)
(* gets none in time, or one of another command, schedules a reset.         *)
EXTENDS Integers, Sequences, SequencesExt, FiniteSets

CONSTANTS
    Startup,    \* the commands of ble_hs_startup_go(), in their order
    Handles,    \* the connection handles of the controller
    MaxFaults,  \* bound on its faults
    MaxQueue    \* bound on the events that wait for the host task

\* No command comes twice in the startup, and none of the others, or of the names
\* of what the tasks do between commands, is one of it.
ASSUME StartupAssumption ==
    /\ Startup \in Seq(STRING) /\ IsInjective(Startup)
    /\ Len(Startup) > MaxFaults + 1 /\ Startup[1] = "reset"
    /\ \A i \in DOMAIN Startup :
          Startup[i] \notin {"data", "params", "enable", "irks", "feat", "idle", "broken",
                             "onsync", "adv", "init", "create", "start", "none"}
ASSUME FaultsAssumption == MaxFaults \in Nat
ASSUME QueueAssumption  == MaxQueue \in Nat

Tasks == {"host", "loop"}

\* "irks" are those of ble_hs_misc_restore_irks(), "feat" is the one of a new
\* connection; the advertising is started with three.
StartupCommands == Range(Startup)
AdvCommands     == {"data", "params", "enable"}
Commands        == StartupCommands \cup AdvCommands \cup {"irks", "feat"}

Event(type)  == [type |-> type, handle |-> "none"]
Linked(h)    == [type |-> "conn", handle |-> h]
Unlinked(h)  == [type |-> "disc", handle |-> h]
Resetting    == Event("reset")
Expired      == Event("timer")
HwError      == Event("hw")
Events       == {Resetting, Expired, HwError}
                    \cup {Linked(h) : h \in Handles} \cup {Unlinked(h) : h \in Handles}

VARIABLES
    pc,        \* the command, or the part of its work, a task has come to
    state,     \* ble_hs_sync_state
    reason,    \* ble_hs_reset_reason
    evq,       \* ble_hs_evq
    timer,     \* ble_hs_timer is running
    hci,       \* the task that holds ble_hs_hci_mutex and waits
    ack,       \* ble_hs_hci_ack, with the count of ble_hs_hci_sem
    adv,       \* ble_gap_slave[0].op is BLE_GAP_OP_S_ADV
    conns,     \* ble_hs_conns
    synced,    \* NimBLEDevice::m_synced
    ready,     \* NimBLEDevice::initialized and m_bleAdvertising
    dataSet,   \* NimBLEAdvertising::m_advDataSet
    connected, \* BleKeyboard::connected
    ctl,       \* the controller: its advertising, links and commands
    faults,    \* its faults so far
    crossed,   \* a connection was reported and ended by a reset of the controller
    early      \* the host was reset while begin() was on its way to the advertising

host  == <<state, reason, timer>>
gap   == <<adv, conns>>
app   == <<synced, ready, dataSet, connected>>
marks == <<faults, crossed, early>>
vars  == <<pc, host, evq, hci, ack, gap, app, ctl, marks>>

NoAck == [op |-> "none", ok |-> FALSE]

TypeOK ==
    /\ pc["host"] \in Commands \cup {"idle", "broken", "onsync", "adv"}
    /\ pc["loop"] \in AdvCommands \cup {"init", "create", "start", "adv", "idle"}
    /\ state \in {"bad", "bringup", "good"}
    /\ reason \in {"none", "hci", "hw"}
    /\ evq \in Seq(Events) /\ Len(evq) <= MaxQueue + 3
    /\ timer \in BOOLEAN
    /\ hci \in Tasks \cup {"none"}
    /\ ack \in [op : Commands, ok : BOOLEAN] \cup {NoAck}
    /\ adv \in BOOLEAN /\ conns \subseteq Handles
    /\ synced \in BOOLEAN /\ ready \in {"no", "initialized", "yes"}
    /\ dataSet \in BOOLEAN /\ connected \in BOOLEAN
    /\ ctl.adv \in BOOLEAN /\ ctl.data \in BOOLEAN /\ ctl.links \subseteq Handles
    /\ ctl.cmds \in Seq(Commands) /\ Len(ctl.cmds) <= MaxFaults + 1
    /\ faults \in 0..MaxFaults
    /\ crossed \in BOOLEAN /\ early \in BOOLEAN

\* The host task is the first to run; setup() waits for it in init().
Init ==
    /\ pc = [host |-> "reset", loop |-> "init"]
    /\ state = "bringup" /\ reason = "none" /\ evq = <<>> /\ timer = FALSE
    /\ hci = "none" /\ ack = NoAck
    /\ adv = FALSE /\ conns = {}
    /\ synced = FALSE /\ ready = "no" /\ dataSet = FALSE /\ connected = FALSE
    /\ ctl = [adv |-> FALSE, data |-> FALSE, links |-> {}, cmds |-> <<>>]
    /\ faults = 0 /\ crossed = FALSE /\ early = FALSE

Goto(t, label) == pc' = [pc EXCEPT ![t] = label]

\* An event that is queued already is not queued again.
Put(q, e) == IF Contains(q, e) THEN q ELSE Append(q, e)

\* ble_gap_adv_start() holds the host's mutex over its two commands.
HsLocked == pc["loop"] \in {"params", "enable"}

-----------------------------------------------------------------------------
(* Starting the advertising.                                                *)

\* Where NimBLEAdvertising::start() goes from its checks.
AdvEntry(sync, active, data) ==
    IF ~sync \/ active THEN "idle" ELSE IF data THEN "adv" ELSE "data"

\* ble_gap_adv_start(), up to its first command.
AdvStart(t) ==
    /\ pc[t] = "adv"
    /\ t = "loop" => pc["host"] \notin {"params", "enable"}
    /\ t = "host" => ~HsLocked
    /\ Goto(t, IF adv THEN "idle" ELSE "params")
    /\ UNCHANGED <<host, evq, hci, ack, gap, app, ctl, marks>>

-----------------------------------------------------------------------------
(* Commands.                                                                *)

\* The command of the startup that follows one of them.
Following(c) == Startup[1 + CHOOSE i \in DOMAIN Startup : Startup[i] = c]

\* ble_gap_adv_start() marks the advertising active between its commands.
AdvAfter(c, ok) == (adv \/ (c = "params" /\ ok)) /\ ~(c = "enable" /\ ~ok)

\* What follows a command, by its result.
After(t, ok) ==
    LET c == pc[t] IN
    /\ \/ ~ok /\ c \in StartupCommands \cup {"data", "params"} /\ Goto(t, "idle")
       \/ ok /\ c \in StartupCommands \ {Last(Startup)} /\ Goto(t, Following(c))
       \/ ok /\ c = Last(Startup) /\ \E l \in {"irks", "onsync"} : Goto(t, l)
       \/ ok /\ c = "data" /\ Goto(t, "adv")
       \/ ok /\ c = "params" /\ Goto(t, "enable")
       \/ c = "irks" /\ Goto(t, "onsync")
       \/ c \in {"feat", "enable"} /\ Goto(t, "idle")
    /\ IF c \in StartupCommands /\ (c = Last(Startup) \/ ~ok)
       THEN state' = (IF ok THEN "good" ELSE "bad") /\ timer' = TRUE
       ELSE UNCHANGED <<state, timer>>
    /\ dataSet' = (dataSet \/ (c = "data" /\ ok))
    /\ adv' = AdvAfter(c, ok)
    /\ UNCHANGED <<conns, synced, ready, connected>>

ScheduleReset(why, q) == reason' = why /\ evq' = Put(q, Resetting)

MaySend(t) == state = "good" \/ (state = "bringup" /\ t = "host")

\* ble_hs_hci_cmd_tx(), up to the wait.
Send(t) ==
    /\ pc[t] \in Commands /\ hci = "none"
    /\ IF MaySend(t)
       THEN /\ hci' = t
            /\ ctl' = [ctl EXCEPT !.cmds = Append(@, pc[t])]
            /\ UNCHANGED <<pc, state, timer, gap, app>>
       ELSE After(t, FALSE) /\ UNCHANGED <<hci, ctl>>
    /\ UNCHANGED <<reason, evq, ack, marks>>

\* Mutant of TakeAck: the acknowledgement of another command will do.
TakeAck_Any(t) ==
    /\ hci = t /\ ack # NoAck
    /\ hci' = "none" /\ ack' = NoAck
    /\ After(t, ack.ok)
    /\ UNCHANGED <<reason, evq, ctl, marks>>

\* The rest of it with an acknowledgement: one of another command resets.
TakeAck(t) ==
    /\ hci = t /\ ack # NoAck
    /\ hci' = "none" /\ ack' = NoAck
    /\ IF ack.op = pc[t] THEN UNCHANGED <<reason, evq>> ELSE ScheduleReset("hci", evq)
    /\ After(t, ack.op = pc[t] /\ ack.ok)
    /\ UNCHANGED <<ctl, marks>>

\* The rest of it after BLE_HCI_CMD_TIMEOUT_MS: the command was lost, or its
\* acknowledgement is late.
AckTimeout(t) ==
    /\ hci = t /\ ack = NoAck
    /\ IF Contains(ctl.cmds, pc[t])
       THEN faults < MaxFaults /\ faults' = faults + 1
       ELSE UNCHANGED faults
    /\ hci' = "none"
    /\ ScheduleReset("hci", evq)
    /\ After(t, FALSE)
    /\ UNCHANGED <<ack, ctl, crossed, early>>

-----------------------------------------------------------------------------
(* The events of the host task.                                             *)

Next1(e) == pc["host"] = "idle" /\ evq # <<>> /\ evq[1].type = e

\* ble_hs_event_reset(), and ble_hs_timer_exp() when the host is not in sync:
\* ble_hs_reset(), up to the connections.
ResetBegins ==
    /\ Next1("reset") \/ (Next1("timer") /\ state = "bad")
    /\ evq' = Tail(evq)
    /\ state' = "bad"
    /\ Goto("host", "broken")
    /\ early' = (early \/ (synced /\ pc["loop"] # "idle"))
    /\ UNCHANGED <<reason, timer, hci, ack, gap, app, ctl, faults, crossed>>

\* Mutant of GapReset: the connections are forgotten without an event.
GapReset_Silent == conns' = {} /\ adv' = FALSE /\ UNCHANGED connected

\* ble_gap_reset_state(): the connections break, of which the firmware learns,
\* and then the advertising ends.  What the firmware tries to advertise on the
\* event fails, as the host is not in sync.
GapReset == conns' = {} /\ connected' = (connected /\ conns = {}) /\ adv' = FALSE

\* The rest of ble_hs_reset(), up to the first command of ble_hs_sync(): the
\* firmware's onReset() is called if there is a reason.
ResetEnds ==
    /\ pc["host"] = "broken" /\ ~HsLocked
    /\ GapReset
    /\ synced' = (synced /\ reason = "none")
    /\ reason' = "none"
    /\ state' = "bringup"
    /\ Goto("host", "reset")
    /\ UNCHANGED <<timer, evq, hci, ack, ready, dataSet, ctl, marks>>

\* Mutant of OnSync: the data of the advertisement are taken for set.
OnSync_KeepsData ==
    /\ pc["host"] = "onsync"
    /\ synced' = TRUE
    /\ IF ~synced /\ ready = "yes"
       THEN Goto("host", AdvEntry(TRUE, adv, dataSet))
       ELSE Goto("host", "idle")
    /\ UNCHANGED <<host, evq, hci, ack, gap, dataSet, ready, connected, ctl, marks>>

\* Mutant of OnSync: the advertising is not started again.
OnSync_Quiet ==
    /\ pc["host"] = "onsync"
    /\ synced' = TRUE
    /\ Goto("host", "idle")
    /\ UNCHANGED <<host, evq, hci, ack, gap, dataSet, ready, connected, ctl, marks>>

\* ble_hs_sync() after its commands: NimBLEDevice::onSync(), and with it
\* NimBLEAdvertising::onHostSync().
OnSync ==
    /\ pc["host"] = "onsync"
    /\ synced' = TRUE
    /\ IF ~synced /\ ready = "yes"
       THEN dataSet' = FALSE /\ Goto("host", AdvEntry(TRUE, adv, FALSE))
       ELSE UNCHANGED dataSet /\ Goto("host", "idle")
    /\ UNCHANGED <<host, evq, hci, ack, gap, ready, connected, ctl, marks>>

\* ble_hs_timer_exp() when nothing has to be done.
TimerIdle ==
    /\ Next1("timer") /\ state = "good"
    /\ evq' = Tail(evq)
    /\ UNCHANGED <<pc, host, hci, ack, gap, app, ctl, marks>>

\* ble_hs_hci_evt_hw_error()
HardwareError ==
    /\ Next1("hw")
    /\ ScheduleReset("hw", Tail(evq))
    /\ UNCHANGED <<pc, state, timer, hci, ack, gap, app, ctl, marks>>

\* ble_gap_rx_conn_complete(), up to the command it ends with.  It takes the
\* connection only while it advertises.
ConnComplete ==
    /\ Next1("conn") /\ ~HsLocked
    /\ evq' = Tail(evq)
    /\ IF evq[1].handle \notin conns /\ adv
       THEN /\ conns' = conns \cup {evq[1].handle}
            /\ adv' = FALSE /\ connected' = TRUE
            /\ Goto("host", "feat")
       ELSE UNCHANGED <<pc, gap, connected>>
    /\ UNCHANGED <<host, hci, ack, synced, ready, dataSet, ctl, marks>>

\* ble_gap_rx_disconn_complete(), and the firmware's handler, which starts the
\* advertising.
DisconnComplete ==
    /\ Next1("disc") /\ ~HsLocked
    /\ evq' = Tail(evq)
    /\ IF evq[1].handle \in conns
       THEN /\ conns' = conns \ {evq[1].handle}
            /\ connected' = FALSE
            /\ Goto("host", AdvEntry(synced, adv, dataSet))
       ELSE UNCHANGED <<pc, conns, connected>>
    /\ UNCHANGED <<host, hci, ack, adv, synced, ready, dataSet, ctl, marks>>

TimerExpires ==
    /\ timer
    /\ timer' = FALSE /\ evq' = Put(evq, Expired)
    /\ UNCHANGED <<pc, state, reason, hci, ack, gap, app, ctl, marks>>

-----------------------------------------------------------------------------
(* The loop task in BleKeyboard::begin().                                   *)

\* BLEDevice::init(): waits for the host.
Initialized ==
    /\ pc["loop"] = "init" /\ synced
    /\ ready' = "initialized" /\ Goto("loop", "create")
    /\ UNCHANGED <<host, evq, hci, ack, gap, synced, dataSet, connected, ctl, marks>>

\* getAdvertising()
CreateAdvertising ==
    /\ pc["loop"] = "create"
    /\ ready' = "yes" /\ Goto("loop", "start")
    /\ UNCHANGED <<host, evq, hci, ack, gap, synced, dataSet, connected, ctl, marks>>

\* advertising->start(), up to the first command.
StartAdvertising ==
    /\ pc["loop"] = "start"
    /\ Goto("loop", AdvEntry(synced, adv, dataSet))
    /\ UNCHANGED <<host, evq, hci, ack, gap, app, ctl, marks>>

-----------------------------------------------------------------------------
(* The controller.                                                          *)

\* What it makes of a command, and whether it accepts it.
Executed(c) ==
    CASE c = "reset"  -> [ctl EXCEPT !.adv = FALSE, !.data = FALSE, !.links = {}]
      [] c = "data"   -> [ctl EXCEPT !.data = TRUE]
      [] c = "enable" -> [ctl EXCEPT !.adv = TRUE]
      [] OTHER        -> ctl

Accepted(c) == c = "params" => ~ctl.adv

Crosses(c) == c = "reset" /\ \E h \in Handles : Contains(evq, Linked(h))

\* ble_hs_hci_rx_ack(): an acknowledgement is dropped while another one waits.
Answer(op, ok) == ack' = IF ack = NoAck THEN [op |-> op, ok |-> ok] ELSE ack

CtlExecutes ==
    /\ ctl.cmds # <<>>
    /\ LET c == ctl.cmds[1] IN
       /\ ctl' = [Executed(c) EXCEPT !.cmds = Tail(@)]
       /\ Answer(c, Accepted(c))
       /\ crossed' = (crossed \/ Crosses(c))
    /\ UNCHANGED <<pc, host, evq, hci, gap, app, faults, early>>

\* It refuses a command of the startup, "not fully booted".
CtlRefuses ==
    /\ ctl.cmds # <<>> /\ ctl.cmds[1] \in StartupCommands /\ faults < MaxFaults
    /\ ctl' = [ctl EXCEPT !.cmds = Tail(@)]
    /\ Answer(ctl.cmds[1], FALSE)
    /\ faults' = faults + 1
    /\ UNCHANGED <<pc, host, evq, hci, gap, app, crossed, early>>

\* It loses a command, or its acknowledgement.
CtlLoses ==
    /\ ctl.cmds # <<>> /\ faults < MaxFaults
    /\ LET c == ctl.cmds[1] IN
       \/ ctl' = [ctl EXCEPT !.cmds = Tail(@)] /\ UNCHANGED crossed
       \/ ctl' = [Executed(c) EXCEPT !.cmds = Tail(@)] /\ crossed' = (crossed \/ Crosses(c))
    /\ faults' = faults + 1
    /\ UNCHANGED <<pc, host, evq, hci, ack, gap, app, early>>

CtlConnects ==
    /\ ctl.adv /\ Len(evq) < MaxQueue
    /\ \E h \in Handles \ ctl.links :
       /\ ctl' = [ctl EXCEPT !.adv = FALSE, !.links = @ \cup {h}]
       /\ evq' = Append(evq, Linked(h))
    /\ UNCHANGED <<pc, host, hci, ack, gap, app, marks>>

CtlDisconnects ==
    /\ Len(evq) < MaxQueue
    /\ \E h \in ctl.links :
       /\ ctl' = [ctl EXCEPT !.links = @ \ {h}]
       /\ evq' = Append(evq, Unlinked(h))
    /\ UNCHANGED <<pc, host, hci, ack, gap, app, marks>>

CtlFails ==
    /\ faults < MaxFaults /\ Len(evq) < MaxQueue
    /\ evq' = Append(evq, HwError)
    /\ faults' = faults + 1
    /\ UNCHANGED <<pc, host, hci, ack, gap, app, ctl, crossed, early>>

-----------------------------------------------------------------------------
Task(t) == AdvStart(t) \/ Send(t) \/ TakeAck(t) \/ AckTimeout(t)

HostTask ==
    \/ Task("host")
    \/ ResetBegins \/ ResetEnds \/ OnSync \/ TimerIdle \/ HardwareError
    \/ ConnComplete \/ DisconnComplete

LoopTask == Task("loop") \/ Initialized \/ CreateAdvertising \/ StartAdvertising

Controller == CtlExecutes \/ CtlRefuses \/ CtlLoses \/ CtlConnects \/ CtlDisconnects \/ CtlFails

Next == HostTask \/ LoopTask \/ TimerExpires \/ Controller

Spec == Init /\ [][Next]_vars

\* The tasks and the timer run, and the controller answers what it does not lose.
FairSpec ==
    /\ Spec /\ WF_vars(HostTask) /\ WF_vars(LoopTask)
    /\ WF_vars(TimerExpires) /\ WF_vars(CtlExecutes)

-----------------------------------------------------------------------------
(* Properties.                                                              *)

\* Nothing is under way in the firmware or between it and the controller.
Quiet ==
    /\ pc = [host |-> "idle", loop |-> "idle"]
    /\ evq = <<>> /\ ctl.cmds = <<>> /\ ack = NoAck

\* More acknowledgements are to come than commands wait.
Behind == Len(ctl.cmds) + (IF ack = NoAck THEN 0 ELSE 1) > (IF hci = "none" THEN 0 ELSE 1)

\* Whatever was lost, late or reset on the way: when all is quiet, host and
\* controller agree on the advertising and the links, and the firmware's
\* connected flag tells whether there is one.
Agree ==
    Quiet /\ state = "good" /\ ~crossed /\ ~early =>
        adv = ctl.adv /\ conns = ctl.links /\ (connected <=> conns # {})

\* The host gets into sync only with a controller that has nothing left to
\* answer: a late acknowledgement cannot be taken for one of the startup.
SyncInStep == [][state # "good" /\ state' = "good" => ctl.cmds = <<>> /\ ack' = NoAck]_vars

\* The host task does not enable an advertising without data, which a reset
\* of the controller has cleared.
HasData == pc["host"] = "enable" /\ ~early => ctl.data

\* ble_hs.h of ble_hs_sched_reset(): "The application is notified when the
\* reset occurs via the host reset callback".  While the host gets into sync
\* again NimBLEDevice does not take it for synchronised.
ResetIsTold == pc["host"] \in StartupCommands => ~synced

\* Once its faults are over the device can be found or is in use again and
\* again, unless a reset was not told, a connection was reported that a reset
\* of the controller had ended, the host was reset under begin(), or
\* acknowledgements stay one behind.
Available == ctl.adv \/ (conns # {} /\ conns = ctl.links)

Reachable == [](ResetIsTold /\ ~crossed /\ ~early) /\ <>[]~Behind => []<>Available
=============================================================================
