# Mouseboard in TLA+

Mouseboard forwards the keyboard and the mouse of one machine to another one. The
*controller* opens an X11 window and takes every key, button and motion event it gets; a
*backend* carries them to the receiver. The bluetooth backend talks over a USB serial line
to an ESP32 whose *firmware* is a BLE keyboard and mouse. The x11 backend talks over TCP to
`xmbrecv`, which replays the events on the receiver's X server.

This directory models that program in TLA+, checks the models with TLC and proves the
central properties with TLAPS.

## 1. Inventory

| Part | Source | State | Operations | Talks to |
|---|---|---|---|---|
| Event loop, event handlers | `controller/main.c`, `controller/events.c` | the window's size, `cursor_x/y` | one handler per X event; at most one event at a time, then a redraw | X server (events in, warps out), backend (calls) |
| Log and redraw | `controller/log.c`, `controller/render.c` | ring `log`, `log_start/end/next`, `render_requested` | `log_add`, `log_cycle`, `render_mark`, `render` | called from everywhere in the controller |
| Bluetooth backend | `backend/bluetooth/callbacks.c` | `uart_t`: `fd`, `dev_num`, `connected` | `be_key/button/move/stop/destroy`, `send_cmd`, `trywrite`, `reinit`, `discover` | firmware, over the serial line |
| Key tables | `translate_keysym` in `callbacks.c`, `translate` and `nonascii_keys` in `firmware.ino`, `_asciimap` | none | pure functions | |
| Firmware loop | `firmware.ino` | position in the command it reads | `loop`, `read`, `write`, one handler per header | controller, BLE classes |
| HID reports | `blekeyboard.cc`, `blemouse.cc` | `_keyReport`, `_buttons`, `connected` | `press`, `release`, `releaseAll`, `sendReport`, `move`, `buttons`, `onConnect`, `onDisconnect` | NimBLE task (callbacks), BLE host (reports) |
| x11 backend | `backend/x11/callbacks.c`, `shared/socket.c` | `socket_t` | `send_dgram`, `be_*` | `xmbrecv`, over TCP |
| `xmbrecv` | `backend/x11/xmbrecv/main.c` | the current client | `handle_client` | receiver's X server |
| xlib wrapper, options | `shared/xlib.c`, `*/opts.c` | `xerrno`, `opts` | drawing, command line | |
| NimBLE host, advertising | vendored `ble_hs*.c`, `ble_gap.c`, `NimBLEDevice.cpp`, `NimBLEAdvertising.cpp` | `sync_state`, `reset_reason`, event queue, the waiting HCI command, `m_synced`, `m_advDataSet` | startup, reset, `ble_hs_hci_cmd_tx`, `ble_gap_adv_start`, connections | Bluetooth controller (commands, events), firmware (callbacks) |
| Bonds and subscriptions | vendored `ble_store_*.c`, parts of `ble_sm.c`, `ble_gatts.c`, `ble_gap.c` | security records and CCCDs, in RAM and NVS; `bonded`, `encrypted`, CCCD flags of the connection | `ble_store_write/delete`, `persist_...`, pairing, restoring, unpairing | flash, BLE hosts |
| the rest of NimBLE-Arduino | vendored | the BLE stack | `notify` and the callbacks are what the firmware sees | |

What is hard in it:

* *The serial protocol has no framing and no sequence numbers.* A command is a header byte
  and the arguments that belong to it, an answer is one byte. The controller stops waiting
  after half a second, the firmware waits for ever. Everything that loses, delays or repeats
  a byte has to be survived by counting. (`UartLink`)
* *Two tasks in the firmware.* The loop task asks `isConnected()` twice for each command,
  and the NimBLE task changes the answer at any moment; the reports outlive a connection.
  (`BleHid`)
* *A persistent report with few slots.* Every report carries the state of all keys; keys
  share usages and modifier bits; a full report behaves unlike an empty one. (`BleHid`)
* *A ring with reused buffers* whose reader keeps its position in a static variable between
  calls. (`LogRing`)
* *The pointer* is followed by differences while the program itself moves it, and the
  X server executes and reports a movement some time after it was requested. (`Pointer`)
* *The x11 receiver* serves one client at a time with blocking calls, and either
  side may be gone at each of them. (`X11Link`)
* *A release has a long way*: from the event over the serial link and the handler to the BLE
  host, and each part may forget it for its own reasons. (`Mouseboard`)
* *Four tables in three files* turn a keysym into a position on the host's keyboard. (`KeyMap`)
* *The BLE host resets itself* when the controller fails, loses a command or answers too late,
  while `begin()` in the loop task starts the advertising. (`NimbleHost`)
* *Bonds outlive the power*: each event changes several records, one at a time, and what the
  flash has to be changed in is inferred from the number of records. (`BondStore`)

`PROJECT.json` lists the hazards one by one, at the lines where they bite.

## 2. Modules

| Module | What it is |
|---|---|
| `BleHid` | handlers of the firmware, keyboard and mouse reports, NimBLE callbacks, the BLE host |
| `MCBleHid` | keys and buttons for TLC |
| `BleHidProofs` | TLAPS proofs about `BleHid` |
| `BtProtocol` | headers, arguments and answers of the serial protocol |
| `UartLink` | controller and firmware on both ends of the serial line |
| `MCUartLink` | commands for TLC |
| `UartLinkProofs` | TLAPS proofs about `UartLink` |
| `BoundedLog` | what the log promises: the newest messages, in order |
| `LogRing` | the ring and the redraw, as the code has them |
| `MCLogRing` | messages for TLC |
| `LogRingProofs` | TLAPS proofs about `LogRing` |
| `Pointer` | `motion_notify()` and the X server that queues events and executes warps |
| `MCPointer` | window sizes and slides for TLC |
| `PointerProofs` | TLAPS proofs about `Pointer` |
| `Delivery` | what a link promises its users: each event in order, at most once, and confirmed means executed |
| `X11Link` | controllers and `xmbrecv` on both ends of TCP connections |
| `MCX11Link` | one event less for one of the controllers, for TLC |
| `X11LinkProofs` | TLAPS proofs about `X11Link` |
| `Mouseboard` | composition of `UartLink` and `BleHid`, with the user's fingers |
| `MCMouseboard` | keys, buttons and commands for TLC |
| `MouseboardProofs` | TLAPS proofs about `Mouseboard` and about the tables of `KeyMap` behind its constants |
| `KeyMap` | the key tables of controller, firmware and keyboard library |
| `KeyTables` | an instance of `KeyMap`, and the constants of `BleHid` and `Mouseboard` that stand for its tables |
| `NimbleHost` | NimBLE's host task, resets, HCI commands and advertising, `begin()` and a controller with faults |
| `MCNimbleHost` | the commands of the startup for TLC |
| `NimbleHostProofs` | TLAPS proofs about `NimbleHost` |
| `BondStore` | bonds and subscriptions in RAM and NVS, the hosts and the loss of power |
| `MCBondStore` | symmetry for TLC |
| `BondStoreProofs` | TLAPS proofs about `BondStore` |

### BleHid

`keys`, `modifiers` and `buttons` are the reports, with a usage in each slot (0 for none) and
sets of bits for the masks. `pc` says what is left of the running command: nothing
(`"idle"`), the send of the keyboard report (`"kbd"`), that of the mouse report (`"mouse"`),
or the loop over the masks in `close()` (`"mask"`). A command is split where the code looks
at the link: `Key`, `Button`, `Motion` and `Close` are the handlers up to their first send
(with the first `isConnected()`), `SendReport`, `SendMouse` and `ReleaseMask` the sends
(with the second one, in `sendReport()` or `move()`). Between them `OnConnect`, `Subscribe`
and `OnDisconnect` happen as they like: that is the interleaving of the two tasks.

`Press` and `Release` follow `BleKeyboard::press` and `release` line by line: the modifier is
set first, a modifier key counts as usage 0, which is "present" as long as a slot is empty,
and a full report ends `press()` without a send. `UsageOf` and `ModsOf` stand for the ASCII
table and the key code ranges.

The BLE host is the last report it got. `link = "connected"` is a connection on which the host
has not subscribed yet; `notify()` reaches it only when `link = "ready"`, and with
`NotifyMayFail` it may be dropped then too. `kbdSeen` and `mouseSeen` are history: whether
the host has got a report on this connection, and whether one was lost since. `held` and
`missed` are history too: the keys the user holds, and those whose release was answered
`ENOCON`.

### UartLink

`pc` is the place of the controller in `send_cmd()` (`"data"`, `"read"`) or `discover()`
(`"scan"`, `"ping"`). `down` and `up` are the bytes under way, `taken` those the firmware has
read of a command. `live` says whether the file the controller holds still leads to the
device; `attached` is the port the device is at. A write to a dead file fails and starts
`Reinit`; the command is forgotten, as in `trywrite()`. A read ends with a byte
(`ReadResponse`, `Found`, `WrongAnswer`) or with nothing (`ReadTimeout`, `PingTimeout`):
the latter without further ado when nothing can come any more, and as a fault when the
firmware is merely slow. When a file is closed, the bytes that were already on their way to
it may be lost in part (`Suffixes`), or stay in the device for whoever opens it next.

The bytes carry the command they belong to and their position in it, and answers the command
they answer. The code has neither; no guard reads them except through `Val`, the byte itself.

### LogRing

One action per call: `LogAdd` with its buffer handling (`Allocate`) and its indices
(`Advance`), `LogAddFails` for a `malloc()` that fails, `render` up to its loop, `log_cycle`
for each turn and `render_end` for what follows the last one. `BoundedLog` is the
specification it implements, with `log` read off the ring (`Content`).

### Pointer

`pointer` is where the X server has the pointer, `cursor` where the controller believes it
is. `queue` holds the events on their way to the controller, `warps` the `XWarpPointer()`
requests on their way to the server. `EventHandle` takes one event and is `motion_notify()`,
`enter_notify()` or `configure_notify()`, each as a whole; `sent` is what the last one gave to
`be->move()`. `Warp` is the server's execution of a request; a warp to the place where the
pointer already is may cause an event or not, and one to a place that is outside of a window
that has become smaller takes the pointer out of it.

Positions are relative to the window. `UserConfigures` gives the window another size, another
place, or both: the pointer keeps its position in the window, is no longer in it, or slides by
one of the vectors in `Slides`, as under a window that is moved, or resized from its left or
top edge. No Enter or Motion event tells a slide, and `ConfigureNotify` takes over the size only.

A queued motion event carries the distance the user moved (`moved`), the window's slide before
it (`slid`) and who moved (`by`). `overtaken` remembers that the user or the window moved between
a warp's cause and its execution, `slid` how far the window slid since the last event with a
position, and `lost` that a warp then led to where the pointer was anyway, so that there was no
such event. The properties need them, the code has none of them.

### X11Link

Each controller is at one place of `send_dgram()` (`cpc`): `"connect"` before
`sock_connect()`, `"recv"` before `sock_recv()`, `"idle"` outside. `xmbrecv` (`spc`) is before
`sock_accept()`, or in `handle_client()` before `sock_recv()`, `sock_send()` or
`xlib_sync()`. A connection has bytes under way in both directions and two ends, which are
closed by the program or by the kernel when the process dies. What the code can tell of the
other end is what TCP tells it: `recv()` gives what is there and then an error, the first
`send()` to a closed end succeeds and makes the kernel answer with a reset, the next one
raises `SIGPIPE`, which the controller ignores and `xmbrecv` does not.

`Quit` and `Killed` happen at every place. An event in Xlib's buffer (`xbuf`) at that time
may have left it or not. `done` and `answered` are, per controller, the last event the X server
got and the last one answered `RESP_OK`; `lost` has the events `xmbrecv` was killed with.

`Deliveries` is the module `Delivery` with Xlib's buffer for the event the receiver has taken;
`Delivers` says that `X11Link` implements it. In `Delivery` there are no connections: an event
of a user is taken if it is newer than all of his that were executed, it is executed or lost
with the receiver, and it is confirmed only when it was taken.

### Mouseboard

`Mouseboard` extends `UartLink` and instantiates `BleHid` (as `Hid`, with `task` for its `pc`).
`UartLink` alone lets the firmware answer anything its handler has; here `FwHandle` calls the
handler that belongs to the header byte in `taken`, with the bytes that were read as its
arguments, the handler takes the steps of `BleHid` while the serial side goes on, and
`FwReply` sends its answer. `userHeld` and `untold` are history: what the user holds down, and
what was let go of and not confirmed by a status line saying "connected". `ReleaseElsewhere`
is a key let go of while another window has the focus, which the controller never hears of.
`LinkSpec` is the specification of `UartLink`: the composition implements it.

### KeyMap

One behaviour per keysym and setting of `reverse_custom_xkb_map`: `BeKey` is
`translate_keysym()`, `FwKey` is `translate()`, `Press` and `Release` what `press()` and
`releaseAll()` do to the report. The tables are the code's, entry by entry, with the X11 names
of the keysyms. `nonascii` has the first keysym of each distance in the order of the firmware's
`nonascii_keys`, `Distance` adds the keysyms that share one. `usage` and `mods` are what is in
the report; `host` is what a host takes of the usage, which is nothing beyond the maximum of the
report descriptor (`USAGE_MAXIMUM`, `AtHost`). `Positions`, `NumLockPositions` and `ModifierKeys`
are the reference: the keys of a German keyboard by their usage in the HID usage tables, which
name positions and not characters, and not by what the code's tables say. They differ in one
key: '#' is at 0x32 in the usage tables (Non-US # and ~) and leaves as 0x31, the key of an
American keyboard there, which hosts do not tell from it (`SameKey`).

### NimbleHost

`pc` says, for the host task and the loop task, at which command or between which calls it
is. `evq` is the event queue, in which an event that waits is not queued again (`Put`); `hci`
and `ack` are the mutex, the semaphore and the acknowledgement of `ble_hs_hci_cmd_tx()`: it
waits with a timeout, and what comes later is kept for the next command. `ResetBegins`,
`GapReset` and `ResetEnds` are `ble_hs_reset()`, with `onReset()` only if there is a reason;
`After` is what each command's result leads to. `ctl` is the controller: it executes a
command, refuses it, loses it (`CtlLoses`) or takes too long, connects, disconnects and
fails. `crossed` and `early` are history and name two situations the properties leave out,
see below.

### BondStore

`ram` and `nvs` hold the three kinds of records, `todo` what the event the host task works on
still has to do in the store: each step changes one record in RAM and at most one slot of the
NVS, and `PowerCut` comes between any two of them. `Persisted` is `persist_...()`: it compares
the numbers of records and infers from them what to write or erase. `WriteOverflows` is
`ble_store_write()` with `ble_store_util_status_rr()`: it unpairs a host and tries again, or
gives up (`Unpairable` are the hosts it may take). After a loss of power the records come back in
the order of their slots (`Restored`). `key` and `wish` are what the hosts remember; `unsaved` (subscriptions of before the
bond), `dropped` (bonds given up or not stored in full) and `replaced` are history.

## 3. Runs

| Run | Shows | Bounds, and why they are enough |
|---|---|---|
| `ble_hid` | `TypeOK`, `NoDuplicateUsage`, `StuckOnlyByRefusedRelease`, `HostInSync`, `CloseReleases`, `HostChangesMatchCommand`, `MotionRepairs` | A user has a keyboard or a mouse. Keyboard: two slots for three keys on two usages and a modifier key, so that the report fills up, two keys share a usage, one types with shift and shift is a key of its own. The code has six slots; `press()` tells only "present", "a free slot" and "full" apart, and the proofs hold for any number. Mouse: all button numbers `mouse_buttons` knows and one it refuses, one key for `close()`. |
| `uart_link` | `TypeOK`, `FramingNeedsNoAnswers`, `OnlyPingsSwallowed`, `Lockstep`, `AnswersInStep`, `Recovers` | A command of one byte and one of three, the longest there are; the first argument is a header byte as well, so that a misread one shows. The commands of two bytes are left to the proofs, which hold for any set of commands, and to `board`, whose key and button commands they are. Two ports, four bytes of room down and two up, three faults: an answer given up, a command cut short and a restart fit in one behaviour. |
| `log_ring` | `TypeOK`, `TextFits`, `ScreenIsCurrent`, `KeepsNewest` (refinement of `BoundedLog`) | Four slots, messages of two lengths, windows of no line, some lines and more lines than entries: the ring wraps, buffers are reused and replaced. The code has 150 slots. |
| `pointer` | `TypeOK`, `Tracks`, `SentIsMoved`, `Settles` | Two sizes of the window: one with a place away from the edges on one axis only, one with none at all. A margin of 2 instead of 50 pixels and an `int8_t` of six values, so that the longest moves wrap. The window stays where it is under the pointer or slides by one vector, different on both axes; slides add up to others. Three acts of the user before the events settle, without a bound on how often: one that leads to a warp and two that overtake it. |
| `pointer_warp` | violated, see below | as `pointer` |
| `x11_link` | `TypeOK`, `NoSigpipe`, `AnswersInStep`, `AnsweredExecuted`, `EventsReturn`, `Delivers` (refinement of `Delivery`) | Two controllers, one with two events and one with one, three connections and the listen queue of the code: one is served, one waits, and the connection of a controller's earlier life waits before its new one. |
| `board` | `StuckIsTold`, `StatusIsTrue`, `AckLifts`, `LinkSpec` (refinement of `UartLink`) | A key typed with shift and two faults, which let a command be cut short or forgotten and the device come back; or a button, a movement and one fault. One port, since the search for the device is `uart_link`'s. The button's number and one distance are header bytes. |
| `key_map` | `PositionKept`, `AcceptedIsTyped` | Every keysym of the tables, every printable character and some keysyms the code does not know, with the report descriptor's own maximum: nothing is left out. |
| `nimble_host` | `Agree`, `HasData`, `SyncInStep`, `Reachable` | Five commands of the startup, more than there are late acknowledgements; three faults of the controller (a lost, late or refused command, a hardware error) in any order and at any time; two connection handles, two waiting events of the controller. |
| `nimble_reset` | violated, see below | two faults, one handle |
| `bond_store` | `NvsMatches`, `BondKept`, `SubscriptionsKept` | Three hosts with one characteristic each, room for two bonds and two subscriptions, three pairings: the third bond does not fit, the third subscription unpairs a host, or a host is bonded again. Any number of losses of power. The code has room for three bonds and eight subscriptions; it tells "one" from "more" bonds and "full" from "not full". |
| `bond_early` | violated, see below | one pairing |

`MaxFaults` bounds the faults of a behaviour of `UartLink` and `Mouseboard` (late answers,
`Quit`, `Crash`, `Unplug`, `PowerCycle`, a port that fails to open) and, in `NimbleHost`, those
of the controller; `DownCap` and `UpCap` the bytes under way (128 in the code). `MaxMoves`
bounds the acts of a user of `Pointer` before he waits for the events to be handled;
`MaxEvents` the events of a user of `X11Link` and `NConns` the connections that exist at a time
(as many as two controllers and the listen queue can have). `MaxQueue` bounds the events of the
Bluetooth controller that wait, `MaxPairings` the pairings. No other counter is capped.

Deadlock is checked in every run but the two of `NimbleHost`: when the controller has refused
to advertise, or the host has, nothing happens any more until someone acts, and the model has
nobody who would.

### Fairness

`Recovers` is checked under `FairSpec`: weak fairness of the controller's steps and of the
firmware's (both are loops that run for ever), of `Command` (the user goes on using the
program: without a command the code never looks at the device), of `Start` (someone starts
the program again) and of `Plug`. Nothing is assumed of the faults, which may happen or not.

`MotionRepairs` assumes that the firmware comes to its send (weak fairness of `Send`), that the
user keeps moving the mouse (strong fairness of `Motion`, which is disabled while another
command runs) and that of the reports sent again and again some are not lost.

`Reachable` assumes that both tasks and the timer run and that the controller executes the
commands it has not lost (weak fairness of `HostTask`, `LoopTask`, `TimerExpires`,
`CtlExecutes`, in `FairSpec`). Nothing is assumed of a host that might connect.

`Settles` assumes weak fairness of `EventHandle` and of `Warp`: the event loop and the X server
run. The user may act for ever or stop.

`EventsReturn` assumes weak fairness of what `send_dgram()` does next and of `xmbrecv`, and
strong fairness of `Stop` for each controller: again and again he who has a connection and is
not inside of `send_dgram()` may close it, and some day he does, by hiding the window
(`be_stop()`) or ending the program. The code has no other way to free `xmbrecv` for the next
controller, and without that assumption the property is false. Strong fairness is needed
because events keep taking the controller into `send_dgram()`. Nothing is assumed of
`Started`: when `xmbrecv` is gone, `send_dgram()` returns with an error.

### Disagreements between comments and code

`pointer_warp` checks what the comment in `motion_notify()` says of the events a warp causes:
they "must not be translated to the receiver, hence the window cursor position is updated,
hence dx and dy are zero for the upcoming XMotionEvents" (`events.c:171-173`). That holds as
long as the user rests. A motion event that is queued between the one near the edge and the
one of the warp is taken relative to the middle, and the warp's relative to it: both are sent,
as jumps that nearly cancel out, unless an `int8_t` cuts one of them. `Tracks` shows that the error does
not last, `SentIsMoved` that nothing but a window sliding under the pointer causes another one.

`nimble_reset` checks that "the application is notified when the reset occurs via the host
reset callback" (`ble_hs.h:344-345`). There is one event and one reason however many resets
were asked for. When the retry timer's event is queued before the reset's, it runs the reset
and uses up the reason, and the queued one runs without (`ble_hs.c:411`): `onReset()` is not
called, `m_synced` stays true, the next `onSync()` returns early and the advertising the reset
ended is not started again. `Reachable` shows that the device can be found again unless this
happens, or one of three other things it names:

* `~Behind`: an acknowledgement that comes after its timeout waits for the next command
  (`ble_hs_hci.c:364-376`), which finds the wrong one; each such command resets, and the
  startup may end up one behind again and again.
* `~crossed`: a connection was reported and the reset of the controller then ended it; the
  host takes the report from its queue after the reset and keeps a connection that is none.
* `~early`: the host was reset while `begin()` was on its way to the advertising, and
  `onSync()` found nothing to do or the advertising under way.

`bond_early` checks the comment in `ble_gap_enc_event()`: "If this is fresh pairing and bonding
has been established, notify gatt server about that so previous subscriptions (before bonding)
can be stored" (`ble_gap.c:6258-6261`). The `bonded` it looks at is set for a restored bond only
(`ble_sm.c:1230`, `2065-2066`), where the function has returned before. So what a host
subscribed to before its bond is complete is never stored, and the next connection, which
restores subscriptions from the store, sends it no reports until it subscribes again. That
order is the usual one here, as `NimBLEServer` asks for the pairing when a host
subscribes. `SubscriptionsKept` shows that later subscriptions are kept.

The models contain more that no run is made for. Two are limits of the code that no comment
denies; the properties state them:

* `configure_notify()` does not read the window's place (`events.c:100-108`). When the window is
  moved under a resting pointer, or resized from its left or top edge, `cursor_x` and `cursor_y`
  are off by the slide, and the next motion event sends the slide as if the user had moved so
  far. `Tracks` says that the cursor is off by exactly that, and `SentIsMoved` that it is sent
  once, together with the user's movement.
* The report descriptor ends at usage 0x65 (`blekeyboard.cc:72`, `:75`), F13 to F24 are 0x68 to
  0x73: controller, firmware and library accept them and the report carries them, and a host has
  to ignore them. `PositionKept` says so of each.

Three disagree with a comment:

* `BleKeyboard::press()` "adds the specified key (printing, non-printing, or modifier) to the
  persistent key report and sends the report" (`blekeyboard.cc:395-396`); with all slots taken
  it sets the modifier and returns without sending (`431-434`). `HostInSync` says how far the
  host lags then.
* When the store is full, `ble_store_util_status_rr()` is to "delete the oldest bond and
  proceed" (`ble_store_util.c:241-243`). `ble_gap_unpair_oldest_peer()` asks for the bonded
  hosts with room for one and gives up when there are more (`ble_gap.c:6153-6157`): a bond
  beyond `BLE_STORE_MAX_BONDS` is never stored, and the host has to pair again each time.
  `BondKept` names those hosts in `dropped`.
* A record that replaces another one of the same host is not written to the NVS, since the
  number of records stays the same (`ble_store_nvs.c:568-597`). That takes a loss of power
  between the two records of a bond and a new pairing after it. `NvsMatches` and `BondKept`
  leave it out (`replaced`).

## 4. Proofs

`BleHidProofs` proves, for every set of keys, every number of slots and every set of button
numbers, that the specification implies `TypeOK` and each safety property of `ble_hid`, and
`HostHoldsOnlyReported`, which no run repeats: between commands the host holds nothing the
firmware released unless a report was lost. The inductive invariant `HidInv` adds three parts to them. `LinkInv`: without a
link the host has nothing, and nothing was lost on a connection on which nothing was received.
`SyncInv`: what `HostInSync` says, extended to the states in which a report is about to be
sent (then the next send makes it true). `CloseInv`: what is already released at each turn of
the loop in `close()`. `KeyStep` is the lemma about the slots: what `press()` and
`release()` do to the set of usages. `HostChanges` follows from the invariant because a
send is the only step that changes the host while it is in sync.

`LogRingProofs` proves, for every ring size above one and all message lengths, `TypeOK`,
`TextFits`, that `LogRing` refines `BoundedLog`, and `ScreenIsCurrent`. The invariant says that
at each turn of the redraw `out` is what the list's newest entries begin with, and that
`log_next` is where they go on. `AddIs` is the central lemma: the new entry at the end of
the ring, with the oldest one gone when it was full, is `Newest(Append(log, m), N - 1)`.

`PointerProofs` proves, for all window sizes, margins, widths of the distances and
slides of the window, `TypeOK`, `Tracks`, `SentIsMoved` and `RoomToMove`, which no run
repeats: after a motion event the pointer is away from the edges or in the middle, until the window slides. `WillKnow` says
from where the controller is going to know the pointer's position, less the slide since the last
event with one: the last position in the queue, else the last warp, else its cursor. `InTime` says that as long as nobody overtook a warp there is at most one, no
motion event waits behind it, and the queue is a path that begins at the cursor, on which each
motion event goes on by what the window slid and the user moved (`Way`); `PathAppend`
and `PathTail` are the two ways in which the path changes. `SlideThenMove` and `SlideTwice` are
the sums a slide leads to.

`X11LinkProofs` proves, for any number of controllers, connections and events and any length of
the listen queue, `TypeOK`, `AnswersInStep`, `NoSigpipe`, `AnsweredExecuted`,
`ExecutedInOrder`, which no run repeats, and that `X11Link` implements `Delivery`
(`LinkDelivers`). `Places` says what a program
has by where it is. `StepInv` has three parts: `Ends`, which ends are open and that no
connection has two holders or two places in the queue; `Light`, that a connection carries an
event, or has one in `handle_client()`, or carries its answer, never two of these, and nothing
at all once it is reset; `Awaited`, that what the connection of a controller carries is about
the event it waits for. `Light` is why a second answer never meets a reset: to have
an answer, an event must have come over the connection, and none comes after the reset.
`AtOne` and `EndsStay` are the two lemmas every step uses.

For the order of the events, `ExecutedInOrder`, the invariant `Ordered` goes along the way an
event takes: of two served connections the older one brings the older events of a user
(`Before`), the listen queue keeps that order (`InQueue`, `Waits`), and what the current
connection of a user carries is newer than all that `xmbrecv` has taken over (`Current`,
`Pending`). `Acked` adds what `AnsweredExecuted` needs: an event answered `RESP_OK`, or about
to be, has reached the X server or is in Xlib's buffer, unless `xmbrecv` died with it there.

The refinement needs both. `TakeRefines`: what `handle_client()` takes over is newer than all of
its user's events the X server got, wherever his other connections are (`Ordered`), and no
newer than his last one. `ConfirmRefines`: the answer a controller receives is about the event it
waits for (`Awaited`), and that one was taken (`Acked`). `ExecuteRefines`: `xlib_sync()` executes
what is in the buffer, and when `xmbrecv` dies the event has left the buffer or is lost.

`UartLinkProofs` proves `TypeOK` and the four safety properties of `uart_link`, for any set
of commands, any number of ports and faults and any room under way in either direction.
`Framed` is the invariant for the framing: unless a command was cut, what the firmware has
read and what is on its way to it is one command after the other, and only the last one may
be unfinished, between the two writes of `send_cmd()`. Answers do not occur in it, which is
what `FramingNeedsNoAnswers` claims. `InStep` adds the answers for as long as none was given
up (`~late`): with a file that leads to the device, either nothing is under way, or it is
exactly the one exchange the place in `send_cmd()` or `discover()` implies; with a dead file
nothing is, and the firmware waits, if in the middle of a command. Pings are the only bytes that can follow a command that was cut (`PingsOnly`), and
that is why a cut command swallows nothing else.

`MouseboardProofs` proves that the composition implements both of its parts, `LinkSpec` and
`Hid!Spec`, and with that its safety properties. The invariants of `BleHidProofs` are taken
over with `INSTANCE BleHidProofs WITH pc <- task`. `Running` joins the parts: a handler
runs only for a complete command, and it is that command's. `AnswerWaits`: in step,
the answer that waits for `send_cmd()` is what the handler of its command returned, and no
other handler has run since; `AckLifts` and `StatusIsTrue` (`Status`) follow. `Accounted`
says, for `StuckIsTold`, that what the reports hold, and what the command under way is about
to press, is held by the user or excused by a status line.

Its last section is about the tables. `KeyTables` has `KeyMap` as the instance `Map`, and
`Seen` is what the report has for a keysym, and the host of it by `AtHost`. That the tables have an entry once and no keysym in
common (`AsciiIs`, `NonasciiIs`, `PadIs`, `LayoutApart`, `AsciiApart`) turns each lookup into
the place of an entry (`CodeIs`, `DistanceIs`), so that a keysym, its byte, its key code and
its report are four functions of that place (`CharSeen`, `ModifierSeen`, `NonCharSeen`).
`AsciiRows`, `LayoutRows`, `NonasciiRows`, `NumLockRows` and `ModifierRows` then compare the
places with the reference, by ranges where the tables run in parallel and one by one where they
do not (`NumbersignRow` is the one in which they differ), and `PhysicalSeen` does it for the keysyms of a custom xkb file. `PositionsKept` and
`KeysAreTyped` are the two properties of `key_map`, `MapTypes` its type invariant. `TablesFit`
joins `KeyMap` to the rest: the bytes the controller can send for keys, with the usages and
modifiers the library has for them, are what `KeyBytesAssumption` and `KeysAssumption` demand
of key bytes, so this part of the assumptions is proved of the code's tables.

`BondStoreProofs` proves, for any number of hosts, any room for bonds and subscriptions and
any number of pairings, `TypeOK`, `NvsMatches`, `BondKept` and `SubscriptionsKept`.
`persist_...()` finds out what to change in the NVS from the number of records. `Mirrored` is why
that is enough: the slots and the records are the same set without repetitions, and one key
per host and kind (`OneEach`) leaves no two records that a write could exchange; when the
numbers differ there is thus exactly one record to write or to erase. `LeastIs` says that a
set of places has a least element, which is the one the searches of the code stop at.
`Bonds` says that both records of every host not given up are in RAM or on their way to it
(`Keeps`), and that only hosts given up are about to be unpaired (`Unpairs`). `Subs`
follows a subscription on its way through the flag of the connection, the record and the list
of what is to be done next (`Stored`, `Flagged`, `Dropping`, `Adding`).

`NimbleHostProofs` proves `TypeOK` and the three safety properties of `nimble_host`, for
any sequence of startup commands longer than the late answers there may be, and any number of
faults.

* `SyncInStep`: an acknowledgement that comes late is the loss of one answer, so there are never
  more than faults and the one waited for (`Counted`). At the `i`-th command of the startup at
  most `MaxFaults + 1 - i` of them are older than the startup, and the others belong to
  earlier commands of it (`Match`, `Started`): at the last one there can be no older answer
  left.
* `HasData`: in sync nothing of a startup is left that could clear the data (`Settled`); while
  the host gets there nobody is about to advertise (`Apart`); and the data a reset cleared are set
  again before the advertising is enabled (`Provided`).
* `Agree`: `ResetFirst` says that the reset at the start of the startup leaves nothing of the
  host's earlier life in the controller. From then on there is one advertising or one link at
  most, and one task that works on it (`Solo`), and while no reset waits one command at a
  time (`InTurn`). `Phases` then says in which of four states host and controller are
  together: both idle, on the air, joining, or joined; the steps lead from one to
  the next. A reset that waits takes place, so a disturbance ends in a new startup only
  (`UndisturbedBefore`).

Assumptions are those the modules name (`NSlotsAssumption`, `KeysAssumption`,
`ButtonsAssumption`, `NotifyAssumption`; `NAssumption`, `MsgsAssumption`,
`LinesAssumption`, `NoMsgAssumption`; `SizesAssumption`, `SlidesAssumption`, `OobAssumption`, `Int8Assumption`,
`MovesAssumption`; `ConnsAssumption`, `EventsAssumption`; `CommandsAssumption`,
`BoundsAssumption`; `KeyBytesAssumption`, `HidAssumption`, `ButtonArgsAssumption`;
`BondsAssumption`, `PairingsAssumption`, `PeersAssumption`; `StartupAssumption`,
`FaultsAssumption`, `QueueAssumption`): most say that the constants have the types the code
gives them. Those that say more:

* a ring has at least two slots (`NAssumption`), the serial line has room for a whole command
  (`BoundsAssumption`), and commands have the length the protocol gives them
  (`CommandsAssumption`);
* no key byte equals the header of a ping (`KeyBytesAssumption`), and each has a usage or a
  modifier (`KeysAssumption`): `TablesFit` shows it of the tables;
* the commands of the startup are distinct, begin with the reset and are more than the late
  acknowledgements can be (`StartupAssumption`). The code has nine. With as many late
  acknowledgements as commands the host could get into sync one answer behind, and
  `SyncInStep` would be false.

TLC evaluates them in every run.

Every safety property of the runs that pass has a theorem, and so has every refinement.
`Recovers`, `Settles`, `MotionRepairs`, `Reachable` and `EventsReturn` are liveness properties,
out of the prover's reach, and only model-checked.

## 5. Not modelled

* Most of NimBLE: the roles the firmware does not take (scanner, central, GATT client, mesh),
  the attribute and L2CAP protocols, the messages of a pairing, timers of procedures, the
  resolving list of private addresses. Extended advertising is not compiled. The link layer in
  `nimble/controller` is not compiled for the ESP32 either, whose controller is a closed
  library: `NimbleHost` has what its host may see of one.
* In `NimbleHost` the acknowledgement of a command and the count of its semaphore are one
  variable, `ack`: what happens between the return of the wait and the look at the
  acknowledgement (`ble_hs_hci.c:353-356`) is not a step of its own. `OnSync` is
  one step as well, from setting `m_synced` to what it reads afterwards
  (`NimBLEDevice.cpp:810-822`).
* In `BondStore` the NVS works: a write or an erasure either happens or the power is lost
  before it. Legacy pairing, with two keys per host, and pairing again over a link that is
  already encrypted are left out.
* Other windows on top of the controller's, and where it is on the screen: `Pointer` has only
  what is in the window and how far that slides. Time is not modelled either; what is sent for a
  slide comes with the next motion, whenever that is.
* Xlib and the kernel's tty layer: modelled by what the code sees of them.
* The media key report: no command of the protocol changes it, it is always empty.
* Operations of `BleKeyboard` and `BleMouse` the firmware never calls.
* Options, drawing, colours, build scripts.
* `malloc()` failures at the start of the program, which end it.
* A key that is pressed on the receiver's X server when a controller of the x11 backend goes
  away stays pressed (`xmbrecv/main.c:78`): the code has nothing that would release it, and no
  property says so.

## 6. Plan

Everything of the program's own code that keeps state is modelled, and every safety property
and refinement a run checks is proved. What is left:

1. `Delivery` for the serial link. Its commands have no numbers, and one that a late answer
   confirms may never have been executed; an abstract specification would have to allow that
   from the first late answer on, as `AnswersInStep` and `AckLifts` do with `~late`.
2. The liveness properties stay with TLC.
