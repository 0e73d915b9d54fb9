---------------------------- MODULE BleHidProofs ----------------------------
(* Proofs about BleHid, for every set of keys, every number of slots and   *)
(* with or without reports lost in the BLE stack.                          *)
EXTENDS BleHid, TLAPS

\* What the host knows on a link that is not ready, or that has not yet
\* carried a report: nothing.
LinkInv ==
    /\ link # "ready" => kbdSeen = "none" /\ mouseSeen = "none"
    /\ kbdSeen = "none" => hostKeys = {} /\ hostMods = {}
    /\ mouseSeen = "none" => hostButtons = {}

\* HostInSync, and what is left of it while a keyboard report is due.
SyncInv ==
    /\ kbdSeen = "current" =>
        /\ pc # "kbd" =>
            hostKeys = Used /\ hostMods \subseteq modifiers /\ (hostMods = modifiers \/ Full)
        /\ pc = "kbd" /\ cmd = "KEY_PRESS" => hostKeys \subseteq Used
        /\ pc = "kbd" /\ cmd = "KEY_RELEASE" => Used \subseteq hostKeys
    /\ mouseSeen = "current" /\ pc # "mouse" => hostButtons = buttons

\* Which sends belong to which command, and how far close() has come.
CloseInv ==
    /\ pc = "mouse" => cmd \in ButtonCmds \cup {"MOTION"}
    /\ pc = "kbd" => cmd \in KeyCmds \cup {"CLOSE"}
    /\ pc = "mask" => cmd = "CLOSE"
    /\ pc = "kbd" /\ cmd = "CLOSE" => mask = 0
    /\ cmd = "CLOSE" => keys = [i \in Slots |-> 0] /\ modifiers = {}
    /\ pc = "mask" => \A b \in buttons : \A i \in 0..mask-1 : b \notin Bits(i)
    /\ pc = "idle" /\ cmd = "CLOSE" => buttons \subseteq {MOUSE_MIDDLE}

HidInv == LinkInv /\ SyncInv /\ CloseInv

USE NSlotsAssumption, KeysAssumption, NotifyAssumption, ButtonsAssumption

-----------------------------------------------------------------------------
\* Every variable stays in its type: no handler leaves the slots, and the loop
\* of close() ends at 4.
THEOREM TypeCorrect == Spec => []TypeOK
<1>1. Init => TypeOK
  BY DEF Init, TypeOK, Slots, MouseBits
<1>2. TypeOK /\ [Next]_vars => TypeOK'
  <2> SUFFICES ASSUME TypeOK, [Next]_vars PROVE TypeOK'
    OBVIOUS
  <2> USE DEF TypeOK, Return, Await, Cmds
  <2>1. ASSUME NEW k \in Keys \cup {BadKey}, NEW hdr \in KeyCmds, Key(hdr, k)
        PROVE  TypeOK'
    <3>1. /\ keys' \in [Slots -> Usages \cup {0}]
          /\ modifiers' \subseteq Modifiers
          /\ buttons' \subseteq MouseBits
          /\ pc' \in {"idle", "kbd", "mouse", "mask"}
          /\ resp' \in {"NONE", "OK", "ENOCON", "EINVAL_KEY"}
      BY <2>1 DEF Key, Press, Release, report
    <3>2. cmd' \in Cmds /\ held' \subseteq Keys /\ missed' \subseteq Keys
      BY <2>1 DEF Key
    <3> QED
      BY <2>1, <3>1, <3>2 DEF Key, host
  <2>2. ASSUME NEW b \in ButtonArgs, NEW hdr \in ButtonCmds, Button(hdr, b)
        PROVE  TypeOK'
    <3>1. \A c \in DOMAIN mouse_buttons : mouse_buttons[c] \subseteq MouseBits
      BY DEF mouse_buttons, MouseBits
    <3>2. buttons' \subseteq MouseBits
      BY <2>2, <3>1 DEF Button, SetButtons
    <3> QED
      BY <2>2, <3>2 DEF Button, SetButtons, host, user
  <2>3. CASE Motion
    BY <2>3 DEF Motion, report, host, user
  <2>4. CASE Close
    BY <2>4 DEF Close, host
  <2>5. CASE SendReport
    BY <2>5 DEF SendReport, Delivered, Dropped, Used, report, user
  <2>6. CASE SendMouse
    BY <2>6 DEF SendMouse, MouseReport, Delivered, Dropped, report, user
  <2>7. CASE ReleaseMask
    BY <2>7 DEF ReleaseMask, MouseReport, Delivered, Dropped, user
  <2>8. CASE OnConnect
    BY <2>8 DEF OnConnect, report, handler, host, user
  <2>9. CASE Subscribe
    BY <2>9 DEF Subscribe, report, handler, host, user
  <2>10. CASE OnDisconnect
    BY <2>10 DEF OnDisconnect, HostForgets, report, handler, user
  <2>11. CASE PowerCycle
    BY <2>11 DEF PowerCycle, HostForgets
  <2>12. CASE UNCHANGED vars
    BY <2>12 DEF vars, report, handler, host, user
  <2> QED
    BY <2>1, <2>2, <2>3, <2>4, <2>5, <2>6, <2>7, <2>8, <2>9, <2>10, <2>11, <2>12
    DEF Next, Send
<1> QED
  BY <1>1, <1>2, PTL DEF Spec

-----------------------------------------------------------------------------
\* Only press() fills a slot, and only with a usage no slot holds.
THEOREM NoDuplicates == Spec => []NoDuplicateUsage
<1>1. Init => NoDuplicateUsage
  BY DEF Init, NoDuplicateUsage
<1>2. TypeOK /\ NoDuplicateUsage /\ [Next]_vars => NoDuplicateUsage'
  <2> SUFFICES ASSUME TypeOK, NoDuplicateUsage, [Next]_vars PROVE NoDuplicateUsage'
    OBVIOUS
  <2> USE DEF TypeOK, NoDuplicateUsage
  <2>1. ASSUME NEW k \in Keys \cup {BadKey}, NEW hdr \in KeyCmds, Key(hdr, k)
        PROVE  NoDuplicateUsage'
    <3>1. CASE UNCHANGED keys
      BY <3>1
    <3>2. CASE k \in Keys /\ Press(k)
      BY <3>2 DEF Press
    <3>3. CASE k \in Keys /\ Release(k)
      BY <3>3 DEF Release
    <3> QED
      BY <2>1, <3>1, <3>2, <3>3 DEF Key, report
  <2>2. CASE Close
    BY <2>2 DEF Close
  <2>3. CASE PowerCycle
    BY <2>3 DEF PowerCycle
  <2>4. CASE UNCHANGED keys
    BY <2>4
  <2> QED
    BY <2>1, <2>2, <2>3, <2>4
    DEF Next, Send, Button, Motion, SendReport, SendMouse, ReleaseMask, OnConnect,
        Subscribe, OnDisconnect, report, vars
<1> QED
  BY <1>1, <1>2, TypeCorrect, PTL DEF Spec

-----------------------------------------------------------------------------
\* A key outlives its release in the report only when the release command was
\* answered ENOCON.
THEOREM StuckKeys == Spec => []StuckOnlyByRefusedRelease
<1>1. Init => StuckOnlyByRefusedRelease
  BY DEF Init, StuckOnlyByRefusedRelease, Used
<1>2. TypeOK /\ StuckOnlyByRefusedRelease /\ [Next]_vars => StuckOnlyByRefusedRelease'
  <2> SUFFICES ASSUME TypeOK, StuckOnlyByRefusedRelease, [Next]_vars
               PROVE  StuckOnlyByRefusedRelease'
    OBVIOUS
  <2> USE DEF TypeOK, StuckOnlyByRefusedRelease, Used
  <2>1. ASSUME NEW k \in Keys \cup {BadKey}, NEW hdr \in KeyCmds, Key(hdr, k)
        PROVE  StuckOnlyByRefusedRelease'
    \* A press keeps every holder and adds its own key.
    <3>1. CASE isConnected /\ k \in Keys /\ hdr = "KEY_PRESS"
      <4>1. Press(k) /\ k \in held' /\ (held \cup missed) \subseteq (held' \cup missed')
        BY <2>1, <3>1 DEF Key, KeyCmds
      <4>2. Used' \subseteq Used \cup {UsageOf[k]} /\ modifiers' \subseteq modifiers \cup ModsOf[k]
        BY <4>1, <3>1 DEF Press
      <4> QED
        BY <4>1, <4>2, <3>1
    \* A release takes away what its own key accounts for.
    <3>2. CASE isConnected /\ k \in Keys /\ hdr = "KEY_RELEASE"
      <4>1. Release(k) /\ (held \cup missed) \ {k} \subseteq (held' \cup missed')
        BY <2>1, <3>2 DEF Key, KeyCmds
      <4>2. Used' \subseteq Used \ {UsageOf[k]} /\ modifiers' \subseteq modifiers \ ModsOf[k]
        BY <4>1, <3>2 DEF Release
      <4> QED
        BY <4>1, <4>2, <3>2
    \* Otherwise the report stays, and a refused release keeps its key.
    <3>3. CASE ~isConnected
      <4>1. (held \cup missed) \subseteq (held' \cup missed') /\ UNCHANGED report
        BY <2>1, <3>3 DEF Key, KeyCmds
      <4> QED
        BY <4>1 DEF report
    <3>4. CASE isConnected /\ k = BadKey
      <4>1. (held \cup missed) \subseteq (held' \cup missed') /\ UNCHANGED report
        BY <2>1, <3>4 DEF Key, KeyCmds
      <4> QED
        BY <4>1 DEF report
    <3> QED
      BY <3>1, <3>2, <3>3, <3>4 DEF KeyCmds
  <2>2. CASE Close
    BY <2>2 DEF Close
  <2>3. CASE PowerCycle
    BY <2>3 DEF PowerCycle
  <2>4. CASE UNCHANGED <<keys, modifiers, held, missed>>
    BY <2>4
  <2> QED
    BY <2>1, <2>2, <2>3, <2>4
    DEF Next, Send, Button, Motion, SendReport, SendMouse, ReleaseMask, OnConnect,
        Subscribe, OnDisconnect, report, user, vars
<1> QED
  BY <1>1, <1>2, TypeCorrect, PTL DEF Spec

-----------------------------------------------------------------------------
\* A command header step keeps HidInv.
LEMMA KeyStep ==
    ASSUME TypeOK, HidInv, NEW k \in Keys \cup {BadKey}, NEW hdr \in KeyCmds, Key(hdr, k)
    PROVE  HidInv'
<1> USE DEF TypeOK, HidInv, KeyCmds
<1>1. LinkInv'
  BY DEF LinkInv, Key, host
<1>2. SyncInv'
  <2>1. CASE UNCHANGED report /\ pc' = "idle"
    BY <2>1 DEF Key, SyncInv, Used, Full, host, report
  <2>2. CASE k \in Keys /\ hdr = "KEY_PRESS" /\ Press(k) /\ UNCHANGED buttons
    <3>1. Used \subseteq Used'
      BY <2>2 DEF Press, Used
    <3>2. pc' # "kbd" => UNCHANGED keys /\ Full /\ modifiers \subseteq modifiers'
      BY <2>2 DEF Press, Full, Await
    <3> QED
      BY <2>2, <3>1, <3>2 DEF Key, SyncInv, Used, Full, host, Press, Return, Await
  <2>3. CASE k \in Keys /\ hdr = "KEY_RELEASE" /\ Release(k) /\ UNCHANGED buttons
    <3>1. Used' \subseteq Used
      BY <2>3 DEF Release, Used
    <3> QED
      BY <2>3, <3>1 DEF Key, SyncInv, host, Release, Await
  <2> QED
    BY <2>1, <2>2, <2>3 DEF Key, Return
<1>3. CloseInv'
  BY DEF CloseInv, Key, Press, Release, Return, Await
<1> QED
  BY <1>1, <1>2, <1>3

\* HidInv is inductive, given the types.
LEMMA HidInductive == TypeOK /\ HidInv /\ [Next]_vars => HidInv'
<1> SUFFICES ASSUME TypeOK, HidInv, [Next]_vars PROVE HidInv'
  OBVIOUS
<1> USE DEF TypeOK, HidInv
<1>1. ASSUME NEW k \in Keys \cup {BadKey}, NEW hdr \in KeyCmds, Key(hdr, k)
      PROVE  HidInv'
  BY <1>1, KeyStep
<1>2. ASSUME NEW b \in ButtonArgs, NEW hdr \in ButtonCmds, Button(hdr, b)
      PROVE  HidInv'
  <2>1. LinkInv'
    BY <1>2 DEF LinkInv, Button, host
  <2>2. SyncInv'
    BY <1>2 DEF SyncInv, Button, SetButtons, Return, Await, Used, Full, host
  <2>3. CloseInv'
    BY <1>2 DEF CloseInv, Button, ButtonCmds, SetButtons, Return, Await
  <2> QED
    BY <2>1, <2>2, <2>3
<1>3. CASE Motion
  <2>1. LinkInv' /\ SyncInv'
    BY <1>3 DEF LinkInv, SyncInv, Motion, Return, Await, Used, Full, host, report
  <2>2. CloseInv'
    BY <1>3 DEF CloseInv, Motion, Return, Await, report
  <2> QED
    BY <2>1, <2>2
<1>4. CASE Close
  <2>1. LinkInv' /\ SyncInv'
    BY <1>4 DEF LinkInv, SyncInv, Close, Await, host
  <2>2. CloseInv'
    BY <1>4 DEF CloseInv, Close, Await
  <2> QED
    BY <2>1, <2>2
<1>5. CASE SendReport
  <2>1. LinkInv'
    BY <1>5 DEF LinkInv, SendReport, Delivered, Dropped
  <2>2. SyncInv'
    BY <1>5 DEF LinkInv, SyncInv, SendReport, Delivered, Dropped, Return, Await, Used, Full, report
  <2>3. CloseInv'
    BY <1>5 DEF CloseInv, SendReport, Return, Await, report, KeyCmds
  <2> QED
    BY <2>1, <2>2, <2>3
<1>6. CASE SendMouse
  <2>1. LinkInv'
    BY <1>6 DEF LinkInv, SendMouse, MouseReport, Delivered, Dropped
  <2>2. SyncInv'
    BY <1>6 DEF LinkInv, SyncInv, SendMouse, MouseReport, Delivered, Dropped, Return, Used, Full, report
  <2>3. CloseInv'
    BY <1>6 DEF CloseInv, SendMouse, Return, report, ButtonCmds
  <2> QED
    BY <2>1, <2>2, <2>3
<1>7. CASE ReleaseMask
  <2>1. LinkInv'
    BY <1>7 DEF LinkInv, ReleaseMask, MouseReport, Delivered, Dropped
  <2>2. SyncInv'
    BY <1>7 DEF LinkInv, SyncInv, CloseInv, ReleaseMask, MouseReport, Delivered, Dropped, Return, Used, Full
  <2>3. CloseInv'
    <3>1. MOUSE_LEFT \in Bits(1) /\ MOUSE_RIGHT \in Bits(2)
      BY DEF Bits, MouseBits, MOUSE_LEFT, MOUSE_RIGHT
    <3>2. CASE mask < 4 /\ buttons' = buttons \ Bits(mask) /\ mask' = mask + 1
               /\ UNCHANGED <<pc, resp, cmd, keys, modifiers>>
      BY <3>2, <1>7 DEF CloseInv, ReleaseMask
    <3>3. CASE mask = 4 /\ Return("OK") /\ UNCHANGED <<buttons, mask, cmd, keys, modifiers>>
      BY <3>1, <3>3, <1>7 DEF CloseInv, ReleaseMask, Return, MouseBits
    <3> QED
      BY <1>7, <3>2, <3>3 DEF ReleaseMask
  <2> QED
    BY <2>1, <2>2, <2>3
<1>8. CASE OnConnect \/ Subscribe
  BY <1>8 DEF OnConnect, Subscribe, LinkInv, SyncInv, CloseInv, Used, Full, report, handler, host
<1>9. CASE OnDisconnect
  BY <1>9 DEF OnDisconnect, HostForgets, LinkInv, SyncInv, CloseInv, report, handler
<1>10. CASE PowerCycle
  BY <1>10 DEF PowerCycle, HostForgets, LinkInv, SyncInv, CloseInv
<1>11. CASE UNCHANGED vars
  BY <1>11 DEF vars, LinkInv, SyncInv, CloseInv, Used, Full, report, handler, host
<1> QED
  BY <1>1, <1>2, <1>3, <1>4, <1>5, <1>6, <1>7, <1>8, <1>9, <1>10, <1>11 DEF Next, Send

LEMMA HidInvariant == Spec => []HidInv
<1>1. Init => HidInv
  BY DEF Init, HidInv, LinkInv, SyncInv, CloseInv
<1> QED
  BY <1>1, HidInductive, TypeCorrect, PTL DEF Spec

-----------------------------------------------------------------------------
\* On a connection that has carried a report, and as long as the BLE stack
\* loses none, the host's keys and buttons are the firmware's, and its
\* modifiers too unless the report is full.
THEOREM HostFollows == Spec => []HostInSync
<1>1. HidInv => HostInSync
  BY DEF HidInv, SyncInv, HostInSync
<1> QED
  BY <1>1, HidInvariant, PTL

\* A host that lost no report holds nothing the firmware has let go of.
THEOREM HostHoldsReported == Spec => []HostHoldsOnlyReported
<1>1. TypeOK /\ HidInv => HostHoldsOnlyReported
  BY DEF TypeOK, HidInv, LinkInv, SyncInv, HostHoldsOnlyReported
<1> QED
  BY <1>1, HidInvariant, TypeCorrect, PTL

\* close() leaves at most the middle button pressed, here and on the host.
THEOREM CloseIsClean == Spec => []CloseReleases
<1>1. TypeOK /\ HidInv => CloseReleases
  BY DEF TypeOK, HidInv, LinkInv, SyncInv, CloseInv, CloseReleases, Used
<1> QED
  BY <1>1, HidInvariant, TypeCorrect, PTL

\* A host in sync sees no key go up on a press and none go down on a release.
THEOREM HostChanges == Spec => HostChangesMatchCommand
<1>1. TypeOK /\ HidInv /\ [Next]_vars =>
        [kbdSeen = "current" /\ kbdSeen' = "current" =>
            /\ cmd = "KEY_PRESS" => hostKeys \subseteq hostKeys'
            /\ cmd = "KEY_RELEASE" => hostKeys' \subseteq hostKeys]_vars
  <2> SUFFICES ASSUME TypeOK, HidInv, Next, kbdSeen = "current", kbdSeen' = "current"
               PROVE  /\ cmd = "KEY_PRESS" => hostKeys \subseteq hostKeys'
                      /\ cmd = "KEY_RELEASE" => hostKeys' \subseteq hostKeys
    OBVIOUS
  <2>1. CASE SendReport
    BY <2>1 DEF SendReport, Delivered, Dropped, HidInv, SyncInv
  <2>2. CASE UNCHANGED hostKeys
    BY <2>2
  <2> QED
    BY <2>1, <2>2
    DEF Next, Send, Key, Button, Motion, Close, SendMouse, ReleaseMask, OnConnect,
        Subscribe, OnDisconnect, PowerCycle, HostForgets, host
<1> QED
  BY <1>1, HidInvariant, TypeCorrect, PTL DEF Spec, HostChangesMatchCommand
=============================================================================
