--------------------------- MODULE UartLinkProofs ---------------------------
(* Proofs about UartLink, for any set of commands that have the arguments  *)
(* their headers announce, any number of ports, any room in the two pipes  *)
(* and any number of faults.                                               *)
EXTENDS UartLink, SequenceTheorems, TLAPS

USE BoundsAssumption DEF None, Ports

-----------------------------------------------------------------------------
(* The protocol and the pipes.                                             *)

Sent == Commands \cup {Ping}

LEMMA Arguments ==
  /\ \A h \in Byte : NArgs(h) \in 0..2
  /\ NArgs(HDR_PING) = 0 /\ NArgs(HDR_CLOSE) = 0
BY DEF Byte, NArgs, HDR_KEY_PRESS, HDR_HSCROLL, HDR_MOVE, HDR_PING, HDR_CLOSE

\* What the controller sends has exactly the arguments its header announces.
LEMMA SentIs ==
  ASSUME NEW f \in Sent
  PROVE  /\ f \in Seq(Byte) /\ Len(f) \in 1..3 /\ f[1] \in Byte
         /\ Len(f) = 1 + NArgs(f[1])
<1>1. CASE f \in Commands
  <2>1. f \in Seq(Byte) /\ Len(f) > 0 /\ Len(f) = 1 + NArgs(f[1])
    BY <1>1, CommandsAssumption
  <2>2. f[1] \in Byte
    BY <2>1, ElementOfSeq
  <2> QED
    BY <2>1, <2>2, Arguments
<1>2. CASE f = Ping
  <2>1. f = <<HDR_PING>> /\ HDR_PING \in Byte
    BY <1>2 DEF Ping, HDR_PING, Byte
  <2>2. f \in Seq(Byte) /\ Len(f) = 1 /\ f[1] = HDR_PING
    BY <2>1
  <2> QED
    BY <2>1, <2>2, Arguments
<1> QED
  BY <1>1, <1>2 DEF Sent

LEMMA WireByteIs ==
  ASSUME NEW f \in Sent, NEW j \in 1..Len(f)
  PROVE  /\ WireByte(f, j) \in WireBytes
         /\ WireByte(f, j).of = f /\ WireByte(f, j).part = j
         /\ Val(WireByte(f, j)) = f[j]
<1>0. Len(f) \in 1..3
  BY SentIs
<1>1. j \in 1..3 /\ j <= Len(f)
  <2>1. \A n \in 1..3 : \A i \in 1..n : i \in 1..3 /\ i <= n
    OBVIOUS
  <2> QED
    BY <1>0, <2>1, Zenon
<1>2. WireByte(f, j) = [of |-> f, part |-> j]
  BY DEF WireByte
<1>3. WireByte(f, j).of = f /\ WireByte(f, j).part = j
  BY <1>2
<1>4. WireByte(f, j) \in [of : Commands \cup {Ping}, part : 1..3]
  BY <1>1, <1>2 DEF Sent
<1> QED
  BY <1>1, <1>3, <1>4 DEF WireBytes, Val

LEMMA WireBytesAre ==
  ASSUME NEW b \in WireBytes
  PROVE  /\ b.of \in Sent /\ b.part \in 1..Len(b.of)
         /\ b = WireByte(b.of, b.part)
         /\ Val(b) \in Byte /\ NArgs(Val(b)) \in 0..2
<1>1. b.of \in Sent /\ b.part \in 1..3 /\ b.part <= Len(b.of) /\ Len(b.of) \in 1..3
  BY SentIs DEF WireBytes, Sent
<1>2. b = WireByte(b.of, b.part)
  BY DEF WireByte, WireBytes
<1>3. Val(b) \in Byte
  BY <1>1, SentIs, ElementOfSeq DEF Val
<1> QED
  BY <1>1, <1>2, <1>3, Arguments

LEMMA PrefixIs ==
  ASSUME NEW S, NEW s \in Seq(S), NEW t \in Prefixes(s)
  PROVE  /\ t \in Seq(S) /\ Len(t) \in Nat /\ Len(t) <= Len(s)
         /\ \A i \in 1..Len(t) : t[i] = s[i]
<1> PICK n \in 0..Len(s) : t = SubSeq(s, 1, n)
  BY DEF Prefixes
<1>1. \A i \in 1..n : s[i] \in S
  BY ElementOfSeq
<1> QED
  BY <1>1, SubSeqProperties

LEMMA SuffixIs ==
  ASSUME NEW S, NEW s \in Seq(S), NEW t \in Suffixes(s)
  PROVE  t \in Seq(S) /\ Len(t) \in Nat /\ Len(t) <= Len(s)
<1> PICK n \in 1..Len(s)+1 : t = SubSeq(s, n, Len(s))
  BY DEF Suffixes
<1>1. \A i \in n..Len(s) : s[i] \in S
  BY ElementOfSeq
<1>2. t \in Seq(S) /\ Len(t) = IF n <= Len(s) THEN Len(s) - n + 1 ELSE 0
  BY <1>1, SubSeqProperties
<1> QED
  BY <1>2

LEMMA EmptySuffix ==
  ASSUME NEW t \in Suffixes(<<>>)
  PROVE  t = <<>>
<1>1. <<>> \in Seq({}) /\ Len(<<>>) = 0
  OBVIOUS
<1>2. t \in Seq({}) /\ Len(t) \in Nat /\ Len(t) <= 0
  BY <1>1, SuffixIs
<1>3. t # <<>> => Len(t) \in Nat \ {0}
  BY <1>2, EmptySeq
<1> QED
  BY <1>2, <1>3

-----------------------------------------------------------------------------
(* Types.                                                                  *)

\* The firmware never reads past the arguments its header announces, and the
\* controller's file leads to the device only while it talks to it.
Shape ==
    /\ taken # <<>> => Len(taken) <= 1 + NArgs(Val(taken[1]))
    /\ pc = "ping" => port \in Ports
    /\ pc = "data" => Len(cur) > 1
    /\ live => pc = "ping" \/ (pc \in {"idle", "data", "read"} /\ fd # None)

\* TypeOK, part by part.
ControllerOK ==
    /\ pc \in {"off", "idle", "data", "read", "scan", "ping"}
    /\ fd \in Ports \cup {None} /\ port \in 0..NDev
    /\ connected \in BOOLEAN /\ cur \in Commands /\ quitting \in BOOLEAN
    /\ live \in BOOLEAN /\ attached \in Ports \cup {None}
PipesOK ==
    /\ down \in Seq(WireBytes) /\ Len(down) <= DownCap
    /\ up \in Seq(Replies) /\ Len(up) <= UpCap
    /\ taken \in Seq(WireBytes) /\ Len(taken) <= 3
HistoryOK == cut \in BOOLEAN /\ late \in BOOLEAN /\ faults \in 0..MaxFaults

Typed == ControllerOK /\ PipesOK /\ HistoryOK /\ Shape

LEMMA TypedType == Typed => TypeOK
BY Zenon DEF Typed, TypeOK, ControllerOK, PipesOK, HistoryOK

LEMMA TypedInit == Init => Typed
<1> SUFFICES ASSUME Init PROVE Typed
  OBVIOUS
<1>1. cur \in Commands
  BY CommandsAssumption DEF Init
<1>2. PipesOK
  BY DEF Init, PipesOK
<1>3. Shape
  BY DEF Init, Shape
<1>4. port \in 0..NDev /\ faults \in 0..MaxFaults /\ fd \in Ports \cup {None}
      /\ attached \in Ports \cup {None}
  BY DEF Init
<1>5. connected \in BOOLEAN /\ quitting \in BOOLEAN /\ live \in BOOLEAN
      /\ cut \in BOOLEAN /\ late \in BOOLEAN
  BY DEF Init
<1>6. pc \in {"off", "idle", "data", "read", "scan", "ping"}
  BY DEF Init
<1> QED
  BY <1>1, <1>2, <1>3, <1>4, <1>5, <1>6, Zenon DEF Typed, ControllerOK, HistoryOK

LEMMA DonePipes ==
  ASSUME NEW f, NEW u \in Seq(Replies), Len(u) <= UpCap, Done(f, u)
  PROVE  up' \in Seq(Replies) /\ Len(up') <= UpCap
<1>1. up' = u \/ up' \in Suffixes(u)
  BY DEF Done
<1>2. up' \in Suffixes(u) => up' \in Seq(Replies) /\ Len(up') \in Nat /\ Len(up') <= Len(u)
  BY SuffixIs
<1>3. Len(u) \in Nat
  OBVIOUS
<1> QED
  BY <1>1, <1>2, <1>3

LEMMA TailUp ==
  ASSUME PipesOK, up # <<>>
  PROVE  /\ Tail(up) \in Seq(Replies) /\ Len(Tail(up)) <= UpCap
         /\ Head(up) = up[1] /\ Head(up) \in Replies
         /\ Len(up) \in Nat \ {0} /\ Len(Tail(up)) = Len(up) - 1
<1>1. up \in Seq(Replies) /\ Len(up) \in Nat \ {0} /\ Len(up) <= UpCap
  BY EmptySeq DEF PipesOK
<1>2. Tail(up) \in Seq(Replies) /\ Len(Tail(up)) = Len(up) - 1 /\ Head(up) \in Replies
  BY <1>1, HeadTailProperties
<1>3. Head(up) = up[1]
  BY <1>1
<1> QED
  BY <1>1, <1>2, <1>3

\* What trywrite() does to the types.
LEMMA TryWriteType ==
  ASSUME Typed, NEW bs \in Seq(WireBytes), NEW p, TryWrite(bs, p)
  PROVE  /\ down' \in Seq(WireBytes) /\ Len(down') <= DownCap
         /\ fd' \in Ports \cup {None} /\ port' \in 0..NDev
         /\ connected' \in BOOLEAN /\ live' \in BOOLEAN
         /\ \/ pc' = p /\ fd' # None /\ live'
            \/ pc' = "scan" /\ ~live'
<1>1. CASE /\ fd # None /\ live
           /\ Len(down) + Len(bs) <= DownCap
           /\ down' = down \o bs
           /\ pc' = p
           /\ UNCHANGED <<fd, port, connected, live>>
  <2>1. down' \in Seq(WireBytes) /\ Len(down') = Len(down) + Len(bs)
    BY <1>1, ConcatProperties DEF Typed, PipesOK
  <2> QED
    BY <1>1, <2>1 DEF Typed, ControllerOK
<1>2. CASE Reinit
  <2>1. down' \in Seq(WireBytes) /\ Len(down') <= DownCap
    BY <1>2 DEF Reinit, Typed, PipesOK
  <2>2. fd' \in Ports \cup {None} /\ port' \in 0..NDev
    BY <1>2 DEF Reinit
  <2>3. connected' \in BOOLEAN /\ live' \in BOOLEAN /\ ~live' /\ pc' = "scan"
    BY <1>2 DEF Reinit
  <2> QED
    BY <2>1, <2>2, <2>3
<1> QED
  BY <1>1, <1>2 DEF TryWrite

\* The arguments of the command that is being sent.
LEMMA ArgumentBytes ==
  ASSUME Typed
  PROVE  /\ [j \in 1..Len(cur)-1 |-> WireByte(cur, j + 1)] \in Seq(WireBytes)
         /\ Len([j \in 1..Len(cur)-1 |-> WireByte(cur, j + 1)]) = Len(cur) - 1
<1>1. cur \in Sent /\ Len(cur) \in 1..3
  BY SentIs DEF Typed, ControllerOK, Sent
<1>2. PICK n \in 0..2 : n = Len(cur) - 1
  BY <1>1
<1>3. \A j \in 1..n : j + 1 \in 1..Len(cur)
  <2>1. \A m \in 1..3 : m - 1 = n => \A j \in 1..n : j + 1 \in 1..m
    OBVIOUS
  <2> QED
    BY <1>1, <1>2, <2>1, Zenon
<1>4. \A j \in 1..n : WireByte(cur, j + 1) \in WireBytes
  BY <1>1, <1>3, WireByteIs
<1>5. [j \in 1..n |-> WireByte(cur, j + 1)] \in [1..n -> WireBytes]
  BY <1>4
<1>6. \A s \in [1..n -> WireBytes] : s \in Seq(WireBytes) /\ Len(s) = n
  OBVIOUS
<1> QED
  BY <1>2, <1>5, <1>6

LEMMA FaultType ==
  ASSUME HistoryOK, Fault
  PROVE  faults' \in 0..MaxFaults
BY DEF HistoryOK, Fault

LEMMA NoAnswerType ==
  ASSUME HistoryOK, NoAnswer
  PROVE  HistoryOK'
<1>1. CASE UNCHANGED history
  BY <1>1 DEF history, HistoryOK
<1>2. CASE Fault /\ late' = TRUE /\ UNCHANGED cut
  BY <1>2, FaultType DEF HistoryOK
<1> QED
  BY <1>1, <1>2 DEF NoAnswer

\* send_cmd() and discover() return: the file they leave is open or dead.
LEMMA DoneType ==
  ASSUME Typed, NEW f \in Ports \cup {None}, NEW u \in Seq(Replies), Len(u) <= UpCap,
         Done(f, u), UNCHANGED <<port, cur, quitting, attached, down, taken>>,
         connected' \in BOOLEAN, HistoryOK'
  PROVE  Typed'
<1>1. up' \in Seq(Replies) /\ Len(up') <= UpCap
  BY DonePipes
<1>2. PipesOK'
  BY <1>1 DEF Typed, PipesOK
<1>3. ControllerOK'
  BY DEF Done, Typed, ControllerOK
<1>4. Shape'
  BY DEF Done, Typed, ControllerOK, Shape
<1> QED
  BY <1>2, <1>3, <1>4 DEF Typed

LEMMA NextPortType ==
  ASSUME Typed, pc = "ping", NEW u \in Seq(Replies), Len(u) <= UpCap, NextPort(u), HistoryOK'
  PROVE  Typed'
<1>1. PipesOK'
  <2>1. up' \in Seq(Replies) /\ Len(up') \in Nat /\ Len(up') <= Len(u) /\ Len(u) \in Nat
    BY SuffixIs DEF NextPort
  <2> QED
    BY <2>1 DEF NextPort, Typed, PipesOK
<1>2. ControllerOK'
  <2>1. port \in Ports
    BY DEF Typed, Shape
  <2>2. port' \in 0..NDev
    BY <2>1 DEF NextPort
  <2> QED
    BY <2>2 DEF NextPort, Typed, ControllerOK
<1>3. Shape'
  BY DEF NextPort, Typed, Shape
<1> QED
  BY <1>1, <1>2, <1>3 DEF Typed

LEMMA SendHeaderType ==
  ASSUME Typed, NEW f \in Commands, pc = "idle", cur' = f, quitting' \in BOOLEAN, HistoryOK',
         TryWrite(<<WireByte(f, 1)>>, IF Len(f) > 1 THEN "data" ELSE "read"),
         UNCHANGED <<attached, up, taken>>
  PROVE  Typed'
<1>1. f \in Sent /\ 1 \in 1..Len(f) /\ Len(f) \in 1..3
  BY SentIs DEF Sent
<1>2. <<WireByte(f, 1)>> \in Seq(WireBytes)
  BY <1>1, WireByteIs
<1>3. PICK p : p = IF Len(f) > 1 THEN "data" ELSE "read"
  OBVIOUS
<1>4. /\ down' \in Seq(WireBytes) /\ Len(down') <= DownCap
      /\ fd' \in Ports \cup {None} /\ port' \in 0..NDev
      /\ connected' \in BOOLEAN /\ live' \in BOOLEAN
      /\ \/ pc' = p /\ fd' # None /\ live'
         \/ pc' = "scan" /\ ~live'
  BY <1>2, <1>3, TryWriteType
<1>5. PipesOK'
  BY <1>4 DEF Typed, PipesOK
<1>6. ControllerOK'
  BY <1>3, <1>4 DEF Typed, ControllerOK
<1>7. Shape'
  BY <1>3, <1>4 DEF Typed, Shape
<1> QED
  BY <1>5, <1>6, <1>7 DEF Typed

LEMMA SendDataType ==
  ASSUME Typed, SendData
  PROVE  Typed'
<1>1. PICK bs \in Seq(WireBytes) : TryWrite(bs, "read")
  BY ArgumentBytes DEF SendData
<1>2. /\ down' \in Seq(WireBytes) /\ Len(down') <= DownCap
      /\ fd' \in Ports \cup {None} /\ port' \in 0..NDev
      /\ connected' \in BOOLEAN /\ live' \in BOOLEAN
      /\ \/ pc' = "read" /\ fd' # None /\ live'
         \/ pc' = "scan" /\ ~live'
  BY <1>1, TryWriteType
<1>3. PipesOK'
  BY <1>2 DEF SendData, Typed, PipesOK
<1>4. ControllerOK' /\ HistoryOK'
  BY <1>2 DEF SendData, Typed, ControllerOK, HistoryOK, history
<1>5. Shape'
  BY <1>2 DEF SendData, Typed, Shape
<1> QED
  BY <1>3, <1>4, <1>5 DEF Typed

\* The device leaves the bus, or the program the file: what is lost is lost,
\* what is left was there before.
LEMMA LossType ==
  ASSUME Typed, UNCHANGED <<port, connected, cur, quitting, taken>>,
         pc' \in {pc, "off"}, fd' \in {fd, None}, ~live', live' \in BOOLEAN,
         attached' \in {attached, None}, down' \in Prefixes(down), up' \in Suffixes(up),
         Fault, cut' \in BOOLEAN, late' \in BOOLEAN
  PROVE  Typed'
<1>1. /\ down' \in Seq(WireBytes) /\ Len(down') \in Nat /\ Len(down') <= Len(down)
      /\ up' \in Seq(Replies) /\ Len(up') \in Nat /\ Len(up') <= Len(up)
      /\ Len(down) \in Nat /\ Len(up) \in Nat
  BY PrefixIs, SuffixIs DEF Typed, PipesOK
<1>2. PipesOK'
  BY <1>1 DEF Typed, PipesOK
<1>3. ControllerOK' /\ Shape'
  BY DEF Typed, ControllerOK, Shape
<1>4. HistoryOK'
  BY FaultType DEF Typed, HistoryOK
<1> QED
  BY <1>2, <1>3, <1>4 DEF Typed

LEMMA FwReadType ==
  ASSUME Typed, FwRead
  PROVE  Typed'
<1>1. /\ Head(down) \in WireBytes /\ Tail(down) \in Seq(WireBytes)
      /\ Len(Tail(down)) = Len(down) - 1 /\ Len(down) \in Nat
  BY HeadTailProperties DEF FwRead, Typed, PipesOK
<1>2. /\ taken' \in Seq(WireBytes) /\ Len(taken') = Len(taken) + 1 /\ Len(taken) \in Nat
      /\ taken # <<>> => taken'[1] = taken[1]
      /\ taken = <<>> => taken'[1] = Head(down)
  BY <1>1 DEF FwRead, Typed, PipesOK
<1>3. taken'[1] \in WireBytes
  BY <1>2, ElementOfSeq
<1>4. NArgs(Val(taken'[1])) \in 0..2
  BY <1>3, WireBytesAre
<1>5. Len(taken') <= 1 + NArgs(Val(taken'[1]))
  <2>1. CASE taken = <<>>
    BY <1>2, <1>4, <2>1
  <2>2. CASE taken # <<>>
    <3>1. Len(taken) # 1 + NArgs(Val(taken[1])) /\ Len(taken) <= 1 + NArgs(Val(taken[1]))
      BY <2>2 DEF FwRead, Complete, Typed, Shape
    <3> QED
      BY <1>2, <1>4, <2>2, <3>1
  <2> QED
    BY <2>1, <2>2
<1>6. PipesOK'
  BY <1>1, <1>2, <1>4, <1>5 DEF FwRead, Typed, PipesOK
<1>7. ControllerOK' /\ HistoryOK'
  BY DEF FwRead, Typed, ControllerOK, HistoryOK, controller, history
<1>8. Shape'
  BY <1>5 DEF FwRead, Typed, Shape, controller
<1> QED
  BY <1>6, <1>7, <1>8 DEF Typed

\* The bytes the firmware has read, as the answer names them.
LEMMA ValsAre ==
  ASSUME PipesOK
  PROVE  Vals(taken) \in Seq(Byte) /\ Len(Vals(taken)) = Len(taken)
<1>1. PICK n \in Nat : n = Len(taken) /\ DOMAIN taken = 1..n
  BY DEF PipesOK
<1>2. \A j \in 1..n : Val(taken[j]) \in Byte
  BY <1>1, WireBytesAre, ElementOfSeq DEF PipesOK
<1>3. Vals(taken) \in [1..n -> Byte]
  BY <1>1, <1>2 DEF Vals
<1>4. \A s \in [1..n -> Byte] : s \in Seq(Byte) /\ Len(s) = n
  OBVIOUS
<1> QED
  BY <1>1, <1>3, <1>4

LEMMA AnswersAre ==
  ASSUME NEW h, NEW a \in Answers(h)
  PROVE  a \in {RESP_EINVAL_KEY, RESP_EINVAL_CMD, RESP_ENOCON, RESP_OK, RESP_MAGIC}
BY Zenon DEF Answers

LEMMA FwAnswerType ==
  ASSUME Typed, FwAnswer
  PROVE  Typed'
<1>1. PICK a \in Answers(Val(taken[1])) :
         up' = IF Len(up) < UpCap THEN Append(up, [val |-> a, to |-> Vals(taken)]) ELSE up
  BY DEF FwAnswer
<1>2. [val |-> a, to |-> Vals(taken)] \in Replies
  BY AnswersAre, ValsAre DEF Replies, Typed
<1>3. up' \in Seq(Replies) /\ Len(up') <= UpCap
  <2>1. \A r \in Replies : Append(up, r) \in Seq(Replies) /\ Len(Append(up, r)) = Len(up) + 1
    BY AppendProperties DEF Typed, PipesOK
  <2> QED
    BY <1>1, <1>2, <2>1 DEF Typed, PipesOK
<1>4. PipesOK'
  BY <1>3 DEF FwAnswer, Typed, PipesOK
<1>5. ControllerOK' /\ HistoryOK' /\ Shape'
  BY DEF FwAnswer, Typed, ControllerOK, HistoryOK, Shape, controller, history
<1> QED
  BY <1>4, <1>5 DEF Typed

LEMMA TypedStep == Typed /\ [Next]_vars => Typed'
<1> SUFFICES ASSUME Typed, [Next]_vars PROVE Typed'
  OBVIOUS
<1>1. CASE Command
  BY <1>1, SendHeaderType DEF Command, SendHeader, Typed, ControllerOK, HistoryOK, history
<1>2. CASE Start
  <2>1. ControllerOK'
    <3>1. fd' \in Ports \cup {None} /\ port' \in 0..NDev
      BY <1>2 DEF Start, Reinit
    <3>2. connected' \in BOOLEAN /\ quitting' \in BOOLEAN /\ live' \in BOOLEAN /\ pc' = "scan"
      BY <1>2 DEF Start, Reinit
    <3>3. cur' = cur /\ attached' = attached
      BY <1>2 DEF Start
    <3> QED
      BY <3>1, <3>2, <3>3 DEF Typed, ControllerOK
  <2>3. Shape'
    BY <1>2 DEF Start, Reinit, Typed, Shape
  <2>2. PipesOK' /\ HistoryOK'
    BY <1>2 DEF Start, Reinit, Typed, PipesOK, HistoryOK, history
  <2> QED
    BY <2>1, <2>2, <2>3 DEF Typed
<1>3. CASE SendData
  BY <1>3, SendDataType
<1>4. CASE ReadResponse
  BY <1>4, DoneType, TailUp DEF ReadResponse, Typed, ControllerOK, HistoryOK, history
<1>5. CASE ReadTimeout
  <2>1. HistoryOK'
    BY <1>5, NoAnswerType DEF ReadTimeout, Typed
  <2> QED
    BY <1>5, <2>1, DoneType DEF ReadTimeout, Typed, ControllerOK, PipesOK
<1>6. CASE SkipPort
  <2>1. PipesOK' /\ HistoryOK'
    BY <1>6, FaultType DEF SkipPort, Typed, PipesOK, HistoryOK
  <2>2. ControllerOK' /\ Shape'
    BY <1>6 DEF SkipPort, Typed, ControllerOK, Shape
  <2> QED
    BY <2>1, <2>2 DEF Typed
<1>7. CASE SendPing
  <2>1. WireByte(Ping, 1) \in WireBytes
    <3>1. Ping \in Sent /\ 1 \in 1..Len(Ping)
      BY DEF Sent, Ping
    <3> QED
      BY <3>1, WireByteIs
  <2>2. down' \in Seq(WireBytes) /\ Len(down') = Len(down) + 1 /\ Len(down) \in Nat
    BY <1>7, <2>1, AppendProperties DEF SendPing, Typed, PipesOK
  <2>3. PipesOK' /\ HistoryOK'
    BY <1>7, <2>2 DEF SendPing, Typed, PipesOK, HistoryOK, history
  <2>4. ControllerOK' /\ Shape'
    BY <1>7 DEF SendPing, Typed, ControllerOK, Shape
  <2> QED
    BY <2>3, <2>4 DEF Typed
<1>8. CASE Found
  <2>1. port \in Ports
    BY <1>8 DEF Found, Typed, Shape
  <2> QED
    BY <1>8, <2>1, DoneType, TailUp DEF Found, Typed, ControllerOK, HistoryOK, history
<1>9. CASE WrongAnswer
  BY <1>9, NextPortType, TailUp DEF WrongAnswer, Typed, HistoryOK, history
<1>10. CASE PingTimeout
  <2>1. HistoryOK'
    BY <1>10, NoAnswerType DEF PingTimeout, Typed
  <2> QED
    BY <1>10, <2>1, NextPortType DEF PingTimeout, Typed, PipesOK
<1>11. CASE NotFound
  BY <1>11, DoneType DEF NotFound, Typed, ControllerOK, PipesOK, HistoryOK, history
<1>12. CASE FwRead
  BY <1>12, FwReadType
<1>13. CASE FwAnswer
  BY <1>13, FwAnswerType
<1>14. CASE Plug
  <2>1. ControllerOK' /\ Shape'
    BY <1>14 DEF Plug, Typed, ControllerOK, Shape, controller
  <2>2. PipesOK' /\ HistoryOK'
    BY <1>14 DEF Plug, Typed, PipesOK, HistoryOK, history
  <2> QED
    BY <2>1, <2>2 DEF Typed
<1>15. CASE Quit
  <2>1. HistoryOK'
    BY <1>15, FaultType DEF Quit, Typed, HistoryOK
  <2>2. CASE /\ pc = "idle" /\ fd = None
             /\ pc' = "off"
             /\ UNCHANGED <<fd, port, connected, cur, quitting, live, down>>
    <3>1. ControllerOK' /\ Shape'
      BY <1>15, <2>2 DEF Quit, Typed, ControllerOK, Shape
    <3>2. PipesOK'
      BY <1>15, <2>2 DEF Quit, Typed, PipesOK
    <3> QED
      BY <2>1, <3>1, <3>2 DEF Typed
  <2>3. CASE /\ pc = "idle" /\ fd # None
             /\ cur' = Close /\ quitting' = TRUE
             /\ TryWrite(<<WireByte(Close, 1)>>, "read")
    <3>1. Close \in Commands /\ Len(Close) = 1
      BY CommandsAssumption DEF Close
    <3>2. (IF Len(Close) > 1 THEN "data" ELSE "read") = "read"
      BY <3>1
    <3>3. TryWrite(<<WireByte(Close, 1)>>, IF Len(Close) > 1 THEN "data" ELSE "read")
      BY <2>3, <3>2
    <3>4. UNCHANGED <<attached, up, taken>> /\ quitting' \in BOOLEAN
      BY <1>15, <2>3 DEF Quit
    <3> QED
      BY <2>1, <2>3, <3>1, <3>3, <3>4, SendHeaderType
  <2> QED
    BY <1>15, <2>2, <2>3 DEF Quit
<1>16. CASE Crash \/ Unplug
  <2>1. down \in Prefixes(down)
    <3>1. SubSeq(down, 1, Len(down)) = down /\ Len(down) \in 0..Len(down)
      BY SubSeqFull DEF Typed, PipesOK
    <3> QED
      BY <3>1 DEF Prefixes
  <2>2. cut' \in BOOLEAN /\ late' \in BOOLEAN
    BY <1>16 DEF Crash, Unplug, Typed, HistoryOK
  <2> QED
    BY <1>16, <2>1, <2>2, LossType DEF Crash, Unplug, controller
<1>17. CASE PowerCycle
  <2>1. PipesOK'
    BY <1>17 DEF PowerCycle, Typed, PipesOK
  <2>2. HistoryOK'
    BY <1>17, FaultType DEF PowerCycle, Typed, HistoryOK
  <2>3. ControllerOK' /\ Shape'
    BY <1>17 DEF PowerCycle, Typed, ControllerOK, Shape, controller
  <2> QED
    BY <2>1, <2>2, <2>3 DEF Typed
<1>18. CASE UNCHANGED vars
  BY <1>18 DEF vars, controller, history, Typed, ControllerOK, PipesOK, HistoryOK, Shape
<1> QED
  BY <1>1, <1>2, <1>3, <1>4, <1>5, <1>6, <1>7, <1>8, <1>9, <1>10, <1>11, <1>12, <1>13, <1>14,
     <1>15, <1>16, <1>17, <1>18
     DEF Next, Controller, Discover, Firmware, Faults

\* Every variable stays in its type; in particular neither pipe holds more
\* than it may, and the firmware never reads more than the two arguments of
\* MOVE, whatever bytes come.
THEOREM TypeCorrect == Spec => []TypeOK
<1>1. Typed /\ [Next]_vars => Typed'
  BY TypedStep
<1> QED
  BY <1>1, TypedInit, TypedType, PTL DEF Spec
-----------------------------------------------------------------------------
(* Where a command starts.                                                 *)

\* c comes after b on the wire: the next byte of its command, or a first one.
Follows(b, c) == IF IsLast(b) THEN c.part = 1 ELSE c = WireByte(b.of, b.part + 1)

\* What the firmware has read is the start of one command, and what is on its
\* way goes on from there.
InOrder(t, d) ==
    /\ \A i \in 1..Len(t) : t[i] = WireByte(t[1].of, i)
    /\ d # <<>> => IF t = <<>> THEN d[1].part = 1 ELSE Follows(t[Len(t)], d[1])
    /\ \A i \in 1..Len(d)-1 : Follows(d[i], d[i+1])

LastByte(t, d) == IF d # <<>> THEN d[Len(d)] ELSE t[Len(t)]

\* The controller is about to write the arguments.
Sending == pc = "data" /\ live

\* A command is unfinished only between the two writes of send_cmd(), unless
\* one was cut.
Framed ==
    ~cut => /\ InOrder(taken, down)
            /\ Sending => /\ Unfinished(taken, down)
                          /\ LastByte(taken, down) = WireByte(cur, 1)
            /\ Unfinished(taken, down) => Sending

LEMMA UnfinishedIs ==
  ASSUME NEW t, NEW d
  PROVE  Unfinished(t, d) <=> (t # <<>> \/ d # <<>>) /\ ~IsLast(LastByte(t, d))
BY DEF Unfinished, LastByte

LEMMA LastByteIs ==
  ASSUME NEW t \in Seq(WireBytes), NEW d \in Seq(WireBytes), t # <<>> \/ d # <<>>
  PROVE  LastByte(t, d) \in WireBytes
<1>1. ASSUME NEW s \in Seq(WireBytes), s # <<>>
      PROVE  s[Len(s)] \in WireBytes
  BY <1>1, EmptySeq, ElementOfSeq
<1> QED
  BY <1>1 DEF LastByte

\* As long as it is right about where commands start, the firmware has read a
\* whole command exactly when its last byte was.
LEMMA CompleteIsLast ==
  ASSUME NEW t \in Seq(WireBytes), t # <<>>,
         \A i \in 1..Len(t) : t[i] = WireByte(t[1].of, i)
  PROVE  Complete(t) <=> IsLast(t[Len(t)])
<1>1. Len(t) \in Nat \ {0} /\ t[1] \in WireBytes /\ t[Len(t)] \in WireBytes
  BY EmptySeq, ElementOfSeq
<1>2. PICK f \in Sent : f = t[1].of
  BY <1>1, WireBytesAre
<1>3. t[1] = WireByte(f, 1) /\ t[Len(t)] = WireByte(f, Len(t))
  BY <1>1, <1>2
<1>4. /\ Val(t[1]) = f[1]
      /\ t[Len(t)].of = f /\ t[Len(t)].part = Len(t)
  BY <1>3 DEF WireByte, Val
<1>5. Len(f) = 1 + NArgs(f[1])
  BY SentIs
<1> QED
  BY <1>4, <1>5 DEF Complete, IsLast

LEMMA ExtendOrder ==
  ASSUME NEW t \in Seq(WireBytes), NEW d \in Seq(WireBytes), InOrder(t, d),
         NEW bs \in Seq(WireBytes), bs # <<>>,
         IF t = <<>> /\ d = <<>> THEN bs[1].part = 1 ELSE Follows(LastByte(t, d), bs[1]),
         \A i \in 1..Len(bs)-1 : Follows(bs[i], bs[i+1])
  PROVE  /\ InOrder(t, d \o bs)
         /\ d \o bs # <<>> /\ LastByte(t, d \o bs) = bs[Len(bs)]
<1> PICK m \in Nat, n \in Nat \ {0} : m = Len(d) /\ n = Len(bs)
  BY EmptySeq
<1> PICK e \in Seq(WireBytes) : e = d \o bs
  BY ConcatProperties
<1>1. /\ Len(e) = m + n
      /\ \A i \in 1..m+n : e[i] = IF i <= m THEN d[i] ELSE bs[i - m]
  BY ConcatProperties
<1>2. e # <<>>
  BY <1>1
<1>3. d = <<>> <=> m = 0
  BY EmptySeq
<1>4. e[Len(e)] = bs[n]
  BY <1>1
<1>5. e[1] = IF d = <<>> THEN bs[1] ELSE d[1]
  BY <1>1, <1>3
<1>6. IF t = <<>> THEN e[1].part = 1 ELSE Follows(t[Len(t)], e[1])
  BY <1>5 DEF InOrder, LastByte
<1>7. ASSUME NEW i \in 1..Len(e)-1 PROVE Follows(e[i], e[i+1])
  <2>1. CASE i < m
    <3>1. e[i] = d[i] /\ e[i+1] = d[i+1] /\ i \in 1..Len(d)-1
      BY <1>1, <2>1
    <3> QED
      BY <3>1 DEF InOrder
  <2>2. CASE i = m
    <3>1. e[i] = d[Len(d)] /\ e[i+1] = bs[1] /\ d # <<>>
      BY <1>1, <1>3, <2>2
    <3> QED
      BY <3>1 DEF LastByte
  <2>3. CASE i > m
    <3>1. e[i] = bs[i-m] /\ e[i+1] = bs[i-m+1] /\ i-m \in 1..Len(bs)-1
      BY <1>1, <2>3
    <3> QED
      BY <3>1
  <2> QED
    BY <1>1, <2>1, <2>2, <2>3
<1> QED
  BY <1>2, <1>4, <1>6, <1>7 DEF InOrder, LastByte

\* Fewer bytes on the way are still in order.
LEMMA PrefixOrder ==
  ASSUME NEW t \in Seq(WireBytes), NEW d \in Seq(WireBytes), InOrder(t, d),
         NEW e \in Prefixes(d)
  PROVE  InOrder(t, e)
<1>1. /\ e \in Seq(WireBytes) /\ Len(e) \in Nat /\ Len(e) <= Len(d) /\ Len(d) \in Nat
      /\ \A i \in 1..Len(e) : e[i] = d[i]
  BY PrefixIs
<1>2. e # <<>> => d # <<>> /\ e[1] = d[1]
  <2>1. e # <<>> => Len(e) \in Nat \ {0}
    BY <1>1, EmptySeq
  <2>2. d = <<>> => Len(d) = 0
    OBVIOUS
  <2> QED
    BY <1>1, <2>1, <2>2
<1>3. \A i \in 1..Len(e)-1 : i \in 1..Len(d)-1 /\ e[i] = d[i] /\ e[i+1] = d[i+1]
  BY <1>1
<1> QED
  BY <1>2, <1>3 DEF InOrder

\* The firmware takes the next byte.
LEMMA ReadOrder ==
  ASSUME NEW t \in Seq(WireBytes), NEW d \in Seq(WireBytes), InOrder(t, d),
         d # <<>>, ~Complete(t)
  PROVE  /\ InOrder(Append(t, Head(d)), Tail(d))
         /\ LastByte(Append(t, Head(d)), Tail(d)) = LastByte(t, d)
<1>1. /\ Len(d) \in Nat \ {0} /\ Head(d) = d[1] /\ d[1] \in WireBytes
      /\ Tail(d) \in Seq(WireBytes) /\ Len(Tail(d)) = Len(d) - 1
      /\ \A i \in 1..Len(Tail(d)) : Tail(d)[i] = d[i+1]
  BY EmptySeq, ElementOfSeq, HeadTailProperties
<1> PICK a : a = Append(t, Head(d))
  OBVIOUS
<1>2. /\ a \in Seq(WireBytes) /\ Len(a) = Len(t) + 1 /\ Len(t) \in Nat /\ a # <<>>
      /\ \A i \in 1..Len(t) : a[i] = t[i]
      /\ a[Len(t)+1] = d[1]
  BY <1>1, AppendProperties
<1>3. d[1] = WireByte(a[1].of, Len(t) + 1)
  <2>1. CASE t = <<>>
    <3>1. d[1].part = 1 /\ d[1] = WireByte(d[1].of, d[1].part)
      BY <1>1, <2>1, WireBytesAre DEF InOrder
    <3> QED
      BY <1>2, <2>1, <3>1
  <2>2. CASE t # <<>>
    <3>1. ~IsLast(t[Len(t)]) /\ Follows(t[Len(t)], d[1])
      BY <2>2, CompleteIsLast DEF InOrder
    <3>2. d[1] = WireByte(t[Len(t)].of, t[Len(t)].part + 1)
      BY <3>1 DEF Follows
    <3>3. Len(t) \in 1..Len(t) /\ 1 \in 1..Len(t)
      BY <2>2, EmptySeq
    <3>4. t[Len(t)] = WireByte(t[1].of, Len(t)) /\ a[1] = t[1]
      BY <1>2, <3>3 DEF InOrder
    <3>5. t[Len(t)].of = t[1].of /\ t[Len(t)].part = Len(t)
      BY <3>4 DEF WireByte
    <3> QED
      BY <3>2, <3>4, <3>5
  <2> QED
    BY <2>1, <2>2
<1>4. \A i \in 1..Len(a) : a[i] = WireByte(a[1].of, i)
  <2> SUFFICES ASSUME NEW i \in 1..Len(a) PROVE a[i] = WireByte(a[1].of, i)
    OBVIOUS
  <2>1. CASE i \in 1..Len(t)
    <3>1. t # <<>> /\ 1 \in 1..Len(t)
      BY <2>1
    <3>2. a[i] = t[i] /\ a[1] = t[1]
      BY <1>2, <2>1, <3>1
    <3> QED
      BY <2>1, <3>2 DEF InOrder
  <2>2. CASE i = Len(t) + 1
    BY <1>2, <1>3, <2>2
  <2> QED
    BY <1>2, <2>1, <2>2
<1>5. Tail(d) # <<>> => Len(Tail(d)) \in Nat \ {0}
  BY <1>1, EmptySeq
<1>6. Tail(d) # <<>> => Follows(a[Len(a)], Tail(d)[1])
  <2>1. Tail(d) # <<>> => 1 \in 1..Len(Tail(d)) /\ 1 \in 1..Len(d)-1
    BY <1>1, <1>5
  <2> QED
    BY <1>1, <1>2, <2>1 DEF InOrder
<1>7. ASSUME NEW i \in 1..Len(Tail(d))-1
      PROVE  Follows(Tail(d)[i], Tail(d)[i+1])
  <2>1. /\ Tail(d)[i] = d[i+1] /\ Tail(d)[i+1] = d[i+1+1] /\ i+1 \in 1..Len(d)-1
    BY <1>1
  <2> QED
    BY <2>1 DEF InOrder
<1>8. InOrder(a, Tail(d))
  BY <1>2, <1>4, <1>6, <1>7 DEF InOrder
<1>9. LastByte(a, Tail(d)) = LastByte(t, d)
  <2>1. CASE Tail(d) # <<>>
    <3>1. Tail(d)[Len(Tail(d))] = d[Len(d)]
      BY <1>1, <1>5, <2>1
    <3> QED
      BY <2>1, <3>1 DEF LastByte
  <2>2. CASE Tail(d) = <<>>
    <3>1. Len(d) = 1
      BY <1>1, <2>2
    <3> QED
      BY <1>2, <2>2, <3>1 DEF LastByte
  <2> QED
    BY <2>1, <2>2
<1> QED
  BY <1>8, <1>9

LEMMA FirstByteIs ==
  ASSUME NEW f \in Sent
  PROVE  /\ WireByte(f, 1) \in WireBytes /\ WireByte(f, 1).part = 1
         /\ IsLast(WireByte(f, 1)) <=> Len(f) = 1
<1>1. 1 \in 1..Len(f)
  BY SentIs
<1> QED
  BY <1>1, WireByteIs DEF IsLast

\* The arguments follow on the header, and the last one ends the command.
LEMMA ArgumentsFollow ==
  ASSUME NEW f \in Sent, Len(f) > 1, NEW bs, bs = [j \in 1..Len(f)-1 |-> WireByte(f, j + 1)]
  PROVE  /\ bs \in Seq(WireBytes) /\ bs # <<>> /\ Len(bs) = Len(f) - 1
         /\ Follows(WireByte(f, 1), bs[1])
         /\ \A i \in 1..Len(bs)-1 : Follows(bs[i], bs[i+1])
         /\ IsLast(bs[Len(bs)])
         /\ \A i \in 1..Len(bs) : bs[i] = WireByte(f, i + 1)
<1>1. Len(f) \in 1..3
  BY SentIs
<1> PICK n \in 1..2 : n = Len(f) - 1 /\ Len(f) = n + 1
  <2>1. \A m \in 1..3 : m > 1 => m - 1 \in 1..2 /\ m = (m - 1) + 1
    OBVIOUS
  <2>2. Len(f) - 1 \in 1..2 /\ Len(f) = (Len(f) - 1) + 1
    BY <1>1, <2>1, Zenon
  <2> QED
    BY <2>2, Zenon
<1>2. bs = [j \in 1..n |-> WireByte(f, j + 1)]
  OBVIOUS
<1>3. ASSUME NEW j \in 1..n+1
      PROVE  WireByte(f, j) \in WireBytes /\ WireByte(f, j).of = f /\ WireByte(f, j).part = j
  BY <1>3, WireByteIs
<1>4. bs \in [1..n -> WireBytes]
  BY <1>2, <1>3
<1>5. \A s \in [1..n -> WireBytes] : s \in Seq(WireBytes) /\ Len(s) = n
  OBVIOUS
<1>6. bs \in Seq(WireBytes) /\ Len(bs) = n /\ bs # <<>>
  BY <1>4, <1>5
<1>7. \A i \in 1..n : bs[i] = WireByte(f, i + 1)
  BY <1>2
<1>8. ASSUME NEW i \in 1..n PROVE bs[i].of = f /\ bs[i].part = i + 1
  <2>1. i + 1 \in 1..n+1
    OBVIOUS
  <2> QED
    BY <1>3, <1>7, <2>1
<1>9. ASSUME NEW i \in 1..Len(bs)-1 PROVE Follows(bs[i], bs[i+1])
  <2>1. i \in 1..n /\ i + 1 \in 1..n /\ i + 1 # n + 1
    BY <1>6
  <2>2. bs[i].of = f /\ bs[i].part = i + 1 /\ bs[i+1] = WireByte(f, i + 1 + 1)
    BY <1>7, <1>8, <2>1
  <2> QED
    BY <2>1, <2>2 DEF Follows, IsLast
<1>10. Follows(WireByte(f, 1), bs[1])
  <2>1. bs[1] = WireByte(f, 1 + 1) /\ WireByte(f, 1).of = f /\ WireByte(f, 1).part = 1
    BY <1>3, <1>7
  <2> QED
    BY <2>1 DEF Follows, IsLast
<1>11. IsLast(bs[Len(bs)])
  BY <1>6, <1>8 DEF IsLast
<1> QED
  BY <1>6, <1>7, <1>9, <1>10, <1>11

\* A step that leaves the bytes alone, outside of the two writes.
LEMMA FramedStays ==
  ASSUME Framed, UNCHANGED <<taken, down, cut>>, ~Sending, ~Sending'
  PROVE  Framed'
BY DEF Framed

LEMMA SendHeaderFramed ==
  ASSUME Typed, Framed, NEW f \in Commands, pc = "idle", cur' = f, UNCHANGED <<taken, cut>>,
         TryWrite(<<WireByte(f, 1)>>, IF Len(f) > 1 THEN "data" ELSE "read")
  PROVE  Framed'
<1>1. CASE Reinit
  BY <1>1, FramedStays DEF Reinit, Sending
<1>2. CASE live /\ live' /\ down' = down \o <<WireByte(f, 1)>>
           /\ pc' = IF Len(f) > 1 THEN "data" ELSE "read"
  <2> SUFFICES ASSUME ~cut
               PROVE  /\ InOrder(taken, down')
                      /\ Sending' => /\ Unfinished(taken, down')
                                     /\ LastByte(taken, down') = WireByte(f, 1)
                      /\ Unfinished(taken, down') => Sending'
    BY DEF Framed
  <2>1. InOrder(taken, down) /\ ~Unfinished(taken, down)
    BY DEF Framed, Sending
  <2>2. WireByte(f, 1) \in WireBytes /\ WireByte(f, 1).part = 1 /\ f \in Sent /\ Len(f) \in 1..3
        /\ (IsLast(WireByte(f, 1)) <=> Len(f) = 1)
    BY FirstByteIs, SentIs DEF Sent
  <2> PICK b \in WireBytes : b = WireByte(f, 1)
    BY <2>2
  <2>3. <<b>> \in Seq(WireBytes) /\ <<b>> # <<>> /\ <<b>>[1] = b /\ Len(<<b>>) = 1
    OBVIOUS
  <2>4. IF taken = <<>> /\ down = <<>> THEN <<b>>[1].part = 1
        ELSE Follows(LastByte(taken, down), <<b>>[1])
    BY <2>1, <2>2, <2>3, UnfinishedIs DEF Follows
  <2>5. taken \in Seq(WireBytes) /\ down \in Seq(WireBytes)
    BY DEF Typed, PipesOK
  <2>6. \A i \in 1..Len(<<b>>)-1 : Follows(<<b>>[i], <<b>>[i+1])
    BY <2>3
  <2>7. /\ InOrder(taken, down \o <<b>>)
        /\ down \o <<b>> # <<>> /\ LastByte(taken, down \o <<b>>) = <<b>>[Len(<<b>>)]
    BY <2>1, <2>3, <2>4, <2>5, <2>6, ExtendOrder
  <2>8. InOrder(taken, down') /\ down' # <<>> /\ LastByte(taken, down') = b
    BY <1>2, <2>3, <2>7
  <2>9. Unfinished(taken, down') <=> Len(f) # 1
    BY <2>2, <2>8, UnfinishedIs
  <2>10. pc' = IF Len(f) # 1 THEN "data" ELSE "read"
    <3>1. Len(f) > 1 <=> Len(f) # 1
      BY <2>2
    <3> QED
      BY <1>2, <3>1, Zenon
  <2>11. Sending' <=> Len(f) # 1
    BY <1>2, <2>10 DEF Sending
  <2> QED
    BY <2>8, <2>9, <2>11
<1> QED
  BY <1>1, <1>2 DEF TryWrite

LEMMA SendDataFramed ==
  ASSUME Typed, Framed, SendData
  PROVE  Framed'
<1> PICK bs : bs = [j \in 1..Len(cur)-1 |-> WireByte(cur, j + 1)]
  OBVIOUS
<1>1. TryWrite(bs, "read") /\ pc = "data" /\ UNCHANGED <<cur, taken, cut>>
  BY DEF SendData, history
<1>2. CASE Reinit /\ (fd = None \/ ~live)
  <2>1. ~Sending /\ ~Sending'
    BY <1>1, <1>2 DEF Reinit, Sending, Typed, Shape
  <2> QED
    BY <1>1, <1>2, <2>1, FramedStays DEF Reinit
<1>3. CASE live /\ down' = down \o bs /\ pc' = "read"
  <2> SUFFICES ASSUME ~cut
               PROVE  InOrder(taken, down') /\ ~Unfinished(taken, down')
    BY <1>1, <1>3 DEF Framed, Sending
  <2>1. /\ InOrder(taken, down) /\ Unfinished(taken, down)
        /\ LastByte(taken, down) = WireByte(cur, 1)
    BY <1>1, <1>3 DEF Framed, Sending
  <2>2. cur \in Sent /\ Len(cur) > 1
    BY <1>1 DEF Typed, ControllerOK, Shape, Sent
  <2>3. taken \in Seq(WireBytes) /\ down \in Seq(WireBytes)
    BY DEF Typed, PipesOK
  <2>4. /\ bs \in Seq(WireBytes) /\ bs # <<>>
        /\ Follows(WireByte(cur, 1), bs[1])
        /\ \A i \in 1..Len(bs)-1 : Follows(bs[i], bs[i+1])
        /\ IsLast(bs[Len(bs)])
    BY <2>2, ArgumentsFollow
  <2>5. ~(taken = <<>> /\ down = <<>>)
    BY <2>1 DEF Unfinished
  <2>6. /\ InOrder(taken, down \o bs)
        /\ LastByte(taken, down \o bs) = bs[Len(bs)]
    BY <2>1, <2>3, <2>4, <2>5, ExtendOrder
  <2> QED
    BY <1>3, <2>4, <2>6, UnfinishedIs
<1> QED
  BY <1>1, <1>2, <1>3 DEF TryWrite

LEMMA SendPingFramed ==
  ASSUME Typed, Framed, SendPing
  PROVE  Framed'
<1>1. ~Sending /\ ~Sending' /\ UNCHANGED <<taken, cut>>
  BY DEF SendPing, Sending, history
<1> SUFFICES ASSUME ~cut
             PROVE  InOrder(taken, down') /\ ~Unfinished(taken, down')
  BY <1>1 DEF Framed
<1>2. InOrder(taken, down) /\ ~Unfinished(taken, down)
  BY <1>1 DEF Framed
<1>3. Ping \in Sent /\ Len(Ping) = 1
  BY DEF Sent, Ping
<1> PICK b \in WireBytes : b = WireByte(Ping, 1) /\ b.part = 1 /\ IsLast(b)
  BY <1>3, FirstByteIs
<1>4. <<b>> \in Seq(WireBytes) /\ <<b>> # <<>> /\ <<b>>[1] = b /\ Len(<<b>>) = 1
  OBVIOUS
<1>5. IF taken = <<>> /\ down = <<>> THEN <<b>>[1].part = 1
      ELSE Follows(LastByte(taken, down), <<b>>[1])
  BY <1>2, <1>4, UnfinishedIs DEF Follows
<1>6. taken \in Seq(WireBytes) /\ down \in Seq(WireBytes)
  BY DEF Typed, PipesOK
<1>7. \A i \in 1..Len(<<b>>)-1 : Follows(<<b>>[i], <<b>>[i+1])
  BY <1>4
<1>8. /\ InOrder(taken, down \o <<b>>)
      /\ LastByte(taken, down \o <<b>>) = <<b>>[Len(<<b>>)]
  BY <1>2, <1>4, <1>5, <1>6, <1>7, ExtendOrder
<1>9. down' = down \o <<b>>
  BY <1>6, AppendIsConcat DEF SendPing
<1> QED
  BY <1>4, <1>8, <1>9, UnfinishedIs

LEMMA FwReadFramed ==
  ASSUME Typed, Framed, FwRead
  PROVE  Framed'
<1>1. /\ ~Complete(taken) /\ down # <<>>
      /\ taken' = Append(taken, Head(down)) /\ down' = Tail(down)
      /\ UNCHANGED <<pc, live, cur, cut>>
  BY DEF FwRead, controller, history
<1> SUFFICES ASSUME ~cut PROVE Framed'
  BY <1>1 DEF Framed
<1>2. taken \in Seq(WireBytes) /\ down \in Seq(WireBytes)
  BY DEF Typed, PipesOK
<1>3. InOrder(taken, down)
  BY DEF Framed
<1>4. InOrder(taken', down') /\ LastByte(taken', down') = LastByte(taken, down)
  BY <1>1, <1>2, <1>3, ReadOrder
<1>5. taken' # <<>>
  BY <1>1, <1>2, HeadTailProperties, AppendProperties
<1>6. Unfinished(taken', down') <=> Unfinished(taken, down)
  BY <1>1, <1>4, <1>5, UnfinishedIs
<1> QED
  BY <1>1, <1>4, <1>6 DEF Framed, Sending

LEMMA FwAnswerFramed ==
  ASSUME Typed, Framed, FwAnswer
  PROVE  Framed'
<1>1. Complete(taken) /\ taken' = <<>> /\ UNCHANGED <<pc, live, cur, cut, down>>
  BY DEF FwAnswer, controller, history
<1> SUFFICES ASSUME ~cut PROVE Framed'
  BY <1>1 DEF Framed
<1>2. taken \in Seq(WireBytes) /\ taken # <<>>
  BY <1>1 DEF Typed, PipesOK, Complete
<1>3. InOrder(taken, down)
  BY DEF Framed
<1>4. IsLast(taken[Len(taken)])
  BY <1>1, <1>2, <1>3, CompleteIsLast DEF InOrder
<1>5. down # <<>> => down[1].part = 1
  BY <1>2, <1>3, <1>4 DEF InOrder, Follows
<1>6. InOrder(taken', down')
  <2>1. Len(<<>>) = 0
    OBVIOUS
  <2> QED
    BY <1>1, <1>3, <1>5, <2>1 DEF InOrder
<1>7. down # <<>> => LastByte(taken', down') = LastByte(taken, down)
  BY <1>1 DEF LastByte
<1>8. down = <<>> => ~Unfinished(taken, down)
  BY <1>4 DEF Unfinished
<1>9. Unfinished(taken', down') <=> Unfinished(taken, down)
  BY <1>1, <1>7, <1>8, UnfinishedIs DEF Unfinished
<1>10. Unfinished(taken, down) => down # <<>>
  BY <1>8
<1> QED
  BY <1>1, <1>6, <1>7, <1>9, <1>10 DEF Framed, Sending

LEMMA FramedStep == Typed /\ Framed /\ [Next]_vars => Framed'
<1> SUFFICES ASSUME Typed, Framed, [Next]_vars PROVE Framed'
  OBVIOUS
<1>1. CASE Command
  BY <1>1, SendHeaderFramed DEF Command, SendHeader, history
<1>2. CASE Start
  BY <1>2, FramedStays DEF Start, Reinit, Sending, history
<1>3. CASE SendData
  BY <1>3, SendDataFramed
<1>4. CASE ReadResponse
  BY <1>4, FramedStays DEF ReadResponse, Done, Sending, history
<1>5. CASE ReadTimeout
  BY <1>5, FramedStays DEF ReadTimeout, Done, NoAnswer, Sending, history
<1>6. CASE SkipPort
  BY <1>6, FramedStays DEF SkipPort, Sending
<1>7. CASE SendPing
  BY <1>7, SendPingFramed
<1>8. CASE Found
  BY <1>8, FramedStays DEF Found, Done, Sending, history
<1>9. CASE WrongAnswer
  BY <1>9, FramedStays DEF WrongAnswer, NextPort, Sending, history
<1>10. CASE PingTimeout
  BY <1>10, FramedStays DEF PingTimeout, NextPort, NoAnswer, Sending, history
<1>11. CASE NotFound
  BY <1>11, FramedStays DEF NotFound, Done, Sending, history
<1>12. CASE FwRead
  BY <1>12, FwReadFramed
<1>13. CASE FwAnswer
  BY <1>13, FwAnswerFramed
<1>14. CASE Plug
  BY <1>14 DEF Plug, Framed, Sending, controller, history
<1>15. CASE Quit
  <2>1. CASE pc = "idle" /\ pc' = "off" /\ UNCHANGED down
    BY <1>15, <2>1, FramedStays DEF Quit, Sending
  <2>2. CASE pc = "idle" /\ cur' = Close /\ TryWrite(<<WireByte(Close, 1)>>, "read")
    <3>1. Close \in Commands /\ Len(Close) = 1
      BY CommandsAssumption DEF Close
    <3>2. (IF Len(Close) > 1 THEN "data" ELSE "read") = "read"
      BY <3>1
    <3>3. TryWrite(<<WireByte(Close, 1)>>, IF Len(Close) > 1 THEN "data" ELSE "read")
      BY <2>2, <3>2
    <3>4. UNCHANGED <<taken, cut>>
      BY <1>15 DEF Quit
    <3> QED
      BY <2>2, <3>1, <3>3, <3>4, SendHeaderFramed
  <2> QED
    BY <1>15, <2>1, <2>2 DEF Quit
<1>16. CASE Crash
  BY <1>16 DEF Crash, Framed, Sending
<1>17. CASE Unplug
  <2>1. taken' = taken /\ ~Sending' /\ down' \in Prefixes(down)
        /\ cut' = (cut \/ Unfinished(taken, down'))
    BY <1>17 DEF Unplug, Sending
  <2>2. InOrder(taken, down) => InOrder(taken, down')
    BY <2>1, PrefixOrder DEF Typed, PipesOK
  <2> QED
    BY <2>1, <2>2 DEF Framed
<1>18. CASE PowerCycle
  <2>1. taken' = <<>> /\ down' = <<>> /\ ~Sending'
    BY <1>18 DEF PowerCycle, Sending
  <2>2. InOrder(<<>>, <<>>) /\ ~Unfinished(<<>>, <<>>)
    BY DEF InOrder, Unfinished
  <2> QED
    BY <2>1, <2>2 DEF Framed
<1>19. CASE UNCHANGED vars
  BY <1>19 DEF vars, controller, history, Framed, Sending
<1> QED
  BY <1>1, <1>2, <1>3, <1>4, <1>5, <1>6, <1>7, <1>8, <1>9, <1>10, <1>11, <1>12, <1>13, <1>14,
     <1>15, <1>16, <1>17, <1>18, <1>19
     DEF Next, Controller, Discover, Firmware, Faults

LEMMA FramedInit == Init => Framed
<1>1. InOrder(<<>>, <<>>) /\ ~Unfinished(<<>>, <<>>)
  BY DEF InOrder, Unfinished
<1> QED
  BY <1>1 DEF Init, Framed, Sending

\* The firmware, which can only count arguments, does not lose the starts of
\* commands to anything but a command cut short: not to answers nobody reads,
\* to dropped answers, to lost commands or to restarts of the controller.
THEOREM FramingHolds == Spec => []FramingNeedsNoAnswers
<1>1. Typed /\ Framed /\ [Next]_vars => Typed' /\ Framed'
  BY TypedStep, FramedStep
<1>2. Typed /\ Framed => FramingNeedsNoAnswers
  <2> SUFFICES ASSUME Typed, Framed, ~cut, NEW i \in DOMAIN taken PROVE taken[i].part = i
    BY DEF FramingNeedsNoAnswers
  <2>1. i \in 1..Len(taken)
    BY DEF Typed, PipesOK
  <2>2. taken[i] = WireByte(taken[1].of, i)
    BY <2>1 DEF Framed, InOrder
  <2> QED
    BY <2>2 DEF WireByte
<1> QED
  BY <1>1, <1>2, TypedInit, FramedInit, PTL DEF Spec
-----------------------------------------------------------------------------
(* Waiting for every answer.                                               *)

\* Read and on their way are the first n bytes of the command f.
Begun(t, d, f, n) ==
    /\ n = Len(t) + Len(d)
    /\ \A i \in 1..Len(t) : t[i] = WireByte(f, i)
    /\ \A j \in 1..Len(d) : d[j] = WireByte(f, Len(t) + j)

\* Nothing is under way and the firmware waits, if in the middle of a command.
AtRest == up = <<>> /\ Starved(taken, down)

\* One answer is coming, and the firmware waits for a header.
Answered == Len(up) = 1 /\ taken = <<>> /\ down = <<>>

\* A command that became complete after the last PING was sent ends with it.
PingIsLast == Complete(taken) => taken[Len(taken)] = WireByte(Ping, 1)

\* What is under way while the controller's file leads to the device: what it
\* has written since the last answer, or its answer.
Exchange ==
    /\ pc = "idle" => up = <<>> /\ Begun(taken, down, cur, 0)
    /\ pc = "data" => up = <<>> /\ Begun(taken, down, cur, 1)
    /\ pc = "read" => \/ up = <<>> /\ Begun(taken, down, cur, Len(cur))
                      \/ Answered /\ up[1].to = cur
    /\ pc = "ping" => \/ up = <<>> /\ down = <<>> /\ PingIsLast
                      \/ up = <<>> /\ down = <<WireByte(Ping, 1)>> /\ ~Complete(taken)
                      \/ Answered

PingsOnly == \A i \in DOMAIN taken : taken[i].part = i \/ Val(taken[i]) = HDR_PING

\* A file that no longer leads to the device leaves nothing under way.
InStep == ~late => /\ PingsOnly
                   /\ IF live THEN Exchange ELSE AtRest

LEMMA BegunNone ==
  ASSUME NEW t \in Seq(WireBytes), NEW d \in Seq(WireBytes), NEW f
  PROVE  Begun(t, d, f, 0) <=> t = <<>> /\ d = <<>>
<1>1. Len(t) \in Nat /\ Len(d) \in Nat /\ (t = <<>> <=> Len(t) = 0) /\ (d = <<>> <=> Len(d) = 0)
  BY EmptySeq
<1>2. CASE Begun(t, d, f, 0)
  BY <1>1, <1>2 DEF Begun
<1>3. CASE t = <<>> /\ d = <<>>
  BY <1>1, <1>3 DEF Begun
<1> QED
  BY <1>2, <1>3

\* The controller writes on.
LEMMA BegunWrite ==
  ASSUME NEW t \in Seq(WireBytes), NEW d \in Seq(WireBytes), NEW f, NEW n \in Nat,
         Begun(t, d, f, n), NEW bs \in Seq(WireBytes),
         \A i \in 1..Len(bs) : bs[i] = WireByte(f, n + i)
  PROVE  Begun(t, d \o bs, f, n + Len(bs))
<1> PICK k \in Nat : k = Len(t)
  OBVIOUS
<1> PICK l \in Nat : l = Len(d)
  OBVIOUS
<1> PICK m \in Nat : m = Len(bs)
  OBVIOUS
<1> PICK e \in Seq(WireBytes) : e = d \o bs
  BY ConcatProperties
<1>1. /\ Len(e) = l + m
      /\ \A i \in 1..l+m : e[i] = IF i <= l THEN d[i] ELSE bs[i - l]
  BY ConcatProperties
<1>2. n = k + l
  BY DEF Begun
<1>6. \A j \in 1..l : d[j] = WireByte(f, k + j)
  BY DEF Begun
<1>3. ASSUME NEW j \in 1..l+m PROVE e[j] = WireByte(f, k + j)
  <2>1. CASE j <= l
    BY <1>1, <1>6, <2>1
  <2>2. CASE j > l
    <3>1. j - l \in 1..m /\ n + (j - l) = k + j
      BY <1>2, <2>2
    <3>2. e[j] = bs[j - l]
      BY <1>1, <2>2
    <3> QED
      BY <3>1, <3>2
  <2> QED
    BY <2>1, <2>2
<1>4. n + Len(bs) = Len(t) + Len(e)
  BY <1>1, <1>2
<1>5. \A j \in 1..Len(e) : e[j] = WireByte(f, Len(t) + j)
  BY <1>1, <1>3
<1> QED
  BY <1>4, <1>5 DEF Begun

\* The firmware reads on.
LEMMA BegunRead ==
  ASSUME NEW t \in Seq(WireBytes), NEW d \in Seq(WireBytes), NEW f, NEW n \in Nat,
         Begun(t, d, f, n), d # <<>>
  PROVE  /\ Begun(Append(t, Head(d)), Tail(d), f, n)
         /\ Head(d) = WireByte(f, Len(t) + 1)
<1>1. /\ Len(d) \in Nat \ {0} /\ Head(d) = d[1] /\ d[1] \in WireBytes
      /\ Tail(d) \in Seq(WireBytes) /\ Len(Tail(d)) = Len(d) - 1
      /\ \A i \in 1..Len(Tail(d)) : Tail(d)[i] = d[i+1]
  BY EmptySeq, ElementOfSeq, HeadTailProperties
<1> PICK k \in Nat : k = Len(t)
  OBVIOUS
<1> PICK l \in Nat \ {0} : l = Len(d)
  BY <1>1
<1> PICK a : a = Append(t, Head(d))
  OBVIOUS
<1>2. /\ a \in Seq(WireBytes) /\ Len(a) = k + 1
      /\ \A i \in 1..k : a[i] = t[i]
      /\ a[k+1] = d[1]
  BY <1>1, AppendProperties
<1>3. n = k + l /\ \A i \in 1..k : t[i] = WireByte(f, i)
  BY DEF Begun
<1>4. \A j \in 1..l : d[j] = WireByte(f, k + j)
  BY DEF Begun
<1>5. d[1] = WireByte(f, k + 1)
  BY <1>4
<1>6. \A i \in 1..Len(a) : a[i] = WireByte(f, i)
  BY <1>2, <1>3, <1>5
<1>7. ASSUME NEW j \in 1..Len(Tail(d)) PROVE Tail(d)[j] = WireByte(f, Len(a) + j)
  <2>1. Tail(d)[j] = d[j+1] /\ j + 1 \in 1..l /\ k + (j + 1) = Len(a) + j
    BY <1>1, <1>2
  <2> QED
    BY <1>4, <2>1
<1>8. n = Len(a) + Len(Tail(d))
  BY <1>1, <1>2, <1>3
<1> QED
  BY <1>1, <1>5, <1>6, <1>7, <1>8 DEF Begun

\* The firmware is done with a command when it has read all its bytes.
LEMMA BegunComplete ==
  ASSUME NEW t \in Seq(WireBytes), t # <<>>, NEW d, NEW f \in Sent, NEW n, Begun(t, d, f, n)
  PROVE  /\ Complete(t) <=> Len(t) = Len(f)
         /\ Len(t) = Len(f) => Vals(t) = f
<1>1. Len(t) \in Nat \ {0} /\ 1 \in 1..Len(t)
  BY EmptySeq
<1>2. 1 \in 1..Len(f) /\ Len(f) = 1 + NArgs(f[1])
  BY SentIs
<1>3. t[1] = WireByte(f, 1)
  BY <1>1 DEF Begun
<1>4. Val(t[1]) = f[1]
  BY <1>2, <1>3, WireByteIs
<1>5. Complete(t) <=> Len(t) = Len(f)
  BY <1>2, <1>4 DEF Complete
<1>6. ASSUME Len(t) = Len(f) PROVE Vals(t) = f
  <2> PICK m \in Nat : m = Len(f)
    BY <1>1, <1>6
  <2>1. \A i \in 1..m : t[i] = WireByte(f, i)
    BY <1>6 DEF Begun
  <2>2. \A i \in 1..m : Val(t[i]) = f[i]
    BY <2>1, WireByteIs
  <2>3. DOMAIN t = 1..m
    BY <1>6
  <2>4. Vals(t) = [i \in 1..m |-> f[i]]
    BY <2>2, <2>3 DEF Vals
  <2>5. f \in Seq(Byte)
    BY SentIs
  <2>6. f = [i \in 1..m |-> f[i]]
    BY <2>5
  <2> QED
    BY <2>4, <2>6
<1> QED
  BY <1>5, <1>6

\* What both pipes and the types contribute to the steps below.
LEMMA Pipes ==
  ASSUME Typed
  PROVE  /\ taken \in Seq(WireBytes) /\ down \in Seq(WireBytes) /\ up \in Seq(Replies)
         /\ cur \in Sent /\ Len(cur) \in 1..3
         /\ live => pc \in {"idle", "data", "read", "ping"}
BY SentIs DEF Typed, ControllerOK, PipesOK, Shape, Sent

\* The last answer is read.
LEMMA LastAnswer ==
  ASSUME Typed, Answered
  PROVE  Tail(up) = <<>>
<1>1. up \in Seq(Replies) /\ Len(up) = 1 /\ up # <<>>
  BY Pipes, EmptySeq DEF Answered
<1>2. Tail(up) \in Seq(Replies) /\ Len(Tail(up)) = 0
  BY <1>1, HeadTailProperties
<1> QED
  BY <1>2, EmptySeq

\* A device that is left alone between commands stays at rest.
LEMMA Rest ==
  ASSUME Typed, InStep, ~late', UNCHANGED <<late, taken, down>>, ~live, ~live',
         up' = up \/ up' \in Suffixes(up)
  PROVE  InStep'
<1>1. PingsOnly /\ AtRest
  BY DEF InStep
<1>2. up' = <<>>
  BY <1>1, EmptySuffix DEF AtRest
<1> QED
  BY <1>1, <1>2 DEF InStep, PingsOnly, AtRest, Starved

\* send_cmd() or discover() returns, with nothing under way.
LEMMA Returned ==
  ASSUME Typed, InStep, ~late, UNCHANGED <<taken, down, cur, late>>,
         taken = <<>>, down = <<>>, NEW f, Done(f, <<>>)
  PROVE  InStep'
<1>1. up' = <<>>
  BY EmptySuffix DEF Done
<1>2. live' => pc' = "idle"
  BY DEF Done
<1>3. Begun(taken', down', cur', 0)
  BY Pipes, BegunNone
<1>4. AtRest'
  BY <1>1 DEF AtRest, Starved, Complete
<1> QED
  BY <1>1, <1>2, <1>3, <1>4 DEF InStep, PingsOnly, Exchange

LEMMA SendHeaderInStep ==
  ASSUME Typed, InStep, NEW f \in Commands, pc = "idle", cur' = f, UNCHANGED <<taken, up, late>>,
         TryWrite(<<WireByte(f, 1)>>, IF Len(f) > 1 THEN "data" ELSE "read")
  PROVE  InStep'
<1> SUFFICES ASSUME ~late PROVE InStep'
  BY DEF InStep
<1>1. CASE Reinit /\ (fd = None \/ ~live)
  <2>1. ~live /\ ~live' /\ UNCHANGED down
    BY <1>1 DEF Reinit, Typed, Shape
  <2> QED
    BY <2>1, Rest
<1>2. CASE live /\ live' /\ down' = down \o <<WireByte(f, 1)>>
           /\ pc' = IF Len(f) > 1 THEN "data" ELSE "read"
  <2>1. up = <<>> /\ taken = <<>> /\ down = <<>>
    BY <1>2, Pipes, BegunNone DEF InStep, Exchange
  <2>2. f \in Sent /\ Len(f) \in 1..3 /\ WireByte(f, 1) \in WireBytes
    BY SentIs, FirstByteIs DEF Sent
  <2> PICK b \in WireBytes : b = WireByte(f, 1)
    BY <2>2
  <2>3. <<b>> \in Seq(WireBytes) /\ Len(<<b>>) = 1 /\ \A i \in 1..1 : <<b>>[i] = WireByte(f, 0 + i)
    OBVIOUS
  <2>4. Begun(taken, down, f, 0) /\ taken \in Seq(WireBytes) /\ down \in Seq(WireBytes)
    BY <2>1, Pipes, BegunNone
  <2>5. Begun(taken, down \o <<b>>, f, 0 + Len(<<b>>))
    BY <2>3, <2>4, BegunWrite
  <2>6. Begun(taken', down', f, 1)
    BY <1>2, <2>3, <2>5
  <2>7. pc' = "data" \/ (pc' = "read" /\ Len(f) = 1)
    <3>1. CASE Len(f) > 1
      BY <1>2, <3>1
    <3>2. CASE ~(Len(f) > 1)
      <4>1. pc' = "read"
        BY <1>2, <3>2
      <4> QED
        BY <2>2, <3>2, <4>1
    <3> QED
      BY <3>1, <3>2
  <2> QED
    BY <1>2, <2>1, <2>6, <2>7 DEF InStep, PingsOnly, Exchange
<1> QED
  BY <1>1, <1>2 DEF TryWrite

LEMMA SendDataInStep ==
  ASSUME Typed, InStep, SendData
  PROVE  InStep'
<1> PICK bs : bs = [j \in 1..Len(cur)-1 |-> WireByte(cur, j + 1)]
  OBVIOUS
<1>1. TryWrite(bs, "read") /\ pc = "data" /\ UNCHANGED <<cur, taken, up, late>>
  BY DEF SendData, history
<1> SUFFICES ASSUME ~late PROVE InStep'
  BY <1>1 DEF InStep
<1>2. CASE Reinit /\ (fd = None \/ ~live)
  <2>1. ~live /\ ~live' /\ UNCHANGED down
    BY <1>1, <1>2 DEF Reinit, Typed, Shape
  <2> QED
    BY <1>1, <2>1, Rest
<1>3. CASE live /\ down' = down \o bs /\ pc' = "read" /\ UNCHANGED live
  <2>1. up = <<>> /\ Begun(taken, down, cur, 1)
    BY <1>1, <1>3 DEF InStep, Exchange
  <2>2. cur \in Sent /\ Len(cur) > 1 /\ Len(cur) \in 1..3
    BY <1>1, Pipes DEF Typed, Shape
  <2>3. /\ bs \in Seq(WireBytes) /\ Len(bs) = Len(cur) - 1
        /\ \A i \in 1..Len(bs) : bs[i] = WireByte(cur, i + 1)
    BY <2>2, ArgumentsFollow
  <2>4. ASSUME NEW i \in 1..Len(bs) PROVE bs[i] = WireByte(cur, 1 + i)
    <3>1. i + 1 = 1 + i
      OBVIOUS
    <3> QED
      BY <2>3, <3>1
  <2>5. Begun(taken, down \o bs, cur, 1 + Len(bs))
    BY <2>1, <2>3, <2>4, Pipes, BegunWrite
  <2>6. 1 + Len(bs) = Len(cur)
    BY <2>2, <2>3
  <2>7. Begun(taken', down', cur', Len(cur'))
    BY <1>1, <1>3, <2>5, <2>6
  <2> QED
    BY <1>1, <1>3, <2>1, <2>7 DEF InStep, PingsOnly, Exchange
<1> QED
  BY <1>1, <1>2, <1>3 DEF TryWrite

LEMMA ReadTimeoutInStep ==
  ASSUME Typed, InStep, ReadTimeout
  PROVE  InStep'
<1>1. pc = "read" /\ NoAnswer /\ Done(fd, up) /\ UNCHANGED <<cur, down, taken>>
  BY DEF ReadTimeout
<1> SUFFICES ASSUME ~late' PROVE InStep'
  BY DEF InStep
<1>2. ~late /\ late' = late
  BY <1>1 DEF NoAnswer, history, Typed, HistoryOK
<1>3. CASE ~live
  BY <1>1, <1>2, <1>3, Rest DEF Done
<1>4. CASE live
  <2>1. up = <<>> /\ down = <<>> /\ ~Complete(taken)
    BY <1>1, <1>2, <1>4 DEF NoAnswer, Starved
  <2>2. Begun(taken, down, cur, Len(cur))
    BY <1>1, <1>2, <1>4, <2>1 DEF InStep, Exchange, Answered
  <2>3. Len(taken) = Len(cur) /\ taken # <<>>
    BY <2>1, <2>2, Pipes DEF Begun
  <2> QED
    BY <2>1, <2>2, <2>3, Pipes, BegunComplete
<1> QED
  BY <1>3, <1>4

LEMMA PingTimeoutInStep ==
  ASSUME Typed, InStep, PingTimeout
  PROVE  InStep'
<1>1. pc = "ping" /\ NoAnswer /\ NextPort(up)
  BY DEF PingTimeout
<1> SUFFICES ASSUME ~late' PROVE InStep'
  BY DEF InStep
<1>2. ~late /\ late' = late
  BY <1>1 DEF NoAnswer, history, Typed, HistoryOK
<1>3. CASE ~live
  BY <1>1, <1>2, <1>3, Rest DEF NextPort
<1>4. CASE live
  <2>1. up = <<>> /\ Starved(taken, down)
    BY <1>1, <1>2, <1>4 DEF NoAnswer
  <2>2. up' = <<>> /\ ~live' /\ UNCHANGED <<taken, down>>
    BY <1>1, <2>1, EmptySuffix DEF NextPort
  <2> QED
    BY <1>2, <2>1, <2>2 DEF InStep, PingsOnly, AtRest
<1> QED
  BY <1>3, <1>4

LEMMA FwReadInStep ==
  ASSUME Typed, InStep, FwRead
  PROVE  InStep'
<1>1. /\ ~Complete(taken) /\ down # <<>>
      /\ taken' = Append(taken, Head(down)) /\ down' = Tail(down)
      /\ UNCHANGED <<pc, live, cur, up, late>>
  BY DEF FwRead, controller, history
<1> SUFFICES ASSUME ~late PROVE InStep'
  BY <1>1 DEF InStep
<1>2. live /\ PingsOnly /\ Exchange
  BY <1>1 DEF InStep, AtRest, Starved
<1>3. /\ Head(down) = down[1] /\ Head(down) \in WireBytes
      /\ Len(taken') = Len(taken) + 1 /\ Len(taken) \in Nat
      /\ \A i \in 1..Len(taken) : taken'[i] = taken[i]
      /\ taken'[Len(taken)+1] = Head(down)
      /\ DOMAIN taken' = 1..Len(taken)+1 /\ DOMAIN taken = 1..Len(taken)
  BY <1>1, Pipes, HeadTailProperties, AppendProperties
<1>4. ASSUME Head(down).part = Len(taken) + 1 \/ Val(Head(down)) = HDR_PING
      PROVE  PingsOnly'
  <2> SUFFICES ASSUME NEW i \in 1..Len(taken)+1
               PROVE  taken'[i].part = i \/ Val(taken'[i]) = HDR_PING
    BY <1>3 DEF PingsOnly
  <2>1. CASE i \in 1..Len(taken)
    BY <1>2, <1>3, <2>1 DEF PingsOnly
  <2>2. CASE i = Len(taken) + 1
    BY <1>3, <1>4, <2>2
  <2> QED
    BY <1>3, <2>1, <2>2
<1>5. CASE pc \in {"idle", "data", "read"}
  <2>1. ASSUME NEW n \in Nat, Begun(taken, down, cur, n)
        PROVE  Begun(taken', down', cur, n) /\ PingsOnly'
    <3>1. /\ Begun(Append(taken, Head(down)), Tail(down), cur, n)
          /\ Head(down) = WireByte(cur, Len(taken) + 1)
      BY <1>1, <2>1, Pipes, BegunRead
    <3>2. PingsOnly'
      BY <1>4, <3>1 DEF WireByte
    <3> QED
      BY <1>1, <3>1, <3>2
  <2>2. CASE pc = "idle"
    BY <1>1, <1>2, <2>1, <2>2 DEF InStep, Exchange
  <2>3. CASE pc = "data"
    BY <1>1, <1>2, <2>1, <2>3 DEF InStep, Exchange
  <2>4. CASE pc = "read"
    <3>1. up = <<>> /\ Begun(taken, down, cur, Len(cur)) /\ Len(cur) \in Nat
      BY <1>1, <1>2, <2>4, Pipes DEF Exchange, Answered
    <3> QED
      BY <1>1, <1>2, <2>1, <2>4, <3>1 DEF InStep, Exchange
  <2> QED
    BY <1>5, <2>2, <2>3, <2>4
<1>6. CASE pc = "ping"
  <2>1. up = <<>> /\ down = <<WireByte(Ping, 1)>>
    BY <1>1, <1>2, <1>6 DEF Exchange, Answered
  <2>2. Val(Head(down)) = HDR_PING
    BY <2>1 DEF WireByte, Val, Ping
  <2>3. down' = <<>>
    BY <1>1, <2>1
  <2>4. PingIsLast'
    BY <1>3, <2>1 DEF PingIsLast
  <2> QED
    BY <1>1, <1>2, <1>4, <1>6, <2>1, <2>2, <2>3, <2>4 DEF InStep, Exchange
<1> QED
  BY <1>2, <1>5, <1>6, Pipes

\* In step, a complete command is the one send_cmd() waits for, or ends with
\* the PING discover() waits for.
LEMMA CompleteInStep ==
  ASSUME Typed, InStep, ~late, Complete(taken)
  PROVE  /\ live /\ up = <<>> /\ down = <<>> /\ taken # <<>>
         /\ \/ pc = "read" /\ Vals(taken) = cur
            \/ pc = "ping" /\ taken[Len(taken)] = WireByte(Ping, 1)
<1>1. live /\ Exchange
  BY DEF InStep, AtRest, Starved
<1>2. taken # <<>> /\ Len(taken) \in Nat \ {0}
  BY Pipes, EmptySeq DEF Complete
<1>3. up = <<>> /\ pc \in {"data", "read", "ping"}
  BY <1>1, <1>2, Pipes, BegunNone DEF Exchange, Answered
<1>4. pc # "data"
  <2> SUFFICES ASSUME pc = "data" PROVE FALSE
    OBVIOUS
  <2>1. Begun(taken, down, cur, 1) /\ Len(cur) > 1
    BY <1>1 DEF Exchange, Typed, Shape
  <2>2. Len(taken) = Len(cur)
    BY <1>2, <2>1, Pipes, BegunComplete
  <2>3. 1 = Len(taken) + Len(down) /\ Len(down) \in Nat
    BY <2>1, Pipes DEF Begun
  <2> QED
    BY <2>1, <2>2, <2>3
<1>5. CASE pc = "read"
  <2>1. Begun(taken, down, cur, Len(cur))
    BY <1>1, <1>2, <1>5 DEF Exchange, Answered
  <2>2. Len(taken) = Len(cur) /\ Vals(taken) = cur
    BY <1>2, <2>1, Pipes, BegunComplete
  <2>3. Len(down) = 0
    BY <2>1, <2>2, Pipes DEF Begun
  <2>4. down = <<>>
    BY <2>3, Pipes, EmptySeq
  <2> QED
    BY <1>1, <1>2, <1>3, <1>5, <2>2, <2>4
<1>6. CASE pc = "ping"
  BY <1>1, <1>2, <1>3, <1>6 DEF Exchange, Answered, PingIsLast
<1> QED
  BY <1>3, <1>4, <1>5, <1>6

LEMMA FwAnswerInStep ==
  ASSUME Typed, InStep, FwAnswer
  PROVE  InStep'
<1>1. Complete(taken) /\ taken' = <<>> /\ UNCHANGED <<pc, live, cur, down, late>>
  BY DEF FwAnswer, controller, history
<1> SUFFICES ASSUME ~late PROVE InStep'
  BY <1>1 DEF InStep
<1>2. /\ live /\ up = <<>> /\ down = <<>>
      /\ (pc = "read" /\ Vals(taken) = cur) \/ pc = "ping"
  BY <1>1, CompleteInStep
<1>3. PICK a : up' = Append(<<>>, [val |-> a, to |-> Vals(taken)])
  <2>1. PICK a : up' = IF Len(up) < UpCap THEN Append(up, [val |-> a, to |-> Vals(taken)]) ELSE up
    BY DEF FwAnswer
  <2>2. Len(up) < UpCap
    BY <1>2
  <2> QED
    BY <1>2, <2>1, <2>2
<1>4. Len(up') = 1 /\ up'[1].to = Vals(taken)
  BY <1>3
<1> QED
  BY <1>1, <1>2, <1>4 DEF InStep, PingsOnly, Exchange, Answered

LEMMA InStepStep == Typed /\ InStep /\ [Next]_vars => InStep'
<1> SUFFICES ASSUME Typed, InStep, [Next]_vars PROVE InStep'
  OBVIOUS
<1>1. CASE Command
  BY <1>1, SendHeaderInStep DEF Command, SendHeader, history
<1>2. CASE Start
  <2>1. ~live /\ ~live' /\ UNCHANGED <<taken, down, up, late>>
    BY <1>2 DEF Start, Reinit, history, Typed, Shape
  <2> QED
    BY <2>1, Rest DEF InStep
<1>3. CASE SendData
  BY <1>3, SendDataInStep
<1>4. CASE ReadResponse
  <2>1. /\ pc = "read" /\ live /\ up # <<>>
        /\ Done(fd, Tail(up)) /\ UNCHANGED <<cur, down, taken, late>>
    BY <1>4 DEF ReadResponse, history
  <2>2. ~late => Answered
    BY <2>1 DEF InStep, Exchange
  <2>3. ~late => Done(fd, <<>>) /\ taken = <<>> /\ down = <<>>
    BY <2>1, <2>2, LastAnswer DEF Answered
  <2> QED
    BY <2>1, <2>3, Returned DEF InStep
<1>5. CASE ReadTimeout
  BY <1>5, ReadTimeoutInStep
<1>6. CASE SkipPort
  <2>1. ~live /\ UNCHANGED <<live, taken, down, up, late>>
    BY <1>6 DEF SkipPort, Typed, Shape
  <2> QED
    BY <2>1, Rest DEF InStep
<1>7. CASE SendPing
  <2>1. ~live /\ live' /\ pc' = "ping" /\ UNCHANGED <<taken, up, late>>
    BY <1>7 DEF SendPing, history, Typed, Shape
  <2>2. ~late => AtRest /\ PingsOnly
    BY <2>1 DEF InStep
  <2>3. ~late => up' = <<>> /\ down' = <<WireByte(Ping, 1)>> /\ ~Complete(taken')
    BY <1>7, <2>1, <2>2 DEF SendPing, AtRest, Starved
  <2> QED
    BY <2>1, <2>2, <2>3 DEF InStep, PingsOnly, Exchange
<1>8. CASE Found
  <2>1. /\ pc = "ping" /\ live /\ up # <<>>
        /\ Done(port, Tail(up)) /\ UNCHANGED <<cur, down, taken, late>>
    BY <1>8 DEF Found, history
  <2>2. ~late => Answered
    BY <2>1 DEF InStep, Exchange
  <2>3. ~late => Done(port, <<>>) /\ taken = <<>> /\ down = <<>>
    BY <2>1, <2>2, LastAnswer DEF Answered
  <2> QED
    BY <2>1, <2>3, Returned DEF InStep
<1>9. CASE WrongAnswer
  <2>1. /\ pc = "ping" /\ live /\ up # <<>>
        /\ NextPort(Tail(up)) /\ UNCHANGED <<down, taken, late>>
    BY <1>9 DEF WrongAnswer, NextPort, history
  <2>2. ~late => Answered
    BY <2>1 DEF InStep, Exchange
  <2>3. ~late => up' = <<>>
    BY <2>1, <2>2, LastAnswer, EmptySuffix DEF NextPort
  <2>4. ~live'
    BY <2>1 DEF NextPort
  <2>5. ~late => AtRest' /\ PingsOnly'
    BY <2>1, <2>2, <2>3 DEF Answered, AtRest, Starved, Complete, PingsOnly
  <2> QED
    BY <2>1, <2>4, <2>5 DEF InStep
<1>10. CASE PingTimeout
  BY <1>10, PingTimeoutInStep
<1>11. CASE NotFound
  <2>1. ~live /\ ~live' /\ UNCHANGED <<taken, down, late>> /\ (up' = up \/ up' \in Suffixes(up))
    BY <1>11 DEF NotFound, Done, history, Typed, Shape
  <2> QED
    BY <2>1, Rest DEF InStep
<1>12. CASE FwRead
  BY <1>12, FwReadInStep
<1>13. CASE FwAnswer
  BY <1>13, FwAnswerInStep
<1>14. CASE Plug
  BY <1>14 DEF Plug, controller, history, InStep, PingsOnly, Exchange, PingIsLast, AtRest, Answered
<1>15. CASE Quit
  <2>1. CASE pc = "idle" /\ fd = None /\ UNCHANGED <<live, down>>
    <3>1. ~live /\ ~live' /\ UNCHANGED <<taken, up, late>>
      BY <1>15, <2>1 DEF Quit, Typed, Shape
    <3> QED
      BY <2>1, <3>1, Rest DEF InStep
  <2>2. CASE pc = "idle" /\ cur' = Close /\ TryWrite(<<WireByte(Close, 1)>>, "read")
    <3>1. Close \in Commands /\ Len(Close) = 1
      BY CommandsAssumption DEF Close
    <3>2. (IF Len(Close) > 1 THEN "data" ELSE "read") = "read"
      BY <3>1
    <3>3. TryWrite(<<WireByte(Close, 1)>>, IF Len(Close) > 1 THEN "data" ELSE "read")
      BY <2>2, <3>2
    <3>4. UNCHANGED <<taken, up, late>>
      BY <1>15 DEF Quit
    <3> QED
      BY <2>2, <3>1, <3>3, <3>4, SendHeaderInStep
  <2> QED
    BY <1>15, <2>1, <2>2 DEF Quit
<1>16. CASE Crash
  <2>1. ~live' /\ UNCHANGED <<taken, down>> /\ late' = (late \/ up' # <<>> \/ ~Starved(taken, down))
    BY <1>16 DEF Crash
  <2> QED
    BY <2>1 DEF InStep, PingsOnly, AtRest
<1>17. CASE Unplug
  <2>1. ~live' /\ taken' = taken /\ late' = (late \/ up' # <<>> \/ ~Starved(taken, down'))
    BY <1>17 DEF Unplug
  <2> QED
    BY <2>1 DEF InStep, PingsOnly, AtRest
<1>18. CASE PowerCycle
  <2>1. ~live' /\ taken' = <<>> /\ down' = <<>> /\ up' = <<>>
    BY <1>18 DEF PowerCycle
  <2> QED
    BY <2>1 DEF InStep, PingsOnly, AtRest, Starved, Complete
<1>19. CASE UNCHANGED vars
  BY <1>19 DEF vars, controller, history, InStep, PingsOnly, Exchange, PingIsLast, AtRest,
                   Answered
<1> QED
  BY <1>1, <1>2, <1>3, <1>4, <1>5, <1>6, <1>7, <1>8, <1>9, <1>10, <1>11, <1>12, <1>13, <1>14,
     <1>15, <1>16, <1>17, <1>18, <1>19
     DEF Next, Controller, Discover, Firmware, Faults

LEMMA InStepInit == Init => InStep
BY DEF Init, InStep, PingsOnly, AtRest, Starved, Complete

LEMMA InStepHolds == Spec => [](Typed /\ InStep)
<1>1. Typed /\ InStep /\ [Next]_vars => Typed' /\ InStep'
  BY TypedStep, InStepStep
<1> QED
  BY <1>1, TypedInit, InStepInit, PTL DEF Spec

\* As long as the controller waits for every answer that is to come, what the
\* firmware takes for arguments but is none are PINGs only.
THEOREM SwallowedArePings == Spec => []OnlyPingsSwallowed
<1>1. Typed /\ InStep => OnlyPingsSwallowed
  BY DEF InStep, PingsOnly, OnlyPingsSwallowed
<1> QED
  BY <1>1, InStepHolds, PTL

\* ... and a device discover() accepted is in step again, whatever was cut
\* short before.
THEOREM LockstepHolds == Spec => []Lockstep
<1>1. Typed /\ InStep => Lockstep
  BY Pipes, BegunNone DEF InStep, Exchange, Lockstep
<1> QED
  BY <1>1, InStepHolds, PTL

\* ... and the answer send_cmd() reads is that to the command it just sent.
THEOREM AnswersMatch == Spec => []AnswersInStep
<1>1. Typed /\ InStep => AnswersInStep
  BY DEF InStep, Exchange, Answered, AnswersInStep
<1> QED
  BY <1>1, InStepHolds, PTL
=============================================================================
