--------------------------- MODULE LogRingProofs ---------------------------
(* Proofs about LogRing, for every size of the ring, all messages and all  *)
(* window heights.                                                         *)
EXTENDS LogRing, TLAPS

USE NAssumption, MsgsAssumption, LinesAssumption, NoMsgAssumption

-----------------------------------------------------------------------------
(* Arithmetic of the ring.                                                 *)

\* INC_IDX wraps at most once as long as it goes no further than a round.
LEMMA IncIdxIs ==
    ASSUME NEW i \in Slots, NEW k \in 0..N
    PROVE  /\ IncIdx(i, k) = IF i + k < N THEN i + k ELSE i + k - N
           /\ IncIdx(i, k) \in Slots
<1> DEFINE x == i + k
<1>1. x \in Int /\ 0 <= x /\ x < 2 * N
  BY DEF Slots
<1>2. CASE x < N
  <2>1. x % N = x
    BY <1>1, <1>2
  <2> QED
    BY <1>1, <1>2, <2>1 DEF IncIdx, Slots
<1>3. CASE N <= x
  <2>1. x % N = x - N
    BY <1>1, <1>3
  <2> QED
    BY <1>1, <1>3, <2>1 DEF IncIdx, Slots
<1> QED
  BY <1>1, <1>2, <1>3

\* log_end lies log_size slots after log_start, and no entry sits there.
LEMMA EndIs ==
    ASSUME TypeOK
    PROVE  /\ log_size \in 0..N-1
           /\ log_end = IncIdx(log_start, log_size)
           /\ \A j \in 0..N-1 : IncIdx(log_start, j) = log_end <=> j = log_size
<1>1. log_size \in 0..N-1
  BY DEF TypeOK, Slots, log_size
<1>2. \A j \in 0..N-1 : IncIdx(log_start, j) = IF log_start + j < N THEN log_start + j
                                               ELSE log_start + j - N
  BY IncIdxIs DEF TypeOK
<1>3. \A j \in 0..N-1 : IncIdx(log_start, j) = log_end <=> j = log_size
  <2> TAKE j \in 0..N-1
  <2>1. log_start \in 0..N-1 /\ log_end \in 0..N-1
    BY DEF TypeOK, Slots
  <2>2. log_size = IF log_start <= log_end THEN log_end - log_start
                   ELSE N - log_start + log_end
    BY DEF log_size
  <2>3. IncIdx(log_start, j) = IF log_start + j < N THEN log_start + j
                               ELSE log_start + j - N
    BY <1>2
  <2> QED
    BY <2>1, <2>2, <2>3
<1> QED
  BY <1>1, <1>3

\* Content is a sequence of log_size messages.
LEMMA ContentIs ==
    ASSUME TypeOK
    PROVE  /\ Content \in Seq(Msgs \cup {NoMsg})
           /\ Len(Content) = log_size
           /\ \A j \in 1..log_size : Content[j] = msg[IncIdx(log_start, j - 1)]
           /\ \A j \in 1..log_size : IncIdx(log_start, j - 1) \in Slots
<1>1. log_size \in 0..N-1
  BY EndIs
<1>2. \A j \in 1..log_size : j - 1 \in 0..N /\ IncIdx(log_start, j - 1) \in Slots
  <2> TAKE j \in 1..log_size
  <2>1. j - 1 \in 0..N
    BY <1>1
  <2> QED
    BY <2>1, IncIdxIs DEF TypeOK
<1>3. \A j \in 1..log_size : msg[IncIdx(log_start, j - 1)] \in Msgs \cup {NoMsg}
  BY <1>2 DEF TypeOK
<1> QED
  BY <1>1, <1>2, <1>3 DEF Content

-----------------------------------------------------------------------------
(* The inductive invariant.                                                *)

\* A buffer that is there has room for its length and the final 0.
BufferInv == \A i \in Slots : room[i] # 0 => room[i] = len[i] + 1

\* The entries a redraw skips.
Skipped == IF log_size > max THEN log_size - max ELSE 0

\* A redraw starts at log_start, and has drawn the entries after the skipped
\* ones up to log_next.
CycleInv ==
    /\ pc = "idle" => log_next = log_start
    /\ pc = "cycle" =>
        /\ max \in Lines
        /\ Skipped + Len(out) <= log_size
        /\ \A j \in 1..Len(out) : out[j] = Content[Skipped + j]
        /\ log_next = IF out = <<>> THEN log_start
                      ELSE IncIdx(log_start, Skipped + Len(out))

IInv == TypeOK /\ BufferInv /\ TextFits /\ CycleInv

\* Where log_cycle() looks next, and when it has reached the end.
LEMMA FirstIdxIs ==
    ASSUME TypeOK, CycleInv, pc = "cycle"
    PROVE  /\ Skipped \in 0..log_size
           /\ FirstIdx = IncIdx(log_start, Skipped + Len(out))
           /\ FirstIdx \in Slots
           /\ FirstIdx = log_end <=> Skipped + Len(out) = log_size
<1>1. log_size \in 0..N-1 /\ max \in Nat /\ Len(out) \in Nat /\ log_start \in Slots
  BY EndIs DEF CycleInv, TypeOK
<1>2. Skipped \in 0..log_size /\ Skipped + Len(out) \in 0..N-1
  BY <1>1 DEF Skipped, CycleInv
<1>3. FirstIdx = IncIdx(log_start, Skipped + Len(out))
  <2>1. CASE out = <<>>
    <3>1. log_next = log_start /\ Len(out) = 0
      BY <2>1 DEF CycleInv
    <3>2. IncIdx(log_start, 0) = log_start
      BY <1>1, IncIdxIs DEF Slots
    <3> QED
      BY <1>1, <3>1, <3>2 DEF FirstIdx, Skipped
  <2>2. CASE out # <<>>
    <3>1. Len(out) > 0
      BY <2>2 DEF TypeOK
    <3>2. IncIdx(log_start, Skipped + Len(out)) # log_start
      <4> DEFINE k == Skipped + Len(out)
      <4>1. k \in 1..N-1 /\ k \in 0..N /\ log_start \in 0..N-1
        BY <1>1, <1>2, <3>1 DEF Slots
      <4>2. IncIdx(log_start, k) = IF log_start + k < N THEN log_start + k
                                   ELSE log_start + k - N
        BY <1>1, <4>1, IncIdxIs
      <4> HIDE DEF k
      <4>3. IncIdx(log_start, k) # log_start
        BY <4>1, <4>2
      <4> QED
        BY <4>3 DEF k
    <3> QED
      BY <2>2, <3>2 DEF FirstIdx, CycleInv
  <2> QED
    BY <2>1, <2>2
<1> QED
  BY <1>1, <1>2, <1>3, EndIs, IncIdxIs

\* How far the ring moves when an entry is added: by one if it was full.
Moved == IF log_size = N - 1 THEN 1 ELSE 0

\* Where the entries sit after log_add() moved the indices.
LEMMA AddIndex ==
    ASSUME TypeOK, Advance
    PROVE  /\ Moved \in {0, 1}
           /\ log_size' = log_size + 1 - Moved
           /\ log_size' \in 1..N-1
           /\ \A j \in 1..log_size' :
                 /\ j - 1 + Moved \in 0..N-1
                 /\ IncIdx(log_start', j - 1) = IncIdx(log_start, j - 1 + Moved)
<1> DEFINE f == Moved
<1>1. /\ log_size \in 0..N-1 /\ log_end \in Slots /\ log_start \in Slots
      /\ log_end \in 0..N-1 /\ log_start \in 0..N-1
  BY EndIs DEF TypeOK, Slots
<1>2. f \in {0, 1} /\ f \in 0..N /\ f = IF log_size = N - 1 THEN 1 ELSE 0
  BY DEF Moved
<1>3. \A i \in Slots : IncIdx(i, 1) = IF i + 1 < N THEN i + 1 ELSE 0
  <2> TAKE i \in Slots
  <2>1. 1 \in 0..N /\ i \in 0..N-1
    BY DEF Slots
  <2>2. IncIdx(i, 1) = IF i + 1 < N THEN i + 1 ELSE i + 1 - N
    BY <2>1, IncIdxIs
  <2> QED
    BY <2>1, <2>2
<1>4. log_start' = IncIdx(log_start, f) /\ log_size' = log_size + 1 - f
  <2>1. IncIdx(log_start, 0) = log_start
    BY <1>1, IncIdxIs DEF Slots
  <2>2. /\ log_end' = IF log_end + 1 < N THEN log_end + 1 ELSE 0
        /\ IncIdx(log_start, 1) = IF log_start + 1 < N THEN log_start + 1 ELSE 0
    BY <1>1, <1>3 DEF Advance
  <2> QED
    BY <1>1, <1>2, <2>1, <2>2 DEF Advance, log_size
<1>5. log_start' = (IF log_start + f < N THEN log_start + f ELSE log_start + f - N)
      /\ log_start' \in Slots
  BY <1>1, <1>2, <1>4, IncIdxIs
<1> HIDE DEF f
<1>6. ASSUME NEW j \in 1..log_size'
      PROVE  /\ j - 1 + f \in 0..N-1
             /\ IncIdx(log_start', j - 1) = IncIdx(log_start, j - 1 + f)
  <2>1. j - 1 \in 0..N /\ j - 1 + f \in 0..N-1 /\ j - 1 + f \in 0..N
    BY <1>1, <1>2, <1>4
  <2>2. IncIdx(log_start', j - 1) = IF log_start' + (j - 1) < N THEN log_start' + (j - 1)
                                    ELSE log_start' + (j - 1) - N
    BY <1>5, <2>1, IncIdxIs
  <2>3. IncIdx(log_start, j - 1 + f) = IF log_start + (j - 1 + f) < N
                                       THEN log_start + (j - 1 + f)
                                       ELSE log_start + (j - 1 + f) - N
    BY <1>1, <2>1, IncIdxIs
  <2> QED
    BY <1>1, <1>2, <1>5, <2>1, <2>2, <2>3
<1>7. log_size' \in 1..N-1
  BY <1>1, <1>2, <1>4
<1> QED
  BY <1>2, <1>4, <1>6, <1>7 DEF f

\* What log_add() leaves of the ring: the old entries, without the oldest if
\* there were N - 1, and the new one behind them.
LEMMA AddIs ==
    ASSUME TypeOK, NEW m \in Msgs, msg' = [msg EXCEPT ![log_end] = m], Advance
    PROVE  /\ Content'[log_size'] = m
           /\ \A j \in 1..log_size' - 1 :
                 j + Moved \in 1..log_size /\ Content'[j] = Content[j + Moved]
<1>1. /\ log_size \in 0..N-1 /\ log_start \in Slots /\ Moved \in {0, 1}
      /\ log_size' = log_size + 1 - Moved /\ log_size' \in 1..N-1
  BY EndIs, AddIndex DEF TypeOK
<1>2. \A j \in 1..log_size' : Content'[j] = IF j - 1 + Moved = log_size THEN m
                                              ELSE msg[IncIdx(log_start, j - 1 + Moved)]
  <2> TAKE j \in 1..log_size'
  <2>1. j - 1 + Moved \in 0..N-1 /\ j - 1 + Moved \in 0..N
    BY <1>1, AddIndex
  <2>2. IncIdx(log_start, j - 1 + Moved) = log_end <=> j - 1 + Moved = log_size
    BY <2>1, EndIs
  <2>3. IncIdx(log_start, j - 1 + Moved) \in Slots
    BY <1>1, <2>1, IncIdxIs
  <2>4. Content'[j] = msg'[IncIdx(log_start, j - 1 + Moved)]
    BY AddIndex DEF Content
  <2> QED
    BY <2>2, <2>3, <2>4 DEF TypeOK
<1>3. ASSUME NEW j \in 1..log_size' - 1
      PROVE  j + Moved \in 1..log_size /\ Content'[j] = Content[j + Moved]
  <2>1. /\ j \in 1..log_size' /\ j - 1 + Moved # log_size /\ j + Moved \in 1..log_size
        /\ (j + Moved) - 1 = j - 1 + Moved
    BY <1>1
  <2>2. Content'[j] = msg[IncIdx(log_start, j - 1 + Moved)]
    BY <1>2, <2>1
  <2> QED
    BY <2>1, <2>2, ContentIs
<1>4. Content'[log_size'] = m
  <2>1. log_size' \in 1..log_size' /\ log_size' - 1 + Moved = log_size
    BY <1>1
  <2> QED
    BY <1>2, <2>1
<1> QED
  BY <1>3, <1>4

-----------------------------------------------------------------------------
LEMMA Invariant == Spec => []IInv
<1>1. Init => IInv
  <2> SUFFICES ASSUME Init PROVE IInv
    OBVIOUS
  <2>1. log_size = 0
    BY DEF Init, log_size
  <2>2. 0 \in Slots
    BY DEF Slots
  <2>3. TypeOK
    <3>1. <<>> \in Seq(Msgs)
      OBVIOUS
    <3>2. msg \in [Slots -> Msgs \cup {NoMsg}] /\ room \in [Slots -> Nat] /\ len \in [Slots -> Nat]
      BY DEF Init
    <3> QED
      BY <2>2, <3>1, <3>2 DEF Init, TypeOK
  <2>4. BufferInv /\ CycleInv
    BY DEF Init, BufferInv, CycleInv
  <2> QED
    BY <2>1, <2>3, <2>4 DEF IInv, TextFits
<1>2. IInv /\ [Next]_vars => IInv'
  <2> SUFFICES ASSUME IInv, [Next]_vars PROVE IInv'
    OBVIOUS
  <2> USE DEF IInv
  <2>1. ASSUME NEW m \in Msgs, LogAdd(m) PROVE IInv'
    <3>1. log_end \in Slots /\ log_start \in Slots /\ 1 \in 0..N
      BY DEF TypeOK
    <3>2. TypeOK'
      <4>1. /\ IncIdx(log_end, 1) \in Slots /\ IncIdx(log_start, 1) \in Slots
            /\ LenOf[m] \in Nat
        BY <3>1, IncIdxIs
      <4>2. log_end' \in Slots /\ log_start' \in Slots /\ log_next' \in Slots
        BY <2>1, <4>1 DEF LogAdd, Advance, TypeOK
      <4>3. room' \in [Slots -> Nat] /\ len' \in [Slots -> Nat]
        <5>1. LenOf[m] + 1 \in Nat
          BY <4>1
        <5> QED
          BY <2>1, <3>1, <4>1, <5>1 DEF LogAdd, Allocate, TypeOK
      <4> QED
        BY <2>1, <4>2, <4>3 DEF LogAdd, TypeOK, drawing
    <3>3. BufferInv'
      BY <2>1 DEF LogAdd, Allocate, BufferInv, TypeOK
    <3>4. LenOf[m] < room'[log_end] /\ \A i \in Slots \ {log_end} : room'[i] = room[i]
      BY <2>1, <3>1 DEF LogAdd, Allocate, Fits, BufferInv, TypeOK
    <3>5. TextFits'
      <4> SUFFICES ASSUME NEW j \in 1..log_size',
                          NEW i, i = IncIdx(log_start', j - 1)
                   PROVE  msg'[i] # NoMsg /\ LenOf[msg'[i]] < room'[i]
        BY DEF TextFits, IncIdx
      <4>1. CASE i = log_end
        BY <2>1, <3>1, <3>4, <4>1 DEF LogAdd, TypeOK
      <4>2. CASE i # log_end
        <5>1. /\ j - 1 + Moved \in 0..N-1 /\ j - 1 + Moved \in 0..N
              /\ log_size \in 0..N-1 /\ log_size' = log_size + 1 - Moved
              /\ Moved \in {0, 1} /\ i = IncIdx(log_start, j - 1 + Moved)
          BY <2>1, AddIndex, EndIs DEF LogAdd
        <5>2. j - 1 + Moved # log_size
          BY <4>2, <5>1, EndIs
        <5>3. j + Moved \in 1..log_size /\ (j + Moved) - 1 = j - 1 + Moved
          BY <5>1, <5>2
        <5>4. msg[i] # NoMsg /\ LenOf[msg[i]] < room[i] /\ i \in Slots
          BY <3>1, <5>1, <5>3, IncIdxIs DEF TextFits
        <5> QED
          BY <2>1, <3>4, <4>2, <5>4 DEF LogAdd, TypeOK
      <4> QED
        BY <4>1, <4>2
    <3>6. CycleInv'
      BY <2>1 DEF LogAdd, Advance, CycleInv, drawing
    <3> QED
      BY <3>2, <3>3, <3>5, <3>6
  <2>2. ASSUME NEW m \in Msgs, LogAddFails(m) PROVE IInv'
    <3>1. TypeOK' /\ BufferInv' /\ UNCHANGED log_size
      BY <2>2 DEF LogAddFails, TypeOK, BufferInv, indices, drawing, log_size
    <3>2. TextFits'
      <4> SUFFICES ASSUME NEW j \in 1..log_size, NEW i, i = IncIdx(log_start, j - 1)
                   PROVE  msg'[i] # NoMsg /\ LenOf[msg'[i]] < room'[i]
        BY <2>2, <3>1 DEF TextFits, LogAddFails, indices
      <4>1. i \in Slots
        BY ContentIs
      <4>2. i # log_end
        <5>1. j - 1 \in 0..N-1 /\ j - 1 # log_size
          BY EndIs
        <5> QED
          BY <5>1, EndIs
      <4> QED
        BY <2>2, <4>1, <4>2 DEF LogAddFails, TextFits, TypeOK
    <3>3. CycleInv'
      BY <2>2 DEF LogAddFails, CycleInv, indices, drawing
    <3> QED
      BY <3>1, <3>2, <3>3
  <2>3. CASE render_mark
    BY <2>3 DEF render_mark, entries, indices, drawing, TypeOK, BufferInv, TextFits, CycleInv,
                log_size
  <2>4. CASE render
    <3>1. log_size' = log_size /\ log_size \in 0..N-1 /\ max' \in Nat /\ max' \in Lines
      BY <2>4, EndIs DEF render, indices, log_size
    <3>2. Skipped' \in 0..log_size
      <4>1. Skipped' = IF log_size > max' THEN log_size - max' ELSE 0
        BY <3>1 DEF Skipped
      <4>2. \A s \in 0..N-1, x \in Nat : (IF s > x THEN s - x ELSE 0) \in 0..s
        OBVIOUS
      <4> QED
        BY <3>1, <4>1, <4>2
    <3>3. pc' = "cycle" /\ out' = <<>> /\ log_next' = log_start'
      BY <2>4 DEF render, CycleInv, indices
    <3>4. CycleInv'
      <4>1. Skipped' + 0 <= log_size' /\ Len(out') = 0
        <5>1. \A s \in 0..N-1 : \A x \in 0..s : x + 0 <= s
          OBVIOUS
        <5> QED
          BY <3>1, <3>2, <3>3, <5>1
      <4> QED
        BY <3>1, <3>3, <4>1 DEF CycleInv
    <3> QED
      BY <2>4, <3>1, <3>4 DEF render, TypeOK, BufferInv, TextFits, entries, indices
  <2>5. CASE log_cycle
    <3> DEFINE k == Skipped + Len(out)
    <3>1. /\ Skipped \in 0..log_size /\ FirstIdx = IncIdx(log_start, k)
          /\ FirstIdx \in Slots /\ k # log_size
      BY <2>5, FirstIdxIs DEF log_cycle
    <3>2. k \in 0..log_size-1 /\ log_size \in 0..N-1 /\ Len(out) \in Nat
      <4>1. log_size \in 0..N-1 /\ Len(out) \in Nat /\ k <= log_size
        BY <2>5, EndIs DEF CycleInv, TypeOK, log_cycle
      <4> QED
        BY <3>1, <4>1
    <3>3. /\ Content[k + 1] = msg[FirstIdx]
          /\ msg[FirstIdx] \in Msgs
      <4>1. k + 1 \in 1..log_size /\ (k + 1) - 1 = k
        BY <3>2
      <4>2. msg[FirstIdx] # NoMsg
        BY <3>1, <4>1 DEF TextFits
      <4> QED
        BY <3>1, <4>1, <4>2, ContentIs DEF TypeOK
    <3>4. IncIdx(FirstIdx, 1) = IncIdx(log_start, k + 1) /\ IncIdx(FirstIdx, 1) \in Slots
      <4>1. /\ 1 \in 0..N /\ k \in 0..N /\ k + 1 \in 0..N
            /\ log_start \in Slots /\ log_start \in 0..N-1
        <5> HIDE DEF k
        <5> QED
          BY <3>2 DEF TypeOK, Slots
      <4>2. /\ IncIdx(FirstIdx, 1) = IF FirstIdx + 1 < N THEN FirstIdx + 1 ELSE FirstIdx + 1 - N
            /\ IncIdx(FirstIdx, 1) \in Slots
        BY <3>1, <4>1, IncIdxIs
      <4>3. IncIdx(log_start, k) = IF log_start + k < N THEN log_start + k ELSE log_start + k - N
        BY <4>1, IncIdxIs
      <4>4. IncIdx(log_start, k + 1) = IF log_start + (k + 1) < N THEN log_start + (k + 1)
                                       ELSE log_start + (k + 1) - N
        BY <4>1, IncIdxIs
      <4> HIDE DEF k
      <4> QED
        BY <3>1, <4>1, <4>2, <4>3, <4>4
    <3>5. /\ out' = Append(out, msg[FirstIdx]) /\ out' \in Seq(Msgs)
          /\ Len(out') = Len(out) + 1 /\ out' # <<>>
      BY <2>5, <3>3 DEF log_cycle, TypeOK
    <3>6. UNCHANGED <<log_size, Content, Skipped, max, pc, log_start>>
      BY <2>5 DEF log_cycle, entries, Content, Skipped, log_size
    <3>7. TypeOK'
      BY <2>5, <3>4, <3>5 DEF log_cycle, TypeOK, entries
    <3>8. CycleInv'
      <4>1. \A j \in 1..Len(out') : out'[j] = Content[Skipped + j]
        <5>1. \A j \in 1..Len(out) : out'[j] = Content[Skipped + j]
          BY <2>5, <3>3, <3>5 DEF CycleInv, TypeOK, log_cycle
        <5>2. out'[Len(out) + 1] = Content[Skipped + (Len(out) + 1)]
          <6>1. Skipped + (Len(out) + 1) = k + 1
            BY <3>1, <3>2
          <6> QED
            BY <3>3, <3>5, <6>1 DEF TypeOK
        <5> QED
          BY <3>2, <3>5, <5>1, <5>2
      <4>2. log_next' = IncIdx(log_start, Skipped + Len(out'))
        <5>1. Skipped + Len(out') = k + 1
          BY <3>1, <3>2, <3>5
        <5> QED
          BY <2>5, <3>4, <5>1 DEF log_cycle
      <4> QED
        <5>1. Skipped + Len(out') <= log_size
          BY <3>1, <3>2, <3>5
        <5>2. /\ Skipped' = Skipped /\ log_size' = log_size /\ Content' = Content
              /\ max' \in Lines /\ pc' = "cycle" /\ log_start' = log_start
          BY <2>5, <3>6 DEF log_cycle, CycleInv
        <5> QED
          BY <3>5, <4>1, <4>2, <5>1, <5>2 DEF CycleInv, IncIdx
    <3>9. BufferInv' /\ TextFits'
      BY <2>5, <3>6 DEF log_cycle, BufferInv, TextFits, entries
    <3> QED
      BY <3>7, <3>8, <3>9
  <2>6. CASE render_end
    BY <2>6 DEF render_end, TypeOK, BufferInv, TextFits, CycleInv, entries, log_size
  <2>7. CASE UNCHANGED vars
    <3>1. UNCHANGED <<log_size, Content, Skipped>>
      BY <2>7 DEF vars, entries, indices, drawing, log_size, Content, Skipped
    <3> QED
      BY <2>7, <3>1 DEF vars, entries, indices, drawing, TypeOK, BufferInv, TextFits, CycleInv
  <2> QED
    BY <2>1, <2>2, <2>3, <2>4, <2>5, <2>6, <2>7 DEF Next
<1> QED
  BY <1>1, <1>2, PTL DEF Spec

\* No index leaves the array, and only messages are drawn.
THEOREM TypeCorrect == Spec => []TypeOK
BY Invariant, PTL DEF IInv

\* Every entry that can be drawn has a text inside its buffer, for any lengths
\* of messages and any failures of malloc().
THEOREM TextAlwaysFits == Spec => []TextFits
BY Invariant, PTL DEF IInv

-----------------------------------------------------------------------------
(* LogRing implements BoundedLog.                                          *)

\* log_add() of a message that finds memory is Add of the abstract log.
LEMMA AddRefines ==
    ASSUME IInv, NEW m \in Msgs, LogAdd(m)
    PROVE  Content' = Log!Newest(Append(Content, m), N - 1)
<1> DEFINE a == Append(Content, m)
<1>1. /\ Content \in Seq(Msgs \cup {NoMsg}) /\ Len(Content) = log_size
      /\ log_size \in 0..N-1 /\ m \in Msgs \cup {NoMsg} /\ TypeOK
  BY ContentIs, EndIs DEF IInv
<1>2. /\ a \in Seq(Msgs \cup {NoMsg}) /\ Len(a) = log_size + 1
      /\ a[log_size + 1] = m
      /\ \A j \in 1..log_size : a[j] = Content[j]
  BY <1>1
<1>3. /\ Moved \in {0, 1} /\ log_size' = log_size + 1 - Moved /\ log_size' \in 1..N-1
      /\ Content'[log_size'] = m
      /\ \A j \in 1..log_size' - 1 : j + Moved \in 1..log_size /\ Content'[j] = Content[j + Moved]
  BY <1>1, AddIndex, AddIs DEF LogAdd
<1>4. Moved = IF log_size + 1 > N - 1 THEN (log_size + 1) - (N - 1) ELSE 0
  BY <1>1 DEF Moved
<1> HIDE DEF a
<1>5. Log!Newest(a, N - 1) = [j \in 1..Len(a)-Moved |-> a[Moved + j]]
  <2>1. N - 1 \in Nat /\ Moved = IF Len(a) > N - 1 THEN Len(a) - (N - 1) ELSE 0
    BY <1>2, <1>4
  <2> QED
    BY <1>2, <2>1 DEF Log!Newest
<1>6. \A j \in 1..log_size' : Content'[j] = a[Moved + j]
  <2> TAKE j \in 1..log_size'
  <2>1. CASE j = log_size'
    <3>1. Moved + j = log_size + 1
      BY <1>1, <1>3, <2>1
    <3> QED
      BY <1>2, <1>3, <2>1, <3>1
  <2>2. CASE j # log_size'
    <3>1. j \in 1..log_size' - 1 /\ j + Moved = Moved + j
      BY <1>1, <1>3, <2>2
    <3> QED
      BY <1>2, <1>3, <3>1
  <2> QED
    BY <2>1, <2>2
<1>7. Content' = [j \in 1..log_size' |-> Content'[j]]
  BY DEF Content
<1>8. Len(a) - Moved = log_size'
  BY <1>1, <1>2, <1>3
<1>9. Content' = Log!Newest(a, N - 1)
  BY <1>5, <1>6, <1>7, <1>8
<1> QED
  BY <1>9 DEF a

\* What a complete redraw has drawn.
LEMMA ShowRefines ==
    ASSUME IInv, render_end
    PROVE  screen' = Log!Newest(Content, max)
<1>1. /\ Content \in Seq(Msgs \cup {NoMsg}) /\ Len(Content) = log_size
      /\ log_size \in Nat /\ max \in Nat /\ TypeOK /\ out \in Seq(Msgs)
  BY ContentIs, EndIs DEF IInv, render_end, CycleInv, TypeOK
<1>2. Skipped + Len(out) = log_size /\ Skipped \in 0..log_size
  BY FirstIdxIs DEF IInv, render_end
<1>3. Log!Newest(Content, max) = [j \in 1..log_size-Skipped |-> Content[Skipped + j]]
  BY <1>1 DEF Log!Newest, Skipped
<1>4. Len(out) = log_size - Skipped /\ out = [j \in 1..Len(out) |-> out[j]]
  BY <1>1, <1>2
<1>5. \A j \in 1..Len(out) : out[j] = Content[Skipped + j]
  BY DEF IInv, CycleInv, render_end
<1> QED
  BY <1>1, <1>3, <1>4, <1>5 DEF render_end

\* Every other step leaves the entries in the ring alone.
LEMMA ContentStays ==
    ASSUME IInv, [Next]_vars, \A m \in Msgs : ~LogAdd(m)
    PROVE  Content' = Content
<1>1. ASSUME NEW m \in Msgs, LogAddFails(m) PROVE Content' = Content
  <2>1. log_size' = log_size /\ log_size \in 0..N-1 /\ TypeOK
    BY <1>1, EndIs DEF IInv, LogAddFails, indices, log_size
  <2>2. ASSUME NEW j \in 1..log_size
        PROVE  msg'[IncIdx(log_start, j - 1)] = msg[IncIdx(log_start, j - 1)]
    <3>1. j - 1 \in 0..N-1 /\ j - 1 # log_size /\ IncIdx(log_start, j - 1) \in Slots
      BY <2>1, ContentIs
    <3>2. IncIdx(log_start, j - 1) # log_end
      BY <2>1, <3>1, EndIs
    <3> QED
      BY <1>1, <2>1, <3>1, <3>2 DEF LogAddFails, TypeOK
  <2> QED
    BY <1>1, <2>1, <2>2 DEF Content, LogAddFails, indices, IncIdx
<1>2. CASE UNCHANGED <<msg, log_start, log_end>>
  BY <1>2 DEF Content, log_size, IncIdx
<1> QED
  BY <1>1, <1>2 DEF Next, render_mark, render, log_cycle, render_end, vars, entries, indices

\* The ring is the bounded list of the newest N - 1 messages, and a redraw
\* shows the newest of them, however often the ring has wrapped.
THEOREM RingRefinesLog == Spec => KeepsNewest
<1>1. Init => Log!Init
  BY DEF Init, Log!Init, Content, log_size
<1>2. IInv /\ [Next]_vars => [Log!Add \/ Log!Show]_<<Content, screen>>
  <2> SUFFICES ASSUME IInv, [Next]_vars
               PROVE  Log!Add \/ Log!Show \/ UNCHANGED <<Content, screen>>
    OBVIOUS
  <2>1. ASSUME NEW m \in Msgs, LogAdd(m) PROVE Log!Add
    BY <2>1, AddRefines DEF Log!Add, LogAdd, drawing
  <2>2. CASE render_end
    <3>1. max \in Lines
      BY <2>2 DEF IInv, CycleInv, render_end
    <3>2. \A m \in Msgs : ~LogAdd(m)
      BY <2>2 DEF render_end, LogAdd
    <3> QED
      BY <2>2, <3>1, <3>2, ShowRefines, ContentStays DEF Log!Show
  <2>3. CASE (\A m \in Msgs : ~LogAdd(m)) /\ ~render_end
    <3>1. UNCHANGED screen
      BY <2>3 DEF Next, LogAddFails, render_mark, render, log_cycle, vars, drawing
    <3> QED
      BY <2>3, <3>1, ContentStays
  <2> QED
    BY <2>1, <2>2, <2>3
<1> QED
  BY <1>1, <1>2, Invariant, PTL DEF Spec, KeepsNewest, Log!Spec

\* With no redraw due, the screen shows the newest entries.
THEOREM ScreenCurrent == Spec => []ScreenIsCurrent
<1>1. Init => ScreenIsCurrent
  <2> SUFFICES ASSUME Init PROVE screen = Log!Newest(Content, max)
    BY DEF ScreenIsCurrent
  <2>1. Content = <<>> /\ max = 0 /\ screen = <<>>
    BY DEF Init, Content, log_size
  <2> QED
    BY <2>1 DEF Log!Newest
<1>2. IInv /\ ScreenIsCurrent /\ [Next]_vars => ScreenIsCurrent'
  <2> SUFFICES ASSUME IInv, ScreenIsCurrent, [Next]_vars, ~render_requested'
               PROVE  screen' = Log!Newest(Content', max')
    BY DEF ScreenIsCurrent, Log!Newest
  <2>1. CASE render_end
    <3>1. \A m \in Msgs : ~LogAdd(m)
      BY <2>1 DEF render_end, LogAdd
    <3> QED
      BY <2>1, <3>1, ShowRefines, ContentStays DEF render_end
  <2>2. CASE ~render_end
    <3>1. (\A m \in Msgs : ~LogAdd(m)) /\ UNCHANGED <<render_requested, screen, max>>
      BY <2>2 DEF Next, LogAdd, LogAddFails, render_mark, render, log_cycle, vars, drawing
    <3> QED
      BY <3>1, ContentStays DEF ScreenIsCurrent
  <2> QED
    BY <2>1, <2>2
<1> QED
  BY <1>1, <1>2, Invariant, PTL DEF Spec
=============================================================================
