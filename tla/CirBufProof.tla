---------------------------- MODULE CirBufProof ----------------------------
(***************************************************************************)
(* Proofs about the ring of module CirBuf, for every capacity and every    *)
(* length of stream: its invariant CirBufInv is inductive, so the ring     *)
(* holds the window it claims to hold and loses no wake-up, and every step *)
(* of the ring is a step of the sliding window of module StreamWindow.     *)
(***************************************************************************)
EXTENDS CirBuf, TLAPS

-----------------------------------------------------------------------------
(* Arithmetic of slots.  Everything the proofs need of % is in these lemmas. *)

(* Advancing by at most a whole turn wraps at most once. *)
LEMMA AdvanceWraps ==
    ASSUME NEW s \in Slots, NEW k \in 0..CirBufSize
    PROVE  /\ Advance(s, k) = IF s + k < CirBufSize THEN s + k ELSE s + k - CirBufSize
           /\ Advance(s, k) \in Slots
<1> DEFINE a == s + k
<1>1. a \in Nat /\ a < 2 * CirBufSize
  BY CirBufAssumption DEF Slots
<1>2. a % CirBufSize = IF a < CirBufSize THEN a ELSE a - CirBufSize
  <2> HIDE DEF a
  <2> QED BY <1>1, CirBufAssumption, Z3
<1> QED BY <1>1, <1>2, CirBufAssumption DEF Advance, Slots

(* The distance from slot w forward to slot s, as Written computes it. *)
LEMMA DistanceWraps ==
    ASSUME NEW w \in Slots, NEW s \in Slots
    PROVE  Advance(CirBufSize - w, s) = IF s < w THEN s + CirBufSize - w ELSE s - w
<1> DEFINE a == CirBufSize - w + s
<1>1. a \in Nat /\ a < 2 * CirBufSize
  BY CirBufAssumption DEF Slots
<1>2. a % CirBufSize = IF a < CirBufSize THEN a ELSE a - CirBufSize
  <2> HIDE DEF a
  <2> QED BY <1>1, CirBufAssumption, Z3
<1> QED BY <1>1, <1>2, CirBufAssumption DEF Advance, Slots

(* Two advances, one after the other, are one. *)
LEMMA AdvanceTwice ==
    ASSUME NEW s \in Slots, NEW j \in 0..CirBufSize, NEW k \in 0..CirBufSize,
           j + k <= CirBufSize
    PROVE  Advance(Advance(s, j), k) = Advance(s, j + k)
<1>1. Advance(s, j) \in Slots
  BY AdvanceWraps
<1>2. j + k \in 0..CirBufSize
  BY CirBufAssumption
<1>3. Advance(s, j) = IF s + j < CirBufSize THEN s + j ELSE s + j - CirBufSize
  BY AdvanceWraps
<1>4. Advance(Advance(s, j), k) =
        IF Advance(s, j) + k < CirBufSize THEN Advance(s, j) + k
                                          ELSE Advance(s, j) + k - CirBufSize
  BY <1>1, AdvanceWraps
<1>5. Advance(s, j + k) = IF s + (j + k) < CirBufSize THEN s + (j + k)
                                                     ELSE s + (j + k) - CirBufSize
  BY <1>2, AdvanceWraps
<1> HIDE DEF Advance
<1> QED BY <1>1, <1>3, <1>4, <1>5, CirBufAssumption DEF Slots

-----------------------------------------------------------------------------

(* What one write offers and takes is never longer than the buffer, and the
   bytes it overwrites are never more than it writes. *)
LEMMA AcceptedBounds ==
    ASSUME TypeOK, AsyncBounded, ~Full, NEW len \in 1..MaxChunk
    PROVE  /\ Accepted(len) \in 1..len
           /\ Accepted(len) \in 1..CirBufSize
           /\ Overwritten(Accepted(len)) \in 0..Accepted(len)
           /\ count + Accepted(len) - Overwritten(Accepted(len)) \in 0..CirBufSize
           /\ count + Accepted(len) - Overwritten(Accepted(len)) <= windowSize
           /\ syncMode => Overwritten(Accepted(len)) = 0
<1>1. len \in 1..CirBufSize
  BY CirBufAssumption
<1> QED
  BY <1>1, CirBufAssumption
  DEF TypeOK, AsyncBounded, Full, Accepted, Overwritten, MinOf

LEMMA InitInv == MakeCirBuf => CirBufInv
<1> SUFFICES ASSUME MakeCirBuf PROVE CirBufInv
  OBVIOUS
<1>1. TypeOK
  <2>1. 0 \in Slots /\ MinOf(CirBufSize, totalSize) = 0
    BY CirBufAssumption DEF MakeCirBuf, Slots, MinOf
  <2>2. [s \in Slots |-> NoByte] \in [Slots -> Int]
    BY DEF NoByte
  <2>3. count \in 0..MinOf(CirBufSize, totalSize)
    BY <2>1 DEF MakeCirBuf
  <2>4. windowSize \in 0..CirBufSize
    BY CirBufAssumption DEF MakeCirBuf
  <2> QED BY <2>1, <2>2, <2>3, <2>4 DEF MakeCirBuf, TypeOK
<1>2. PositionsAgree
  <2>1. 0 \in Slots /\ 0 \in 0..CirBufSize
    BY CirBufAssumption DEF Slots
  <2> QED BY <2>1, AdvanceWraps, CirBufAssumption DEF MakeCirBuf, PositionsAgree, Slots
<1>3. RingHoldsWindow
  BY DEF MakeCirBuf, RingHoldsWindow
<1> QED
  BY <1>1, <1>2, <1>3 DEF CirBufInv, MakeCirBuf, AsyncBounded, NoLostWakeup, NoPanic

(* Dropping the d oldest bytes, which SetEffectiveWindow and Consume do, keeps
   the rest of the window where it was. *)
LEMMA DropOldest ==
    ASSUME TypeOK, PositionsAgree, RingHoldsWindow, NEW d \in 0..count,
           buf' = buf, writePos' = writePos, totalSize' = totalSize,
           readPos' = Advance(readPos, d), count' = count - d
    PROVE  /\ readPos' \in Slots
           /\ count' \in 0..MinOf(CirBufSize, totalSize')
           /\ PositionsAgree'
           /\ RingHoldsWindow'
<1>1. count \in 0..CirBufSize /\ count <= totalSize
  BY CirBufAssumption DEF TypeOK, MinOf
<1>2. readPos \in Slots /\ d \in 0..CirBufSize /\ count - d \in 0..CirBufSize
  BY <1>1, CirBufAssumption DEF TypeOK
<1>3. readPos' \in Slots
  BY <1>2, AdvanceWraps
<1>4. count' \in 0..MinOf(CirBufSize, totalSize')
  BY <1>1, CirBufAssumption DEF TypeOK, MinOf
<1>5. PositionsAgree'
  <2>1. Advance(Advance(readPos, d), count - d) = Advance(readPos, d + (count - d))
    BY <1>1, <1>2, AdvanceTwice
  <2>2. d + (count - d) = count
    BY <1>1
  <2> QED BY <2>1, <2>2 DEF PositionsAgree, Advance
<1>6. RingHoldsWindow'
  <2> SUFFICES ASSUME NEW i \in 0..(count - d - 1)
               PROVE  buf[Advance(Advance(readPos, d), i)] = totalSize - (count - d) + i
    BY DEF RingHoldsWindow, HeadPos, Advance
  <2>1. i \in 0..CirBufSize /\ d + i <= CirBufSize /\ d + i \in 0..(count - 1)
    BY <1>1, CirBufAssumption
  <2>2. Advance(Advance(readPos, d), i) = Advance(readPos, d + i)
    BY <1>2, <2>1, AdvanceTwice
  <2>3. buf[Advance(readPos, d + i)] = totalSize - count + (d + i)
    BY <2>1 DEF RingHoldsWindow, HeadPos
  <2> QED BY <1>1, <2>1, <2>2, <2>3 DEF TypeOK
<1> QED BY <1>3, <1>4, <1>5, <1>6

LEMMA ResizeKeepsInv ==
    ASSUME CirBufInv, NEW sync \in BOOLEAN, NEW size \in 0..CirBufSize + 1,
           SetEffectiveWindow(sync, size)
    PROVE  CirBufInv'
<1> DEFINE window == MinOf(size, CirBufSize)
<1> USE DEF CirBufInv
<1>1. window \in 0..CirBufSize
  BY CirBufAssumption DEF MinOf
<1>2. Excess(sync, window) \in 0..count
  BY <1>1 DEF Excess, TypeOK
<1>3. readPos' \in Slots /\ count' \in 0..MinOf(CirBufSize, totalSize')
      /\ PositionsAgree' /\ RingHoldsWindow'
  BY <1>2, DropOldest DEF SetEffectiveWindow
<1>4. TypeOK'
  BY <1>1, <1>3 DEF SetEffectiveWindow, TypeOK, TryWakeWriter
<1>5. AsyncBounded'
  BY <1>1 DEF SetEffectiveWindow, AsyncBounded, Excess, TypeOK, MinOf
<1>6. NoLostWakeup'
  <2>1. CASE WakesWriter(sync, window)
    BY <2>1 DEF SetEffectiveWindow, NoLostWakeup, TryWakeWriter
  <2>2. CASE ~WakesWriter(sync, window)
    <3>1. waiterChan' = waiterChan /\ writer' = writer
      BY <2>2 DEF SetEffectiveWindow
    <3>2. waiterChan => syncMode /\ sync /\ window <= windowSize
      BY <1>1, <2>2 DEF WakesWriter, NoLostWakeup, Full, TypeOK
    <3>3. sync => Excess(sync, window) = 0
      BY DEF Excess
    <3>4. windowSize' = window /\ syncMode' = sync /\ count' = count - Excess(sync, window)
      BY DEF SetEffectiveWindow
    <3>5. waiterChan => count' >= windowSize'
      <4>1. count \in Nat /\ windowSize \in Nat /\ window \in Nat
        BY <1>1, CirBufAssumption DEF TypeOK, MinOf
      <4>2. waiterChan => count >= windowSize
        BY DEF NoLostWakeup, Full
      <4> SUFFICES ASSUME waiterChan PROVE count' >= windowSize'
        OBVIOUS
      <4>3. sync /\ window <= windowSize /\ count >= windowSize
        BY <3>2, <4>2
      <4>4. Excess(sync, window) = 0
        BY <3>3, <4>3
      <4>5. count' = count
        BY <3>4, <4>1, <4>4
      <4>6. windowSize' = window
        BY <3>4
      <4> HIDE DEF window
      <4> QED BY <4>1, <4>3, <4>5, <4>6
    <3> QED BY <3>1, <3>2, <3>4, <3>5 DEF NoLostWakeup, Full
  <2> QED BY <2>1, <2>2
<1> QED BY <1>3, <1>4, <1>5, <1>6 DEF SetEffectiveWindow, NoPanic

LEMMA ConsumeKeepsInv ==
    ASSUME CirBufInv, NEW numBytes \in 1..count, Consume(numBytes)
    PROVE  CirBufInv'
<1> USE DEF CirBufInv
<1>1. numBytes \in 0..count
  BY DEF TypeOK
<1>2. readPos' \in Slots /\ count' \in 0..MinOf(CirBufSize, totalSize')
      /\ PositionsAgree' /\ RingHoldsWindow'
  BY <1>1, DropOldest DEF Consume
<1>3. TypeOK'
  BY <1>2 DEF Consume, TypeOK, TryWakeWriter
<1>4. AsyncBounded' /\ NoLostWakeup' /\ NoPanic'
  BY <1>1, CirBufAssumption
  DEF Consume, TypeOK, AsyncBounded, NoLostWakeup, NoPanic, TryWakeWriter, MinOf
<1> QED BY <1>2, <1>3, <1>4

(* The write loop: n new bytes go behind the window, and as many of the oldest
   ones as the window has no room for are overwritten. *)
LEMMA WriteKeepsInv ==
    ASSUME CirBufInv, NEW len \in 1..MaxChunk, WriteAccepts(len)
    PROVE  CirBufInv'
<1> DEFINE n == Accepted(len)
           d == Overwritten(n)
<1> USE DEF CirBufInv
<1>1. /\ n \in 1..CirBufSize /\ d \in 0..n
      /\ count + n - d \in 0..CirBufSize /\ count + n - d <= windowSize
      /\ syncMode => d = 0
  BY AcceptedBounds DEF WriteAccepts
<1>2. /\ buf' = Written(n) /\ writePos' = Advance(writePos, n)
      /\ readPos' = Advance(readPos, d) /\ count' = count + n - d
      /\ totalSize' = totalSize + n
      /\ UNCHANGED <<syncMode, windowSize, waiterChan, writer>>
  BY DEF WriteAccepts
<1> HIDE DEF n, d
<1>3. count \in 0..CirBufSize /\ count <= totalSize /\ totalSize \in Nat
  BY CirBufAssumption DEF TypeOK, MinOf
<1>4. readPos \in Slots /\ writePos \in Slots /\ CirBufSize \in Nat \ {0}
  BY CirBufAssumption DEF TypeOK
<1>5. d \in 0..CirBufSize
  BY <1>1, <1>4
<1>6. readPos' \in Slots /\ writePos' \in Slots
  BY <1>1, <1>2, <1>4, <1>5, AdvanceWraps
<1>7. Written(n) \in [Slots -> Int]
  <2> SUFFICES ASSUME NEW s \in Slots
               PROVE  (IF Advance(CirBufSize - writePos, s) < n
                       THEN totalSize + Advance(CirBufSize - writePos, s)
                       ELSE buf[s]) \in Int
    BY DEF Written
  <2>1. Advance(CirBufSize - writePos, s) \in Int
    BY <1>4, DistanceWraps DEF Slots
  <2> QED BY <1>3, <2>1 DEF TypeOK
<1>8. TypeOK'
  BY <1>1, <1>2, <1>3, <1>4, <1>6, <1>7 DEF TypeOK, MinOf
<1>9. PositionsAgree'
  <2>1. writePos = IF readPos + count < CirBufSize THEN readPos + count
                                                  ELSE readPos + count - CirBufSize
    BY <1>3, <1>4, AdvanceWraps DEF PositionsAgree
  <2>2. writePos' = IF writePos + n < CirBufSize THEN writePos + n
                                                ELSE writePos + n - CirBufSize
    BY <1>1, <1>2, <1>4, AdvanceWraps
  <2>3. readPos' = IF readPos + d < CirBufSize THEN readPos + d
                                              ELSE readPos + d - CirBufSize
    BY <1>2, <1>4, <1>5, AdvanceWraps
  <2>4. Advance(readPos', count') =
          IF readPos' + count' < CirBufSize THEN readPos' + count'
                                            ELSE readPos' + count' - CirBufSize
    BY <1>1, <1>2, <1>6, AdvanceWraps
  <2>5. writePos' = Advance(readPos', count')
    BY <1>1, <1>2, <1>3, <1>4, <1>5, <1>6, <2>1, <2>2, <2>3, <2>4 DEF Slots
  <2> QED BY <2>5 DEF PositionsAgree, Advance
<1>10. RingHoldsWindow'
  <2> SUFFICES ASSUME NEW i \in 0..(count' - 1)
               PROVE  buf'[Advance(readPos', i)] = totalSize' - count' + i
    BY DEF RingHoldsWindow, HeadPos, Advance
  <2> DEFINE s == Advance(readPos, d + i)
             k == Advance(CirBufSize - writePos, s)
  <2>1. i \in 0..CirBufSize /\ i < count + n - d
    BY <1>1, <1>2, <1>3, <1>4
  <2>2. readPos' = IF readPos + d < CirBufSize THEN readPos + d
                                              ELSE readPos + d - CirBufSize
    BY <1>2, <1>4, <1>5, AdvanceWraps
  <2>3. Advance(readPos', i) = IF readPos' + i < CirBufSize THEN readPos' + i
                                                           ELSE readPos' + i - CirBufSize
    BY <1>6, <2>1, AdvanceWraps
  <2>4. writePos = IF readPos + count < CirBufSize THEN readPos + count
                                                  ELSE readPos + count - CirBufSize
    BY <1>3, <1>4, AdvanceWraps DEF PositionsAgree
  <2> DEFINE t == Advance(readPos', i)
             j == Advance(CirBufSize - writePos, t)
  <2>5. t \in Slots
    BY <1>6, <2>1, AdvanceWraps
  <2>6. j = IF t < writePos THEN t + CirBufSize - writePos ELSE t - writePos
    BY <1>4, <2>5, DistanceWraps
  <2>7. buf'[t] = IF j < n THEN totalSize + j ELSE buf[t]
    BY <1>2, <2>5 DEF Written
  <2> HIDE DEF t, j
  <2>8. CASE d + i < count
    <3>1. d + i \in 0..(count - 1) /\ d + i \in 0..CirBufSize
      BY <1>1, <1>3, <1>4, <2>1, <2>8
    <3>2. Advance(readPos, d + i) = IF readPos + (d + i) < CirBufSize
                                    THEN readPos + (d + i)
                                    ELSE readPos + (d + i) - CirBufSize
      BY <1>4, <3>1, AdvanceWraps
    <3>3. t = Advance(readPos, d + i)
      BY <1>1, <1>3, <1>4, <2>1, <2>2, <2>3, <3>1, <3>2 DEF Slots, t
    <3>4. ~(j < n)
      BY <1>1, <1>3, <1>4, <2>1, <2>4, <2>6, <3>1, <3>2, <3>3 DEF Slots
    <3>5. buf[t] = totalSize - count + (d + i)
      BY <3>1, <3>3 DEF RingHoldsWindow, HeadPos
    <3> QED BY <1>1, <1>2, <1>3, <2>1, <2>7, <3>4, <3>5 DEF t
  <2>9. CASE d + i >= count
    <3>1. j = d + i - count
      BY <1>1, <1>3, <1>4, <2>1, <2>2, <2>3, <2>4, <2>6, <2>9 DEF Slots, t
    <3> QED BY <1>1, <1>2, <1>3, <2>1, <2>7, <2>9, <3>1 DEF t
  <2> QED BY <1>1, <1>3, <2>1, <2>8, <2>9
<1>11. AsyncBounded'
  BY <1>1, <1>2 DEF AsyncBounded
<1>12. NoLostWakeup' /\ NoPanic'
  <2>1. writer = "running" /\ ~waiterChan
    BY DEF WriteAccepts, NoLostWakeup
  <2> QED BY <1>2, <2>1 DEF NoLostWakeup, NoPanic, TypeOK
<1> QED BY <1>8, <1>9, <1>10, <1>11, <1>12

(* A step that touches neither the ring's positions nor its content. *)
LEMMA PositionsUntouched ==
    ASSUME TypeOK, PositionsAgree, RingHoldsWindow, UNCHANGED positions
    PROVE  PositionsAgree' /\ RingHoldsWindow'
BY DEF positions, PositionsAgree, RingHoldsWindow, HeadPos, Advance

LEMMA BlockingKeepsInv ==
    ASSUME CirBufInv, NEW len \in 1..MaxChunk, WriteBlocks(len)
    PROVE  CirBufInv'
<1> USE DEF CirBufInv
<1>1. PositionsAgree' /\ RingHoldsWindow'
  BY PositionsUntouched DEF WriteBlocks
<1>2. ~waiterChan
  BY DEF WriteBlocks, NoLostWakeup
<1>3. TypeOK' /\ AsyncBounded' /\ NoLostWakeup' /\ NoPanic'
  BY <1>2 DEF WriteBlocks, positions, TypeOK, AsyncBounded, NoLostWakeup, NoPanic, Full
<1> QED BY <1>1, <1>3

LEMMA ResumingKeepsInv ==
    ASSUME CirBufInv, WriterResumes
    PROVE  CirBufInv'
<1> USE DEF CirBufInv
<1>1. PositionsAgree' /\ RingHoldsWindow'
  BY PositionsUntouched DEF WriterResumes
<1>2. TypeOK' /\ AsyncBounded' /\ NoLostWakeup' /\ NoPanic'
  BY DEF WriterResumes, positions, TypeOK, AsyncBounded, NoLostWakeup, NoPanic, Full
<1> QED BY <1>1, <1>2

LEMMA StepKeepsInv == CirBufInv /\ [Next]_vars => CirBufInv'
<1> SUFFICES ASSUME CirBufInv, [Next]_vars PROVE CirBufInv'
  OBVIOUS
<1>1. CASE UNCHANGED vars
  <2>1. UNCHANGED positions /\ UNCHANGED <<syncMode, windowSize, waiterChan, writer>>
    BY <1>1 DEF vars, positions
  <2>2. PositionsAgree' /\ RingHoldsWindow'
    BY <2>1, PositionsUntouched DEF CirBufInv
  <2>3. TypeOK' /\ AsyncBounded' /\ NoLostWakeup' /\ NoPanic'
    BY <2>1
    DEF CirBufInv, positions, TypeOK, AsyncBounded, NoLostWakeup, NoPanic, Full
  <2> QED BY <2>2, <2>3 DEF CirBufInv
<1>2. CASE Next
  BY <1>2, WriteKeepsInv, BlockingKeepsInv, ResumingKeepsInv, ResizeKeepsInv,
     ConsumeKeepsInv DEF Next
<1> QED BY <1>1, <1>2

(* The ring's whole invariant. *)
THEOREM CirBufCorrect == Spec => []CirBufInv
<1> QED BY InitInv, StepKeepsInv, PTL DEF Spec

(* The fields of the ring keep their types and ranges: the positions stay in the
   buffer and the count within its size. *)
THEOREM RingTyped == Spec => []TypeOK
<1>1. CirBufInv => TypeOK
  BY DEF CirBufInv
<1> QED BY <1>1, CirBufCorrect, PTL

(* Wrapping, truncating, overwriting and consuming keep the bytes of the window
   in their slots. *)
THEOREM RingAlwaysHoldsWindow == Spec => []RingHoldsWindow
<1>1. CirBufInv => RingHoldsWindow
  BY DEF CirBufInv
<1> QED BY <1>1, CirBufCorrect, PTL

(* A writer is never left asleep on a window that has space. *)
THEOREM WriterIsWoken == Spec => []NoLostWakeup
<1>1. CirBufInv => NoLostWakeup
  BY DEF CirBufInv
<1> QED BY <1>1, CirBufCorrect, PTL

-----------------------------------------------------------------------------
(* The refinement: the window [HeadPos, totalSize) moves as StreamWindow says. *)

(* What the window has in flight is what the ring counts. *)
LEMMA SizeIsCount == TypeOK => Window!Size = count
BY DEF TypeOK, Window!Size, HeadPos

LEMMA FullAgrees == TypeOK => (Window!Full <=> Full)
BY SizeIsCount DEF Full, Window!Full

LEMMA WriteImplements ==
    ASSUME CirBufInv, NEW len \in 1..MaxChunk, WriteAccepts(len)
    PROVE  Window!WriteAccepts(len)
<1> DEFINE n == Accepted(len)
           d == Overwritten(n)
<1> USE DEF CirBufInv
<1>1. n = Window!Accepted(len)
  BY SizeIsCount DEF Accepted, Window!Accepted, MinOf, Window!MinOf
<1>2. n \in 1..CirBufSize /\ d \in 0..n
  BY AcceptedBounds DEF WriteAccepts
<1>3. /\ totalSize' = totalSize + n /\ count' = count + n - d
      /\ UNCHANGED <<syncMode, windowSize, waiterChan, writer>>
      /\ writer = "running" /\ len > 0 /\ ~Full
  BY DEF WriteAccepts
<1>4. d = IF count + n <= windowSize THEN 0 ELSE count + n - windowSize
  BY <1>2, CirBufAssumption DEF Overwritten, MinOf, TypeOK
<1> HIDE DEF n, d
<1>5. HeadPos' = Window!MaxOf(HeadPos, totalSize' - windowSize)
  BY <1>2, <1>3, <1>4, CirBufAssumption DEF HeadPos, Window!MaxOf, TypeOK
<1> QED BY <1>1, <1>3, <1>5, FullAgrees DEF Window!WriteAccepts, n

LEMMA BlockingImplements ==
    ASSUME CirBufInv, NEW len \in 1..MaxChunk, WriteBlocks(len)
    PROVE  Window!WriteBlocks(len)
BY FullAgrees DEF CirBufInv, WriteBlocks, Window!WriteBlocks, HeadPos, positions

LEMMA ResizeImplements ==
    ASSUME CirBufInv, NEW sync \in BOOLEAN, NEW size \in 0..CirBufSize + 1,
           SetEffectiveWindow(sync, size)
    PROVE  Window!SetEffectiveWindow(sync, size)
<1> DEFINE window == MinOf(size, CirBufSize)
<1> USE DEF CirBufInv
<1>1. window = Window!MinOf(size, CirBufSize) /\ window \in 0..CirBufSize
  BY CirBufAssumption DEF MinOf, Window!MinOf
<1>2. /\ windowSize' = window /\ syncMode' = sync
      /\ count' = count - Excess(sync, window)
      /\ UNCHANGED <<totalSize, writer>>
  BY DEF SetEffectiveWindow
<1>3. IF syncMode /\ (window > windowSize \/ ~sync)
      THEN Window!TryWakeWriter ELSE UNCHANGED waiterChan
  BY DEF SetEffectiveWindow, WakesWriter, TryWakeWriter, Window!TryWakeWriter
<1> HIDE DEF window
<1>4. HeadPos' = IF sync THEN HeadPos ELSE Window!MaxOf(HeadPos, totalSize - window)
  BY <1>1, <1>2, CirBufAssumption DEF HeadPos, Excess, Window!MaxOf, TypeOK
<1> QED BY <1>1, <1>2, <1>3, <1>4 DEF Window!SetEffectiveWindow

LEMMA ConsumeImplements ==
    ASSUME CirBufInv, NEW numBytes \in 1..count, Consume(numBytes)
    PROVE  numBytes \in 1..Window!Size /\ Window!Consume(numBytes)
<1>1. HeadPos' = HeadPos + numBytes
  BY DEF CirBufInv, TypeOK, Consume, HeadPos
<1> QED BY <1>1, SizeIsCount
        DEF CirBufInv, Consume, Window!Consume, TryWakeWriter, Window!TryWakeWriter

LEMMA StepImplements == CirBufInv /\ [Next]_vars => [Window!WindowNext]_(Window!windowVars)
<1> SUFFICES ASSUME CirBufInv, [Next]_vars
             PROVE  Window!WindowNext \/ UNCHANGED Window!windowVars
  OBVIOUS
<1>1. ASSUME NEW len \in 1..MaxChunk, totalSize + len <= MaxBytes,
             WriteAccepts(len) \/ WriteBlocks(len)
      PROVE  Window!WindowNext
  BY <1>1, WriteImplements, BlockingImplements DEF Window!WindowNext
<1>2. ASSUME WriterResumes PROVE Window!WindowNext
  BY <1>2 DEF WriterResumes, Window!WindowNext, Window!WriterResumes, HeadPos, positions
<1>3. ASSUME NEW sync \in BOOLEAN, NEW size \in 0..CirBufSize + 1,
             SetEffectiveWindow(sync, size)
      PROVE  Window!WindowNext
  BY <1>3, ResizeImplements DEF Window!WindowNext
<1>4. ASSUME NEW numBytes \in 1..count, Consume(numBytes)
      PROVE  Window!WindowNext
  BY <1>4, ConsumeImplements DEF Window!WindowNext
<1>5. ASSUME UNCHANGED vars PROVE UNCHANGED Window!windowVars
  BY <1>5 DEF vars, Window!windowVars, HeadPos
<1> QED BY <1>1, <1>2, <1>3, <1>4, <1>5 DEF Next

LEMMA InitImplements == MakeCirBuf => Window!MakeWindow
BY CirBufAssumption DEF MakeCirBuf, Window!MakeWindow, HeadPos

(* The ring implements the sliding window the stream manager is built on. *)
THEOREM CirBufImplementsWindow == Spec => ImplementsWindow
<1>1. Spec => []CirBufInv
  BY CirBufCorrect
<1> QED BY <1>1, InitImplements, StepImplements, PTL
        DEF Spec, ImplementsWindow, Window!WindowSpec

-----------------------------------------------------------------------------
(* PeekDataAt returns consecutive bytes of the stream: as many as were asked
   for or are held, from offset bytes after the head on. *)
THEOREM PeekReturnsStream ==
    ASSUME CirBufInv, NEW offset \in Nat, NEW len \in Nat, offset < count
    PROVE  /\ DOMAIN PeekDataAt(offset, len) = 0..(MinOf(len, count - offset) - 1)
           /\ \A i \in DOMAIN PeekDataAt(offset, len) :
                 PeekDataAt(offset, len)[i] = HeadPos + offset + i
<1>1. DOMAIN PeekDataAt(offset, len) = 0..(MinOf(len, count - offset) - 1)
  BY DEF PeekDataAt
<1>2. ASSUME NEW i \in 0..(MinOf(len, count - offset) - 1)
      PROVE  PeekDataAt(offset, len)[i] = HeadPos + offset + i
  <2>1. offset + i \in 0..(count - 1)
    BY CirBufAssumption DEF CirBufInv, TypeOK, MinOf
  <2>2. buf[Advance(readPos, offset + i)] = HeadPos + (offset + i)
    BY <2>1 DEF CirBufInv, RingHoldsWindow
  <2>3. PeekDataAt(offset, len)[i] = buf[Advance(readPos, offset + i)]
    BY DEF PeekDataAt
  <2> QED BY <2>2, <2>3 DEF CirBufInv, TypeOK, HeadPos
<1> QED BY <1>1, <1>2
=============================================================================
