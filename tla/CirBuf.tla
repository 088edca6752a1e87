------------------------------- MODULE CirBuf -------------------------------
(***************************************************************************)
(* The ring buffer of pkg/jobmanager/cirbuf.go.  One goroutine writes (the *)
(* stream manager's readLoop); the window is resized and bytes are         *)
(* consumed by others.  Every method holds the ring's lock from end to end *)
(* and is one step here.                                                   *)
(*                                                                         *)
(* A byte is represented by its position in the stream, so that buf[s] = p *)
(* says slot s holds the p-th byte ever written: what the ring must keep   *)
(* straight is which byte sits where, never the value of a byte.           *)
(***************************************************************************)
EXTENDS Integers

CONSTANTS
    CirBufSize, (* len(buf)                                            *)
    MaxChunk,   (* longest slice one WriteAvailable offers             *)
    MaxBytes    (* bound: the bytes written in all                     *)

ASSUME CirBufAssumption ==
    /\ CirBufSize \in Nat \ {0}
    /\ MaxChunk \in 1..CirBufSize
    /\ MaxBytes \in Nat

VARIABLES
    buf,        (* slot -> byte; NoByte in a slot never written        *)
    readPos, writePos, count, totalSize,
    syncMode, windowSize,
    waiterChan, (* TRUE: the one-place channel holds a waiter's channel *)
    writer      (* "running", "blocked" or "panicked"                   *)

vars == <<buf, readPos, writePos, count, totalSize, syncMode, windowSize,
          waiterChan, writer>>

positions == <<buf, readPos, writePos, count, totalSize>>

Slots  == 0..(CirBufSize - 1)
NoByte == -1

MinOf(a, b) == IF a <= b THEN a ELSE b

(* The slot k places after slot s. *)
Advance(s, k) == (s + k) % CirBufSize

HeadPos == totalSize - count

-----------------------------------------------------------------------------

MakeCirBuf ==
    /\ buf = [s \in Slots |-> NoByte]
    /\ readPos = 0 /\ writePos = 0 /\ count = 0 /\ totalSize = 0
    /\ syncMode = TRUE
    /\ windowSize = CirBufSize
    /\ waiterChan = FALSE
    /\ writer = "running"

(* tryWakeWriter closes the channel in waiterChan, if there is one. *)
TryWakeWriter == waiterChan' = FALSE

(* Bytes an async window of the given size has no room for. *)
Excess(sync, window) == IF ~sync /\ count > window THEN count - window ELSE 0

(* Mutation of WakesWriter: a window that grows does not wake the writer. *)
WakesWriterOnlyForAsync(sync, window) == syncMode /\ ~sync

(* Only a writer that sync mode blocked can be waiting. *)
WakesWriter(sync, window) == syncMode /\ (window > windowSize \/ ~sync)

SetEffectiveWindow(sync, size) ==
    LET window == MinOf(size, CirBufSize)
    IN  /\ windowSize' = window
        /\ syncMode' = sync
        /\ readPos' = Advance(readPos, Excess(sync, window))
        /\ count' = count - Excess(sync, window)
        /\ IF WakesWriter(sync, window) THEN TryWakeWriter ELSE UNCHANGED waiterChan
        /\ UNCHANGED <<buf, writePos, totalSize, writer>>

Full == syncMode /\ count >= windowSize

(* The bytes of an offer of len that the loop of WriteAvailable writes before
   it meets a full window. *)
Accepted(len) == IF syncMode THEN MinOf(len, windowSize - count) ELSE len

(* The ring after n bytes are written from writePos on. *)
Written(n) ==
    [s \in Slots |->
        LET k == Advance(CirBufSize - writePos, s)
        IN  IF k < n THEN totalSize + k ELSE buf[s]]

(* Mutations of Overwritten: writes never push readPos; the capacity is taken for
   the window. *)
NothingOverwritten(n) == 0
OverwrittenBeyondCapacity(n) == (count + n) - MinOf(count + n, CirBufSize)

(* How far n writes push readPos: each write into a full window overwrites the
   oldest byte. *)
Overwritten(n) == (count + n) - MinOf(count + n, windowSize)

WriteBlocks(len) ==
    /\ writer = "running" /\ len > 0 /\ Full
    /\ waiterChan' = TRUE
    /\ writer' = IF waiterChan THEN "panicked" ELSE "blocked"
    /\ UNCHANGED <<positions, syncMode, windowSize>>

(* Mutation of WriteAccepts: overwriting adjusts count but leaves readPos. *)
WriteAcceptsKeepsReadPos(len) ==
    /\ writer = "running" /\ len > 0 /\ ~Full
    /\ LET n == Accepted(len)
       IN  /\ buf' = Written(n)
           /\ writePos' = Advance(writePos, n)
           /\ count' = count + n - Overwritten(n)
           /\ totalSize' = totalSize + n
    /\ UNCHANGED <<readPos, syncMode, windowSize, waiterChan, writer>>

WriteAccepts(len) ==
    /\ writer = "running" /\ len > 0 /\ ~Full
    /\ LET n == Accepted(len)
       IN  /\ buf' = Written(n)
           /\ writePos' = Advance(writePos, n)
           /\ readPos' = Advance(readPos, Overwritten(n))
           /\ count' = count + n - Overwritten(n)
           /\ totalSize' = totalSize + n
    /\ UNCHANGED <<syncMode, windowSize, waiterChan, writer>>

(* The caller's receive on the channel returns once it is closed. *)
WriterResumes ==
    /\ writer = "blocked" /\ ~waiterChan
    /\ writer' = "running"
    /\ UNCHANGED <<positions, syncMode, windowSize, waiterChan>>

Consume(numBytes) ==
    /\ numBytes <= count
    /\ readPos' = Advance(readPos, numBytes)
    /\ count' = count - numBytes
    /\ TryWakeWriter
    /\ UNCHANGED <<buf, writePos, totalSize, syncMode, windowSize, writer>>

(* PeekDataAt(offset, data): the bytes copied into data[0..len-1]. *)
PeekDataAt(offset, len) ==
    [i \in 0..(MinOf(len, count - offset) - 1) |-> buf[Advance(readPos, offset + i)]]

-----------------------------------------------------------------------------

Next ==
    \/ \E len \in 1..MaxChunk :
         /\ totalSize + len <= MaxBytes
         /\ WriteAccepts(len) \/ WriteBlocks(len)
    \/ WriterResumes
    \/ \E sync \in BOOLEAN, size \in 0..CirBufSize + 1 :
         SetEffectiveWindow(sync, size)
    \/ \E numBytes \in 1..count : Consume(numBytes)

Spec == MakeCirBuf /\ [][Next]_vars

-----------------------------------------------------------------------------

(* Every field has its type and stays in its range. *)
TypeOK ==
    /\ buf \in [Slots -> Int]
    /\ readPos \in Slots /\ writePos \in Slots
    /\ totalSize \in Nat
    /\ count \in 0..MinOf(CirBufSize, totalSize)
    /\ syncMode \in BOOLEAN
    /\ windowSize \in 0..CirBufSize
    /\ waiterChan \in BOOLEAN
    /\ writer \in {"running", "blocked", "panicked"}

(* writePos is count slots after readPos, as the wrap-around arithmetic of
   every method must leave it. *)
PositionsAgree == writePos = Advance(readPos, count)

(* The slots from readPos on hold exactly the last count bytes of the stream,
   oldest first: truncation, overwriting, consuming and wrapping never lose,
   repeat or reorder a byte of the window. *)
RingHoldsWindow ==
    \A i \in 0..(count - 1) : buf[Advance(readPos, i)] = HeadPos + i

(* In async mode the buffer never holds more than its window. *)
AsyncBounded == ~syncMode => count <= windowSize

(* No lost wake-up: while a channel is registered its writer is asleep and
   there is no space it could use.  Every operation that frees space, grows the
   window or leaves sync mode must close the channel. *)
NoLostWakeup == waiterChan => writer = "blocked" /\ Full

(* The panic of WriteAvailable is unreachable with a single writer. *)
NoPanic == writer # "panicked"

(* The inductive invariant. *)
CirBufInv ==
    /\ TypeOK
    /\ PositionsAgree
    /\ RingHoldsWindow
    /\ AsyncBounded
    /\ NoLostWakeup
    /\ NoPanic

-----------------------------------------------------------------------------

(* The ring implements the sliding window of StreamWindow. *)
Window == INSTANCE StreamWindow WITH head <- HeadPos, total <- totalSize

(* Every step of the ring is a step of the window it implements. *)
ImplementsWindow == Window!WindowSpec
=============================================================================
