---------------------------- MODULE StreamWindow ----------------------------
(***************************************************************************)
(* What the job manager's byte buffer (pkg/jobmanager/cirbuf.go) promises  *)
(* to the stream manager, without the ring: a sliding window over the      *)
(* endless stream of bytes read from the PTY.  A byte is identified by its *)
(* position in that stream, so the window is the interval                  *)
(*                                                                         *)
(*            head, head + 1, ..., total - 1                               *)
(*                                                                         *)
(* of the bytes still held.  In sync mode a writer that finds the window   *)
(* full is blocked until space appears; in async mode the writer never     *)
(* blocks and the oldest bytes fall out of the window.                     *)
(*                                                                         *)
(* Module CirBuf is the ring that implements this window, and module       *)
(* StreamManager is built on it.                                           *)
(***************************************************************************)
EXTENDS Integers

CONSTANTS
    CirBufSize, (* capacity of the buffer (CirBufSize, 2 MB, in the code)     *)
    MaxChunk,   (* longest slice one write offers (MaxPacketSize in the code) *)
    MaxBytes    (* bound: the bytes the PTY produces in all                   *)

(* The code only needs a buffer that is not empty; that one write is never   *)
(* longer than the buffer is what its constants give (4 KB against 2 MB).    *)
ASSUME WindowAssumption ==
    /\ CirBufSize \in Nat \ {0}
    /\ MaxChunk \in 1..CirBufSize
    /\ MaxBytes \in Nat

VARIABLES
    head,       (* position of the oldest byte held: HeadPos()               *)
    total,      (* bytes ever written: TotalSize()                           *)
    syncMode,   (* TRUE: a full window blocks the writer                     *)
    windowSize, (* effective window, at most CirBufSize                      *)
    waiterChan, (* TRUE: a blocked writer's channel is waiting to be closed  *)
    writer      (* the goroutine that writes: running, blocked on the channel
                   WriteAvailable gave it, or gone in the panic              *)

windowVars == <<head, total, syncMode, windowSize, waiterChan, writer>>

MinOf(a, b) == IF a <= b THEN a ELSE b
MaxOf(a, b) == IF a >= b THEN a ELSE b

Size == total - head

-----------------------------------------------------------------------------

MakeWindow ==
    /\ head = 0
    /\ total = 0
    /\ syncMode = TRUE
    /\ windowSize = CirBufSize
    /\ waiterChan = FALSE
    /\ writer = "running"

(* tryWakeWriter: close the registered channel, if there is one. *)
TryWakeWriter == waiterChan' = FALSE

(* The window is resized under the buffer's lock; async mode drops the oldest
   bytes that no longer fit, and only a writer that sync mode may have blocked
   is woken. *)
SetEffectiveWindow(sync, size) ==
    LET window == MinOf(size, CirBufSize)
    IN  /\ windowSize' = window
        /\ syncMode' = sync
        /\ head' = IF sync THEN head ELSE MaxOf(head, total - window)
        /\ IF syncMode /\ (window > windowSize \/ ~sync)
           THEN TryWakeWriter
           ELSE UNCHANGED waiterChan
        /\ UNCHANGED <<total, writer>>

Full == syncMode /\ Size >= windowSize

(* How much of an offer of len bytes a window that is not full takes: in sync
   mode as much as fits, in async mode all of it. *)
Accepted(len) == IF syncMode THEN MinOf(len, windowSize - Size) ELSE len

(* WriteAvailable on a full window: no byte is written and a channel to wait
   on is registered.  There is room for one such channel only. *)
WriteBlocks(len) ==
    /\ writer = "running" /\ len > 0 /\ Full
    /\ waiterChan' = TRUE
    /\ writer' = IF waiterChan THEN "panicked" ELSE "blocked"
    /\ UNCHANGED <<head, total, syncMode, windowSize>>

(* WriteAvailable on a window with room (or in async mode). *)
WriteAccepts(len) ==
    /\ writer = "running" /\ len > 0 /\ ~Full
    /\ total' = total + Accepted(len)
    /\ head' = MaxOf(head, total' - windowSize)
    /\ UNCHANGED <<syncMode, windowSize, waiterChan, writer>>

(* The writer's receive on the channel returns once the channel is closed. *)
WriterResumes ==
    /\ writer = "blocked" /\ ~waiterChan
    /\ writer' = "running"
    /\ UNCHANGED <<head, total, syncMode, windowSize, waiterChan>>

(* Mutation of Consume: the space it frees is not announced to the writer. *)
ConsumeSilently(numBytes) ==
    /\ numBytes <= Size
    /\ head' = head + numBytes
    /\ UNCHANGED <<total, syncMode, windowSize, waiterChan, writer>>

(* Consume drops the oldest bytes and always wakes the writer; asking for more
   than is held is an error and changes nothing. *)
Consume(numBytes) ==
    /\ numBytes <= Size
    /\ head' = head + numBytes
    /\ TryWakeWriter
    /\ UNCHANGED <<total, syncMode, windowSize, writer>>

(* The positions PeekDataAt(offset, len) returns: len bytes from offset on, or
   as many of them as are held. *)
PeekDataAt(offset, len) ==
    (head + offset)..(MinOf(head + offset + len, total) - 1)

-----------------------------------------------------------------------------

WindowNext ==
    \/ \E len \in 1..MaxChunk :
         /\ total + len <= MaxBytes
         /\ WriteAccepts(len) \/ WriteBlocks(len)
    \/ WriterResumes
    \/ \E sync \in BOOLEAN, size \in 0..CirBufSize + 1 :
         SetEffectiveWindow(sync, size)
    \/ \E numBytes \in 1..Size : Consume(numBytes)

WindowSpec == MakeWindow /\ [][WindowNext]_windowVars

-----------------------------------------------------------------------------

(* The values every variable may take: the head never passes the end. *)
WindowTypeOK ==
    /\ head \in Nat /\ total \in Nat /\ head <= total
    /\ syncMode \in BOOLEAN
    /\ windowSize \in 0..CirBufSize
    /\ waiterChan \in BOOLEAN
    /\ writer \in {"running", "blocked", "panicked"}

(* The buffer never holds more than its capacity, and in async mode never more
   than the window (cirbuf.go's comment on SetEffectiveWindow). *)
WindowBounded ==
    /\ Size <= CirBufSize
    /\ ~syncMode => Size <= windowSize

(* No lost wake-up: as long as a writer's channel is registered, the writer is
   really asleep on it and there is no space it could use.  Violated when any
   operation frees space, grows the window or leaves sync mode without closing
   the channel. *)
NoLostWakeup == waiterChan => writer = "blocked" /\ Full

(* The panic "multiple concurrent blocked writes not allowed" is unreachable
   with the single writer the stream manager has. *)
NoPanic == writer # "panicked"

(* The inductive invariant of the window. *)
WindowInv == WindowTypeOK /\ WindowBounded /\ NoLostWakeup /\ NoPanic
=============================================================================
