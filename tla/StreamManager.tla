--------------------------- MODULE StreamManager ---------------------------
(***************************************************************************)
(* The stream manager of a durable job (pkg/jobmanager/streammanager.go).  *)
(* It reads the PTY into the byte window of module StreamWindow and, while *)
(* a client is connected, sends the window to it in packets under ACK-based*)
(* flow control.  Three kinds of goroutine share it:                       *)
(*                                                                         *)
(*   readLoop    reads the PTY and writes the window.  It writes WITHOUT   *)
(*               the manager's lock and takes the lock only to signal.     *)
(*   senderLoop  prepares a packet under the lock and sends it outside.    *)
(*   callers     connect, disconnect, acknowledge, resize, close: each     *)
(*               holds the lock from end to end, but the window has a lock *)
(*               of its own, so a call that uses the window several times  *)
(*               is interleaved with the readLoop's writes.                *)
(*                                                                         *)
(* A method that uses the window once is one step; ClientConnected,        *)
(* RecvAck and prepareNextPacket, which use it several times, take a step  *)
(* for each use and keep the lock in between (LockFree is FALSE).          *)
(***************************************************************************)
EXTENDS StreamWindow

CONSTANTS
    CwndSize,  (* congestion window of connected mode                       *)
    StreamIds, (* ids of the streams clients open, one after another        *)
    RwndSizes, (* receive windows a client may announce                     *)
    NoStream   (* the id before the first connection                        *)

ASSUME ManagerAssumption ==
    /\ CwndSize \in Nat \ {0}
    /\ RwndSizes \subseteq Nat
    /\ NoStream \notin StreamIds

MaxPacketSize == MaxChunk

VARIABLES
    streamId, connected, rwndSize, sentNotAcked,
    maxAcked,           (* <<maxAckedSeq, maxAckedRwnd>>                    *)
    terminalEventSent, terminalEventAcked, closed,
    terminalEvent,      (* "none", "eof" or "error"                         *)
    eofPos,             (* stream position of the terminal event, or -1     *)
    call,               (* the call that holds the lock over several steps  *)
    readPc, readLeft, readErr,  (* readLoop                                 *)
    sendPc, available, packet   (* senderLoop                               *)

clientVars   == <<streamId, connected, rwndSize>>
ackVars      == <<sentNotAcked, maxAcked>>
terminalVars == <<terminalEventSent, terminalEventAcked, closed>>
eventVars    == <<terminalEvent, eofPos>>
readVars     == <<readPc, readLeft, readErr>>
packetVars   == <<available, packet>>

smVars == <<windowVars, clientVars, ackVars, terminalVars, eventVars, call,
            readVars, sendPc, packetVars>>

NoCall   == [step |-> "none", id |-> NoStream, rwnd |-> 0, seq |-> 0, headPos |-> 0]
NoPacket == [kind |-> "none", id |-> NoStream, seq |-> 0, len |-> 0]

(* sm.lock is held by the call in progress, or by prepareNextPacket. *)
LockFree == call.step = "none" /\ sendPc # "sized"

(* drainCond.Signal(): only the senderLoop waits on the condition. *)
SignalDrain == sendPc' = IF sendPc = "parked" THEN "prepare" ELSE sendPc

EffectiveWindow(rwnd) == MinOf(CwndSize, rwnd)

-----------------------------------------------------------------------------

MakeStreamManager ==
    /\ MakeWindow
    /\ streamId = NoStream /\ connected = FALSE /\ rwndSize = CwndSize
    /\ sentNotAcked = 0 /\ maxAcked = <<0, 0>>
    /\ terminalEventSent = FALSE /\ terminalEventAcked = FALSE /\ closed = FALSE
    /\ terminalEvent = "none" /\ eofPos = -1
    /\ call = NoCall
    /\ readPc = "idle" /\ readLeft = 0 /\ readErr = "none"
    /\ sendPc = "prepare" /\ available = 0 /\ packet = NoPacket

-----------------------------------------------------------------------------
(* readLoop *)

AttachReader ==
    /\ LockFree /\ readPc = "idle"
    /\ readPc' = "check"
    /\ UNCHANGED <<windowVars, clientVars, ackVars, terminalVars, eventVars,
                   call, readLeft, readErr, sendPc, packetVars>>

ReadLoopChecksClosed ==
    /\ LockFree /\ readPc = "check"
    /\ readPc' = IF closed THEN "done" ELSE "read"
    /\ UNCHANGED <<windowVars, clientVars, ackVars, terminalVars, eventVars,
                   call, readLeft, readErr, sendPc, packetVars>>

(* The PTY read returns n bytes, an error, or both. *)
PtyRead(n, err) ==
    /\ readPc = "read" /\ (n > 0 \/ err # "none")
    /\ readLeft' = n /\ readErr' = err
    /\ readPc' = IF n > 0 THEN "write" ELSE "ended"
    /\ UNCHANGED <<windowVars, clientVars, ackVars, terminalVars, eventVars,
                   call, sendPc, packetVars>>

(* handleReadData: write what the window takes, then signal; or wait for the
   channel the window gave, and try again. *)
ReadDataWritten ==
    /\ readPc = "write"
    /\ WriteAccepts(readLeft)
    /\ readLeft' = readLeft - Accepted(readLeft)
    /\ readPc' = "signal"
    /\ UNCHANGED <<clientVars, ackVars, terminalVars, eventVars, call, readErr,
                   sendPc, packetVars>>

ReadDataBlocked ==
    /\ readPc = "write"
    /\ WriteBlocks(readLeft)
    /\ UNCHANGED <<clientVars, ackVars, terminalVars, eventVars, call, readVars,
                   sendPc, packetVars>>

ReadLoopResumes ==
    /\ WriterResumes
    /\ UNCHANGED <<clientVars, ackVars, terminalVars, eventVars, call, readVars,
                   sendPc, packetVars>>

AfterWrite ==
    IF readLeft > 0 THEN "write" ELSE IF readErr # "none" THEN "ended" ELSE "check"

ReadDataSignals ==
    /\ LockFree /\ readPc = "signal"
    /\ SignalDrain
    /\ readPc' = AfterWrite
    /\ UNCHANGED <<windowVars, clientVars, ackVars, terminalVars, eventVars,
                   call, readLeft, readErr, packetVars>>

(* handleEOF and handleError. *)
ReadLoopEnds ==
    /\ LockFree /\ readPc = "ended"
    /\ eofPos' = total
    /\ terminalEvent' = readErr
    /\ SignalDrain
    /\ readPc' = "done"
    /\ UNCHANGED <<windowVars, clientVars, ackVars, terminalVars, call,
                   readLeft, readErr, packetVars>>

-----------------------------------------------------------------------------
(* senderLoop.  `available' is a local of prepareNextPacket and is cleared when
   it goes out of use.  prepareNextPacket reads the size of the window, then decides
   under the same lock; bytes written in between are not in `available'. *)

SenderSizes ==
    /\ LockFree /\ sendPc = "prepare"
    /\ available' = Size
    /\ sendPc' = "sized"
    /\ UNCHANGED <<windowVars, clientVars, ackVars, terminalVars, eventVars,
                   call, readVars, packet>>

StreamOver == closed \/ terminalEventAcked

(* Mutation of AvailableToSend: what is in flight is not counted. *)
WholeWindow == EffectiveWindow(rwndSize)

AvailableToSend == EffectiveWindow(rwndSize) - sentNotAcked

(* The bytes PeekDataAt(sentNotAcked) finds for the next packet. *)
PeekSize ==
    MinOf(MinOf(AvailableToSend, MaxPacketSize), MinOf(available, Size - sentNotAcked))

DataReady     == connected /\ available > 0 /\ AvailableToSend > 0 /\ PeekSize > 0
(* Mutation of TerminalReady: end of stream once all is sent, acknowledged or not. *)
TerminalReadyWhenSent ==
    connected /\ available <= sentNotAcked /\ terminalEvent # "none" /\ ~terminalEventSent

TerminalReady == connected /\ available = 0 /\ terminalEvent # "none" /\ ~terminalEventSent

SenderStops ==
    /\ sendPc = "sized" /\ StreamOver
    /\ sendPc' = "done" /\ available' = 0
    /\ UNCHANGED <<windowVars, clientVars, ackVars, terminalVars, eventVars,
                   call, readVars, packet>>

(* drainCond.Wait() gives the lock up; the sender prepares anew once woken. *)
SenderParks ==
    /\ sendPc = "sized" /\ ~StreamOver /\ ~DataReady /\ ~TerminalReady
    /\ sendPc' = "parked" /\ available' = 0
    /\ UNCHANGED <<windowVars, clientVars, ackVars, terminalVars, eventVars,
                   call, readVars, packet>>

SenderPreparesData ==
    /\ sendPc = "sized" /\ ~StreamOver /\ DataReady
    /\ packet' = [kind |-> "data", id |-> streamId, seq |-> head + sentNotAcked,
                  len |-> PeekSize]
    /\ sentNotAcked' = sentNotAcked + PeekSize
    /\ sendPc' = "send" /\ available' = 0
    /\ UNCHANGED <<windowVars, clientVars, maxAcked, terminalVars, eventVars,
                   call, readVars>>

(* prepareTerminalPacket *)
SenderPreparesTerminal ==
    /\ sendPc = "sized" /\ ~StreamOver /\ TerminalReady
    /\ packet' = [kind |-> terminalEvent, id |-> streamId, seq |-> eofPos, len |-> 0]
    /\ terminalEventSent' = TRUE
    /\ sendPc' = "send" /\ available' = 0
    /\ UNCHANGED <<windowVars, clientVars, ackVars, terminalEventAcked, closed,
                   eventVars, call, readVars>>

(* SendData hands the packet over outside the lock: the client the packet was
   prepared for may be gone by now. *)
SenderSends ==
    /\ sendPc = "send"
    /\ packet' = NoPacket
    /\ sendPc' = "prepare"
    /\ UNCHANGED <<windowVars, clientVars, ackVars, terminalVars, eventVars,
                   call, readVars, available>>

-----------------------------------------------------------------------------
(* ClientConnected.  A call that is refused (the stream is over, or a client
   is connected) changes nothing. *)

ConnectBegins(id, rwnd, clientSeq) ==
    /\ LockFree /\ ~StreamOver /\ ~connected
    /\ call' = [step |-> IF clientSeq > head THEN "consume" ELSE "commit",
                id |-> id, rwnd |-> rwnd, seq |-> clientSeq, headPos |-> head]
    /\ UNCHANGED <<windowVars, clientVars, ackVars, terminalVars, eventVars,
                   readVars, sendPc, packetVars>>

(* Bytes the client already has are dropped; a client that claims more than was
   ever written is refused. *)
ConnectConsumes ==
    /\ call.step = "consume"
    /\ LET bytesToConsume == call.seq - call.headPos
       IN  IF bytesToConsume > Size
           THEN call' = NoCall /\ UNCHANGED windowVars
           ELSE call' = [call EXCEPT !.step = "reread"] /\ Consume(bytesToConsume)
    /\ UNCHANGED <<clientVars, ackVars, terminalVars, eventVars, readVars, sendPc,
                   packetVars>>

ConnectRereads ==
    /\ call.step = "reread"
    /\ call' = [call EXCEPT !.step = "commit", !.headPos = head]
    /\ UNCHANGED <<windowVars, clientVars, ackVars, terminalVars, eventVars,
                   readVars, sendPc, packetVars>>

(* What ClientConnected returns: where the stream it is about to send begins. *)
StartSeq == MaxOf(call.headPos, call.seq)

(* Mutation of ConnectCommits: the window is left as it is. *)
ConnectCommitsKeepsWindow ==
    /\ call.step = "commit"
    /\ streamId' = call.id
    /\ connected' = TRUE
    /\ rwndSize' = call.rwnd
    /\ sentNotAcked' = 0
    /\ SignalDrain
    /\ call' = NoCall
    /\ UNCHANGED <<windowVars, maxAcked, terminalVars, eventVars, readVars, packetVars>>

ConnectCommits ==
    /\ call.step = "commit"
    /\ streamId' = call.id
    /\ connected' = TRUE
    /\ rwndSize' = call.rwnd
    /\ sentNotAcked' = 0
    /\ SetEffectiveWindow(TRUE, EffectiveWindow(call.rwnd))
    /\ SignalDrain
    /\ call' = NoCall
    /\ UNCHANGED <<maxAcked, terminalVars, eventVars, readVars, packetVars>>

(* ClientDisconnected asks for the production buffer size, which the window caps. *)
ClientDisconnected ==
    /\ LockFree /\ connected
    /\ connected' = FALSE
    /\ sentNotAcked' = 0
    /\ maxAcked' = <<0, 0>>
    /\ terminalEventSent' = (terminalEventSent /\ terminalEventAcked)
    /\ SetEffectiveWindow(FALSE, CirBufSize)
    /\ SignalDrain
    /\ UNCHANGED <<streamId, rwndSize, terminalEventAcked, closed,
                   eventVars, call, readVars, packetVars>>

-----------------------------------------------------------------------------
(* RecvAck.  An ACK for another stream, or without a client, is ignored. *)

AckIsFor(id) == connected /\ id = streamId

RecvFinAck(id) ==
    /\ LockFree /\ AckIsFor(id)
    /\ terminalEventAcked' = TRUE
    /\ SignalDrain
    /\ UNCHANGED <<windowVars, clientVars, ackVars, terminalEventSent, closed,
                   eventVars, call, readVars, packetVars>>

Stale(seq, rwnd) ==
    \/ seq < maxAcked[1]
    \/ seq = maxAcked[1] /\ rwnd <= maxAcked[2]

(* Mutation of AcksInFlight: any byte that is held can be acknowledged. *)
AcksHeld(seq) == seq - head \in 0..Size

(* Only bytes in flight can be acknowledged. *)
AcksInFlight(seq) == seq - head \in 0..sentNotAcked

RecvDataAck(id, seq, rwnd) ==
    /\ LockFree /\ AckIsFor(id) /\ ~Stale(seq, rwnd)
    /\ maxAcked' = <<seq, rwnd>>
    /\ IF AcksInFlight(seq)
       THEN /\ IF seq > head THEN Consume(seq - head) ELSE UNCHANGED windowVars
            /\ sentNotAcked' = sentNotAcked - (seq - head)
            /\ call' = [NoCall EXCEPT !.step = "ack", !.rwnd = rwnd, !.seq = seq - head]
       ELSE UNCHANGED <<windowVars, sentNotAcked, call>>
    /\ UNCHANGED <<clientVars, terminalVars, eventVars, readVars, sendPc, packetVars>>

(* Mutation of AckWakesSender: only a larger receive window wakes the sender. *)
LargerWindowWakesSender == call.rwnd > rwndSize

(* The second half of RecvAck: call.seq holds ackedBytes. *)
AckWakesSender == call.rwnd > rwndSize \/ call.seq > 0

RecvAckResizes ==
    /\ call.step = "ack"
    /\ rwndSize' = call.rwnd
    /\ SetEffectiveWindow(TRUE, EffectiveWindow(call.rwnd))
    /\ IF AckWakesSender THEN SignalDrain ELSE UNCHANGED sendPc
    /\ call' = NoCall
    /\ UNCHANGED <<streamId, connected, ackVars, terminalVars, eventVars,
                   readVars, packetVars>>

SetRwndSize(rwnd) ==
    /\ LockFree /\ connected
    /\ rwndSize' = rwnd
    /\ SetEffectiveWindow(TRUE, EffectiveWindow(rwnd))
    /\ SignalDrain
    /\ UNCHANGED <<streamId, connected, ackVars, terminalVars, eventVars,
                   call, readVars, packetVars>>

Close ==
    /\ LockFree
    /\ closed' = TRUE
    /\ SignalDrain
    /\ UNCHANGED <<windowVars, clientVars, ackVars, terminalEventSent,
                   terminalEventAcked, eventVars, call, readVars, packetVars>>

-----------------------------------------------------------------------------

ReadLoop ==
    \/ ReadLoopChecksClosed
    \/ \E n \in 0..MaxPacketSize, err \in {"none", "eof", "error"} :
         total + n <= MaxBytes /\ PtyRead(n, err)
    \/ ReadDataWritten \/ ReadDataBlocked \/ ReadLoopResumes
    \/ ReadDataSignals \/ ReadLoopEnds

SenderLoop ==
    \/ SenderSizes \/ SenderStops \/ SenderParks
    \/ SenderPreparesData \/ SenderPreparesTerminal \/ SenderSends

(* The steps of a call that has begun. *)
CallInProgress == ConnectConsumes \/ ConnectRereads \/ ConnectCommits \/ RecvAckResizes

(* What the manager's users may ask of it.  ACKs come from the wire: any
   position and any announced window. *)
Callers ==
    \/ AttachReader
    \/ \E id \in StreamIds, rwnd \in RwndSizes, clientSeq \in 0..MaxBytes :
         ConnectBegins(id, rwnd, clientSeq)
    \/ ClientDisconnected
    \/ \E id \in StreamIds :
         RecvFinAck(id) \/ \E seq \in 0..MaxBytes, rwnd \in RwndSizes :
                              RecvDataAck(id, seq, rwnd)
    \/ \E rwnd \in RwndSizes : SetRwndSize(rwnd)
    \/ Close

SMNext == ReadLoop \/ SenderLoop \/ CallInProgress \/ Callers

SMSpec == MakeStreamManager /\ [][SMNext]_smVars

-----------------------------------------------------------------------------

(* The values every variable may take. *)
SMTypeOK ==
    /\ WindowTypeOK
    /\ streamId \in StreamIds \cup {NoStream}
    /\ connected \in BOOLEAN /\ rwndSize \in Nat
    /\ sentNotAcked \in Nat
    /\ maxAcked \in Nat \X Nat
    /\ terminalEventSent \in BOOLEAN /\ terminalEventAcked \in BOOLEAN
    /\ closed \in BOOLEAN
    /\ terminalEvent \in {"none", "eof", "error"}
    /\ eofPos \in Nat \cup {-1}
    /\ call \in [step : {"none", "consume", "reread", "commit", "ack"},
                 id : StreamIds \cup {NoStream}, rwnd : Nat, seq : Nat, headPos : Nat]
    /\ readPc \in {"idle", "check", "read", "write", "signal", "ended", "done"}
    /\ readLeft \in 0..MaxPacketSize
    /\ readErr \in {"none", "eof", "error"}
    /\ sendPc \in {"prepare", "sized", "parked", "send", "done"}
    /\ available \in Nat
    /\ packet \in [kind : {"none", "data", "eof", "error"},
                   id : StreamIds \cup {NoStream}, seq : Nat \cup {-1}, len : Nat]

(* While a client is connected the window is in sync mode, so nothing but an
   ACK can move its head: a byte sent but not yet acknowledged is never
   overwritten by newer output. *)
ConnectedIsSync == connected => syncMode

(* Everything counted as in flight is still held, so that it can be sent again
   to the next client, and is never more than the congestion window. *)
InFlightIsHeld ==
    connected => sentNotAcked <= Size /\ sentNotAcked <= CwndSize

(* EOF (or the read error) is announced only after every byte of the stream has
   been acknowledged, although the sender looks at the size of the window before
   it looks at the terminal event and bytes may be written in between. *)
TerminalAfterAllAcked ==
    connected /\ terminalEventSent => head = eofPos /\ total = eofPos

(* What a fresh prepareNextPacket would find to do. *)
DataWaits     == Size > sentNotAcked /\ AvailableToSend > 0
TerminalWaits == Size = 0 /\ terminalEvent # "none" /\ ~terminalEventSent
SenderHasWork == StreamOver \/ (connected /\ (DataWaits \/ TerminalWaits))

(* No lost wake-up on drainCond: a parked sender has nothing to do, unless the
   goroutine that gave it work has yet to signal.  The window is written without
   the manager's lock, so the signal comes after the write; RecvAck frees the
   window before it signals. *)
ParkedHasNoWork ==
    sendPc = "parked" /\ SenderHasWork =>
        readPc = "signal" \/ (call.step = "ack" /\ call.seq > 0)

(* The readLoop is the only writer, so a blocked writer is a readLoop in the
   middle of a chunk, and it sleeps only while the window is really full. *)
ReadLoopWaitsOnlyWhenFull ==
    /\ writer = "blocked" => readPc = "write"
    /\ NoLostWakeup

(* Nothing a client has not been sent leaves the window while it is connected:
   neither an ACK nor newer output can take it out. *)
OnlySentBytesLeave ==
    [][connected /\ connected' => head' - head <= sentNotAcked]_smVars

-----------------------------------------------------------------------------
(* The rest of the inductive invariant. *)

(* The lock has one holder, and what a call may find while it holds it. *)
LockDiscipline ==
    /\ call.step # "none" => sendPc # "sized"
    /\ call.step \in {"consume", "reread", "commit"} => ~connected /\ ~terminalEventAcked
    /\ call.step = "consume" => call.seq > call.headPos
    /\ call.step = "ack" => connected

(* The size the sender works with lags behind the window only by a write whose
   signal the sender's own lock holds up. *)
AvailableLags ==
    sendPc = "sized" =>
        /\ connected => available <= Size
        /\ available = 0 => Size = 0 \/ readPc = "signal"

(* Where the readLoop must be. *)
ReadLoopProgress ==
    /\ readPc = "write" => readLeft > 0
    /\ terminalEvent # "none" => readPc = "done" /\ eofPos = total
    /\ readPc = "ended" => readErr # "none"

(* A terminal event counts as sent only while the client it was sent to is
   connected, or after that client acknowledged it. *)
TerminalSentWhen ==
    terminalEventSent => IF connected THEN terminalEvent # "none" /\ Size = 0
                                      ELSE terminalEventAcked

(* The inductive invariant of the stream manager. *)
SMInv ==
    /\ SMTypeOK /\ WindowBounded /\ NoPanic
    /\ ConnectedIsSync /\ InFlightIsHeld
    /\ ReadLoopWaitsOnlyWhenFull /\ ParkedHasNoWork
    /\ LockDiscipline /\ AvailableLags /\ ReadLoopProgress /\ TerminalSentWhen
=============================================================================
