---------------------------- MODULE StreamClient ----------------------------
(***************************************************************************)
(* One stream of pkg/streamclient: the Writer (streamwriter.go), the       *)
(* Reader (streamreader.go), and a network between them that delivers data *)
(* and ACKs in any order and may deliver them again.  Nothing is lost: the *)
(* Writer keeps no copy of what it sent.                                   *)
(*                                                                         *)
(* A byte is its position in the stream; the Reader's buffer is a sequence *)
(* of positions, which is what must come out right.  Each method holds its *)
(* object's lock from end to end, but for the waits on the condition.      *)
(***************************************************************************)
EXTENDS Integers, SequencesExt

CONSTANTS
    ReadWindow, (* the stream's receive window                *)
    RwndThreshold, (* growth of the window a Read announces: a fifth of it *)
    MaxChunk,   (* longest slice one Write or Read is given   *)
    MaxBytes,   (* bound: the bytes the program writes in all *)
    MaxRepeats  (* bound: deliveries the network repeats      *)

ASSUME StreamAssumption ==
    /\ ReadWindow \in Nat \ {0} /\ MaxChunk \in Nat \ {0}
    /\ MaxBytes \in Nat
    /\ MaxRepeats \in Nat
    /\ RwndThreshold \in 0..ReadWindow

VARIABLES
    (* Writer *)
    nextSeq, wBuffer,   (* wBuffer: bytes taken by Write and not yet sent    *)
    sentNotAcked, readWindow, maxAcked,
    canceled, finAcked, wErr, wEnd,
    writePc,            (* Write: "idle", "waiting" or "ready" (woken)       *)
    (* Reader *)
    rNextSeq, buffer, eof, rErr, rClosed, lastRwndSent, oooPackets,
    readPc,             (* Read: "idle", "waiting" or "ready"                *)
    (* network *)
    packets, acks, repeats,
    (* the reading program *)
    delivered, result

writerVars  == <<nextSeq, wBuffer, sentNotAcked, readWindow, maxAcked, canceled,
                 finAcked, wErr, wEnd, writePc>>
readerVars  == <<rNextSeq, buffer, eof, rErr, rClosed, lastRwndSent, oooPackets,
                 readPc>>
programVars == <<delivered, result>>

scVars == <<writerVars, readerVars, packets, acks, repeats, programVars>>

AtMost(a, b)  == IF a <= b THEN a ELSE b
AtLeast(a, b) == IF a >= b THEN a ELSE b

wClosed == wEnd # "open"

(* cond.Broadcast() *)
Wake(pc) == IF pc = "waiting" THEN "ready" ELSE pc

DataPacket(seq, len) == [kind |-> "data", seq |-> seq, len |-> len]

-----------------------------------------------------------------------------

NewStream ==
    /\ nextSeq = 0 /\ wBuffer = 0 /\ sentNotAcked = 0
    /\ readWindow = ReadWindow /\ maxAcked = <<0, 0>>
    /\ canceled = FALSE /\ finAcked = FALSE /\ wErr = FALSE /\ wEnd = "open"
    /\ writePc = "idle"
    /\ rNextSeq = 0 /\ buffer = <<>> /\ eof = FALSE /\ rErr = "none"
    /\ rClosed = FALSE /\ lastRwndSent = ReadWindow /\ oooPackets = {}
    /\ readPc = "idle"
    /\ packets = {} /\ acks = {} /\ repeats = 0
    /\ delivered = 0 /\ result = "open"

-----------------------------------------------------------------------------
(* Writer *)

(* Mutation of Sendable: what is in flight is not counted. *)
SendableWindow(len) == AtMost(len, readWindow)

(* trySendDataLocked with len bytes in the buffer. *)
Sendable(len) == AtLeast(0, AtMost(len, readWindow - sentNotAcked))

SendAndWait(len) ==
    LET n == Sendable(len)
    IN  /\ packets' = IF n > 0 THEN packets \cup {DataPacket(nextSeq, n)} ELSE packets
        /\ nextSeq' = nextSeq + n
        /\ sentNotAcked' = sentNotAcked + n
        /\ wBuffer' = len - n
        /\ writePc' = IF n < len THEN "waiting" ELSE "idle"

Write(len) ==
    /\ writePc = "idle" /\ ~wClosed /\ ~wErr
    /\ SendAndWait(wBuffer + len)
    /\ UNCHANGED <<readWindow, maxAcked, canceled, finAcked, wErr, wEnd,
                   readerVars, acks, repeats, programVars>>

(* The Write that waited: an error or a close ends it, with its bytes unsent. *)
WriteResumes ==
    /\ writePc = "ready"
    /\ IF wClosed \/ wErr
       THEN writePc' = "idle" /\ UNCHANGED <<packets, nextSeq, sentNotAcked, wBuffer>>
       ELSE SendAndWait(wBuffer)
    /\ UNCHANGED <<readWindow, maxAcked, canceled, finAcked, wErr, wEnd,
                   readerVars, acks, repeats, programVars>>

CloseWithError(kind) ==
    /\ ~wClosed
    /\ wEnd' = kind
    /\ wErr' = TRUE
    /\ writePc' = Wake(writePc)
    /\ packets' = packets \cup {[kind |-> kind, seq |-> nextSeq, len |-> 0]}
    /\ UNCHANGED <<nextSeq, wBuffer, sentNotAcked, readWindow, maxAcked, canceled,
                   finAcked, readerVars, acks, repeats, programVars>>

(* Mutations of Stale: ACKs are taken as they come; only the position counts. *)
NeverStale(ack) == FALSE
StaleSeq(ack) == ack.seq <= maxAcked[1]

Stale(ack) ==
    \/ ack.seq < maxAcked[1]
    \/ ack.seq = maxAcked[1] /\ ack.rwnd <= maxAcked[2]

RecvFin(ack) ==
    /\ ack.fin
    /\ finAcked' = TRUE
    /\ maxAcked' = <<ack.seq, maxAcked[2]>>
    /\ UNCHANGED <<nextSeq, wBuffer, sentNotAcked, readWindow, canceled, wErr,
                   wEnd, writePc>>

(* Mutation of RecvCancel: the blocked Write is not woken. *)
RecvCancelSilently(ack) ==
    /\ ~ack.fin /\ ack.cancel /\ ~canceled
    /\ canceled' = TRUE
    /\ wErr' = (wErr \/ ~wClosed)
    /\ UNCHANGED <<nextSeq, wBuffer, sentNotAcked, readWindow, maxAcked, finAcked,
                   wEnd, writePc>>

RecvCancel(ack) ==
    /\ ~ack.fin /\ ack.cancel /\ ~canceled
    /\ canceled' = TRUE
    /\ IF wClosed THEN UNCHANGED <<wErr, writePc>>
                  ELSE wErr' = TRUE /\ writePc' = Wake(writePc)
    /\ UNCHANGED <<nextSeq, wBuffer, sentNotAcked, readWindow, maxAcked, finAcked,
                   wEnd>>

RecvDataAck(ack) ==
    /\ ~ack.fin /\ ~(ack.cancel /\ ~canceled) /\ ~Stale(ack)
    /\ maxAcked' = <<ack.seq, ack.rwnd>>
    /\ IF wClosed
       THEN UNCHANGED <<sentNotAcked, readWindow, writePc>>
       ELSE /\ sentNotAcked' =
                 AtMost(sentNotAcked, AtLeast(0, nextSeq - ack.seq))
            /\ readWindow' = ack.rwnd
            /\ writePc' = Wake(writePc)
    /\ UNCHANGED <<nextSeq, wBuffer, canceled, finAcked, wErr, wEnd>>

IgnoreAck(ack) ==
    /\ ~ack.fin /\ ~(ack.cancel /\ ~canceled) /\ Stale(ack)
    /\ UNCHANGED writerVars

(* A message is delivered for good, or to be delivered once more. *)
TakeFrom(messages, m, rest) ==
    \/ rest = messages \ {m} /\ UNCHANGED repeats
    \/ rest = messages /\ repeats < MaxRepeats /\ repeats' = repeats + 1

RecvAck(ack) ==
    /\ RecvFin(ack) \/ RecvCancel(ack) \/ RecvDataAck(ack) \/ IgnoreAck(ack)
    /\ TakeFrom(acks, ack, acks')
    /\ UNCHANGED <<readerVars, packets, programVars>>

-----------------------------------------------------------------------------
(* Reader *)

(* The fields of the Reader that receiving changes. *)
Receiver == [next |-> rNextSeq, buffer |-> buffer, eof |-> eof, ooo |-> oooPackets]

(* The bytes from one position to just before another. *)
Bytes(from, to) == [i \in 1..(to - from) |-> from + i - 1]

(* recvDataOrderedLocked, for the packet that starts at r.next *)
Accept(r, p) ==
    [next |-> r.next + p.len,
     buffer |-> r.buffer \o Bytes(p.seq, p.seq + p.len),
     eof |-> (p.kind = "eof"),
     ooo |-> r.ooo]

(* The packet starts where the received bytes end, or where an earlier packet
   that waits out of order ends. *)
Follows(r, p) ==
    \/ p.seq = r.next
    \/ \E q \in r.ooo : q.kind # "eof" /\ q.seq < p.seq /\ q.seq + q.len = p.seq

(* What the loop of processOOOPacketsLocked takes: it runs over the packets in
   the order of their sequence numbers and stops at the first gap. *)
Taken(r) == {p \in r.ooo : \A q \in r.ooo : q.seq <= p.seq => Follows(r, q)}

(* processOOOPacketsLocked in closed form: MCStreamClient has the loop itself, and
   the two are compared there.  Each packet taken begins where the one before it
   ends, so the bytes of them all are one run. *)
ProcessOOO(r) ==
    LET taken == IF r.eof THEN {} ELSE Taken(r)
        next == Max({r.next} \cup {p.seq + p.len : p \in taken})
        ended == r.eof \/ \E p \in taken : p.kind = "eof"
    IN  [next |-> next,
         buffer |-> r.buffer \o Bytes(r.next, next),
         eof |-> ended,
         ooo |-> IF ended THEN {} ELSE r.ooo \ taken]

Rwnd(buf) == AtLeast(0, ReadWindow - Len(buf))

SendAck(fin, cancel, seq, buf) ==
    /\ acks' = acks \cup {[seq |-> seq, rwnd |-> Rwnd(buf), fin |-> fin, cancel |-> cancel]}
    /\ lastRwndSent' = Rwnd(buf)

Receiving == ~rClosed /\ ~eof /\ rErr = "none"

(* An error packet is taken at once, whatever its sequence number. *)
RecvError(p) ==
    /\ Receiving /\ p.kind = "error"
    /\ rErr' = "error"
    /\ readPc' = Wake(readPc)
    /\ SendAck(TRUE, FALSE, rNextSeq, buffer)
    /\ UNCHANGED <<rNextSeq, buffer, eof, rClosed, oooPackets>>

RecvOutOfOrder(p) ==
    /\ Receiving /\ p.kind # "error" /\ p.seq > rNextSeq
    /\ oooPackets' = IF \E q \in oooPackets : q.seq = p.seq THEN oooPackets
                                                            ELSE oooPackets \cup {p}
    /\ UNCHANGED <<rNextSeq, buffer, eof, rErr, rClosed, lastRwndSent, readPc, acks>>

ReceivedAs(r) ==
    /\ rNextSeq' = r.next /\ buffer' = r.buffer /\ eof' = r.eof /\ oooPackets' = r.ooo
    /\ SendAck(r.eof, FALSE, r.next, r.buffer)
    /\ readPc' = Wake(readPc)
    /\ UNCHANGED <<rErr, rClosed>>

InOrder(p) == Receiving /\ p.kind # "error" /\ p.seq = rNextSeq

(* Mutation of RecvInOrder: what waits out of order is left waiting. *)
RecvInOrderAlone(p) == InOrder(p) /\ ReceivedAs(Accept(Receiver, p))

RecvInOrder(p) == InOrder(p) /\ ReceivedAs(ProcessOOO(Accept(Receiver, p)))

DropData(p) ==
    /\ ~Receiving \/ (p.kind # "error" /\ p.seq < rNextSeq)
    /\ UNCHANGED <<readerVars, acks>>

RecvData(p) ==
    /\ RecvError(p) \/ RecvOutOfOrder(p) \/ RecvInOrder(p) \/ DropData(p)
    /\ TakeFrom(packets, p, packets')
    /\ UNCHANGED <<writerVars, programVars>>

ReadReturnsData(len) ==
    LET n == AtMost(len, Len(buffer))
        rest == SubSeq(buffer, n + 1, Len(buffer))
    IN  /\ rErr = "none" /\ n > 0
        /\ buffer' = rest
        /\ delivered' = delivered + n
        /\ readPc' = "idle"
        /\ IF n = Len(buffer) \/ Rwnd(rest) - lastRwndSent >= RwndThreshold
           THEN SendAck(FALSE, FALSE, rNextSeq, rest)
           ELSE UNCHANGED <<acks, lastRwndSent>>
        /\ UNCHANGED result

ReadWaits ==
    /\ buffer = <<>> /\ ~eof /\ rErr = "none" /\ ~rClosed
    /\ readPc' = "waiting"
    /\ UNCHANGED <<buffer, lastRwndSent, acks, programVars>>

(* Mutation of ReadEnds: end of stream is reported with bytes still buffered. *)
ReadEndsEarly ==
    /\ rErr # "none" \/ eof
    /\ result' = IF rClosed THEN "closed" ELSE IF rErr # "none" THEN rErr ELSE "eof"
    /\ readPc' = "idle"
    /\ UNCHANGED <<buffer, lastRwndSent, acks, delivered>>

ReadEnds ==
    /\ rErr # "none" \/ (buffer = <<>> /\ eof)
    /\ result' = IF rClosed THEN "closed" ELSE IF rErr # "none" THEN rErr ELSE "eof"
    /\ readPc' = "idle"
    /\ UNCHANGED <<buffer, lastRwndSent, acks, delivered>>

(* Read, from the call or from the wake-up of the wait in it. *)
Read(len) ==
    /\ readPc \in {"idle", "ready"} /\ result = "open"
    /\ ReadReturnsData(len) \/ ReadWaits \/ ReadEnds
    /\ UNCHANGED <<rNextSeq, eof, rErr, rClosed, oooPackets, writerVars, packets,
                   repeats>>

CloseReader ==
    /\ ~rClosed
    /\ rClosed' = TRUE
    /\ rErr' = IF rErr = "none" THEN "closed" ELSE rErr
    /\ readPc' = Wake(readPc)
    /\ SendAck(FALSE, TRUE, rNextSeq, buffer)
    /\ UNCHANGED <<rNextSeq, buffer, eof, oooPackets, writerVars, packets, repeats,
                   programVars>>

-----------------------------------------------------------------------------

WritingProgram ==
    \/ \E len \in 1..MaxChunk : nextSeq + wBuffer + len <= MaxBytes /\ Write(len)
    \/ WriteResumes
    \/ \E kind \in {"eof", "error"} : CloseWithError(kind)

ReadingProgram == (\E len \in 1..MaxChunk : Read(len)) \/ CloseReader

Network == (\E p \in packets : RecvData(p)) \/ (\E ack \in acks : RecvAck(ack))

SCNext == WritingProgram \/ ReadingProgram \/ Network

SCSpec == NewStream /\ [][SCNext]_scVars

(* Woken calls run, the reading program reads on, and the network does not keep
   everything back: as finitely many packets are sent, each gets through. *)
Progress ==
    /\ WF_scVars(WriteResumes)
    /\ WF_scVars(\E len \in 1..MaxChunk : Read(len))
    /\ WF_scVars(\E p \in packets : RecvData(p) /\ p \notin packets')
    /\ WF_scVars(\E ack \in acks : RecvAck(ack) /\ ack \notin acks')

FairSCSpec == SCSpec /\ Progress

-----------------------------------------------------------------------------

(* The values every variable may take. *)
SCTypeOK ==
    /\ nextSeq \in 0..MaxBytes /\ wBuffer \in 0..MaxChunk
    /\ sentNotAcked \in 0..ReadWindow /\ readWindow \in 0..ReadWindow
    /\ maxAcked \in (0..MaxBytes) \X (0..ReadWindow)
    /\ canceled \in BOOLEAN /\ finAcked \in BOOLEAN /\ wErr \in BOOLEAN
    /\ wEnd \in {"open", "eof", "error"}
    /\ writePc \in {"idle", "waiting", "ready"}
    /\ rNextSeq \in 0..MaxBytes /\ eof \in BOOLEAN
    /\ rErr \in {"none", "error", "closed"} /\ rClosed \in BOOLEAN
    /\ lastRwndSent \in 0..ReadWindow
    /\ readPc \in {"idle", "waiting", "ready"}
    /\ delivered \in 0..MaxBytes
    /\ result \in {"open", "eof", "error", "closed"}

(* However packets are reordered and repeated, the Reader's buffer holds the
   next bytes of the stream, each once and in order, and nothing that waits out
   of order is stuck behind what has already been received. *)
BufferInOrder ==
    /\ rNextSeq = delivered + Len(buffer)
    /\ \A i \in 1..Len(buffer) : buffer[i] = delivered + i - 1
    /\ Receiving => \A p \in oooPackets : p.seq > rNextSeq

(* The bytes sent and not yet read never exceed the receive window, although ACKs
   with larger and smaller windows overtake each other: the memory of a stream
   is bounded by its window, what waits out of order included. *)
WithinWindow == nextSeq - delivered <= ReadWindow

(* No lost wake-up: a Read or Write that waits on its condition has nothing it
   could do. *)
WaitersHaveNoWork ==
    /\ readPc = "waiting" => buffer = <<>> /\ Receiving
    /\ writePc = "waiting" => wBuffer > 0 /\ Sendable(wBuffer) = 0 /\ ~wErr

(* A stream is a bounded first-in first-out pipe. *)
Pipe == INSTANCE StreamPipe WITH sent <- nextSeq, input <- wEnd, output <- result

(* Every step of the Writer, the Reader and the network is a step of the pipe:
   in particular end of stream is reported after the last byte sent. *)
ImplementsPipe == Pipe!PipeSpec

(* Flow control does not deadlock: with a program that reads on, a Write blocked
   on the window returns. *)
WritesReturn == writePc # "idle" ~> writePc = "idle"

(* A stream that is closed ends for its reader as well, without any
   retransmission. *)
StreamEnds == (wEnd # "open") ~> (result # "open")
=============================================================================
