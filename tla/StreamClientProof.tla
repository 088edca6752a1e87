-------------------------- MODULE StreamClientProof --------------------------
(***************************************************************************)
(* Proofs about one stream, for every receive window, number of bytes and  *)
(* order and repetition of its packets and ACKs: SCInv is inductive, and   *)
(* every step is a step of the pipe of module StreamPipe.  And at the end: *)
(* the closed form of out-of-order processing is what its loop computes.   *)
(***************************************************************************)
EXTENDS StreamClient, FiniteSetTheorems, SequenceTheorems,
        WellFoundedInduction, TLAPS

(* The groups of variables are always taken apart. *)
USE DEF writerVars, readerVars, programVars

Packet == [kind : {"data", "eof", "error"}, seq : Nat, len : Nat]

Ack == [seq : Nat, rwnd : Nat, fin : BOOLEAN, cancel : BOOLEAN]

(* Packets that may still become bytes of the Reader's buffer. *)
Pending == packets \cup oooPackets

(* Packets are pieces of what was sent, which never overlap; the last one of
   a closed stream says how it was closed. *)
SentPackets ==
    /\ Pending \subseteq Packet
    /\ \A p \in Pending : p.kind = "data" => p.len > 0 /\ p.seq + p.len <= nextSeq
    /\ \A p \in Pending : p.kind # "data" => p.kind = wEnd /\ p.seq = nextSeq /\ p.len = 0
    /\ \A p, q \in Pending : p.seq < q.seq => p.seq + p.len <= q.seq
    /\ \A p \in oooPackets : p.kind # "error"

(* An ACK announces no more room than the window leaves beyond what has been
   read, and keeps to it however late it comes. *)
SentAcks ==
    /\ acks \subseteq Ack
    /\ \A ack \in acks : /\ ack.seq <= rNextSeq /\ ack.rwnd <= ReadWindow
                         /\ ack.seq + ack.rwnd <= delivered + ReadWindow
                         /\ ack.fin => wClosed

(* The writer's account of what is in flight. *)
Credit ==
    /\ maxAcked[1] <= rNextSeq
    /\ wEnd = "open" => /\ sentNotAcked = nextSeq - maxAcked[1]
                        /\ maxAcked[1] + readWindow <= delivered + ReadWindow

(* A Write that returned without an error has sent its bytes. *)
WriterKeepsNothing ==
    /\ nextSeq + wBuffer <= MaxBytes
    /\ wClosed => wErr
    /\ writePc = "idle" /\ wBuffer > 0 => wErr

(* The Reader ends as the Writer ended. *)
EndsAgree ==
    /\ eof => wEnd = "eof" /\ rNextSeq = nextSeq
    /\ rErr = "error" => wEnd = "error"
    /\ rErr = "closed" => rClosed

SCInv ==
    /\ SCTypeOK
    /\ buffer \in Seq(Nat)
    /\ rNextSeq <= nextSeq
    /\ SentPackets
    /\ SentAcks
    /\ Credit
    /\ WriterKeepsNothing
    /\ EndsAgree
    /\ BufferInOrder
    /\ WithinWindow
    /\ WaitersHaveNoWork

-----------------------------------------------------------------------------
(* Initial states, and the Writer *)

LEMMA NewStreamInv == NewStream => SCInv
<1> SUFFICES ASSUME NewStream PROVE SCInv
  OBVIOUS
<1>1. ReadWindow \in Nat /\ MaxChunk \in Nat /\ MaxBytes \in Nat
  BY StreamAssumption
<1>2. Pending = {} /\ acks = {} /\ oooPackets = {} /\ buffer \in Seq(Nat) /\ Len(buffer) = 0
  BY DEF NewStream, Pending
<1>3. SCTypeOK
  <2>1. maxAcked \in (0..MaxBytes) \X (0..ReadWindow)
    BY <1>1 DEF NewStream
  <2>2. nextSeq \in 0..MaxBytes /\ wBuffer \in 0..MaxChunk /\ sentNotAcked \in 0..ReadWindow
        /\ readWindow \in 0..ReadWindow /\ rNextSeq \in 0..MaxBytes
        /\ lastRwndSent \in 0..ReadWindow /\ delivered \in 0..MaxBytes
    BY <1>1 DEF NewStream
  <2> QED BY <2>1, <2>2 DEF NewStream, SCTypeOK
<1>4. SentPackets /\ SentAcks
  BY <1>2 DEF SentPackets, SentAcks
<1>5. Credit /\ WriterKeepsNothing /\ EndsAgree
  BY <1>1 DEF NewStream, Credit, WriterKeepsNothing, EndsAgree, wClosed
<1>6. BufferInOrder /\ WithinWindow /\ WaitersHaveNoWork
  BY <1>1, <1>2 DEF NewStream, BufferInOrder, WithinWindow, WaitersHaveNoWork
<1> QED BY <1>1, <1>2, <1>3, <1>4, <1>5, <1>6 DEF SCInv, NewStream

(* What the window lets through: bytes that it has room for. *)
LEMMA SendableBounds ==
    ASSUME SCInv, NEW len \in Nat
    PROVE  /\ Sendable(len) \in 0..len
           /\ Sendable(len) > 0 => Sendable(len) <= readWindow - sentNotAcked
           /\ Sendable(len) < len => readWindow - sentNotAcked <= Sendable(len)
<1>1. readWindow \in Nat /\ sentNotAcked \in Nat
  BY StreamAssumption DEF SCInv, SCTypeOK
<1> QED BY <1>1 DEF Sendable, AtMost, AtLeast

(* The packet sent starts where all the others have ended. *)
LEMMA SendKeepsPackets ==
    ASSUME SCInv, ~wClosed, NEW n \in Nat,
           packets' = IF n > 0 THEN packets \cup {DataPacket(nextSeq, n)} ELSE packets,
           nextSeq' = nextSeq + n, UNCHANGED <<wEnd, oooPackets>>
    PROVE  SentPackets'
<1>1. nextSeq \in Nat
  BY StreamAssumption DEF SCInv, SCTypeOK
<1>2. \A p \in Pending : p \in Packet /\ p.kind = "data" /\ p.len > 0 /\ p.seq + p.len <= nextSeq
  BY DEF SCInv, SentPackets, wClosed, Packet
<1> DEFINE new == DataPacket(nextSeq, n)
<1>3. new \in Packet /\ new.kind = "data" /\ new.seq = nextSeq /\ new.len = n
  BY <1>1 DEF DataPacket, Packet
<1> HIDE DEF new
<1>4. Pending' = IF n > 0 THEN Pending \cup {new} ELSE Pending
  BY DEF Pending, new
<1>5. \A p \in Pending' : p \in Packet /\ p.kind = "data" /\ p.len > 0 /\ p.seq + p.len <= nextSeq'
  BY <1>1, <1>2, <1>3, <1>4 DEF Packet
<1>6. \A p, q \in Pending' : p.seq < q.seq => p.seq + p.len <= q.seq
  BY <1>1, <1>2, <1>3, <1>4 DEF SCInv, SentPackets, Packet
<1> QED BY <1>5, <1>6 DEF SCInv, SentPackets

(* Packets that arrive, or wait until others have, stay what they are. *)
LEMMA KeepsPackets ==
    ASSUME SCInv, packets' \subseteq packets, oooPackets' \subseteq Pending,
           \A p \in oooPackets' : p.kind # "error", UNCHANGED <<nextSeq, wEnd>>
    PROVE  SentPackets'
<1>1. Pending' \subseteq Pending
  BY DEF Pending
<1> QED BY <1>1 DEF SCInv, SentPackets

(* What has been announced stays announced as the reader goes on. *)
LEMMA KeepsAcks ==
    ASSUME SCInv, acks' \subseteq acks, wClosed => wClosed',
           rNextSeq' \in Nat, rNextSeq <= rNextSeq', delivered' \in Nat, delivered <= delivered'
    PROVE  SentAcks'
<1>1. rNextSeq \in Nat /\ delivered \in Nat /\ ReadWindow \in Nat
  BY StreamAssumption DEF SCInv, SCTypeOK
<1>2. \A ack \in acks' : /\ ack \in Ack /\ ack.seq \in Nat /\ ack.rwnd \in Nat
                         /\ ack.seq <= rNextSeq /\ ack.rwnd <= ReadWindow
                         /\ ack.seq + ack.rwnd <= delivered + ReadWindow
                         /\ ack.fin => wClosed
  BY DEF SCInv, SentAcks, Ack
<1>3. \A ack \in acks' : /\ ack.seq <= rNextSeq' /\ ack.rwnd <= ReadWindow
                         /\ ack.seq + ack.rwnd <= delivered' + ReadWindow
                         /\ ack.fin => wClosed'
  BY <1>1, <1>2
<1> QED BY <1>2, <1>3 DEF SentAcks

(* A Write that sends what it may and keeps the rest. *)
LEMMA SendKeeps ==
    ASSUME SCInv, ~wClosed, ~wErr, NEW len \in Nat, len <= MaxChunk,
           nextSeq + len <= MaxBytes, SendAndWait(len),
           UNCHANGED <<readWindow, maxAcked, canceled, finAcked, wErr, wEnd,
                       readerVars, acks, repeats, programVars>>
    PROVE  SCInv'
<1> DEFINE n == Sendable(len)
<1>1. /\ n \in 0..len /\ (n > 0 => n <= readWindow - sentNotAcked)
      /\ (n < len => readWindow - sentNotAcked <= n)
  BY SendableBounds
<1>2. /\ packets' = IF n > 0 THEN packets \cup {DataPacket(nextSeq, n)} ELSE packets
      /\ nextSeq' = nextSeq + n /\ sentNotAcked' = sentNotAcked + n
      /\ wBuffer' = len - n /\ writePc' = IF n < len THEN "waiting" ELSE "idle"
  BY DEF SendAndWait
<1> HIDE DEF n
<1>3. /\ nextSeq \in Nat /\ sentNotAcked \in 0..ReadWindow /\ readWindow \in 0..ReadWindow
      /\ rNextSeq \in Nat /\ delivered \in Nat /\ n \in Nat /\ maxAcked[1] \in Nat
      /\ MaxBytes \in Nat /\ MaxChunk \in Nat /\ ReadWindow \in Nat
  BY <1>1, StreamAssumption DEF SCInv, SCTypeOK
<1>4. SCTypeOK'
  <2>1. nextSeq' \in 0..MaxBytes /\ wBuffer' \in 0..MaxChunk /\ sentNotAcked' \in 0..ReadWindow
    BY <1>1, <1>2, <1>3
  <2>2. writePc' \in {"idle", "waiting", "ready"}
    BY <1>2
  <2> QED BY <2>1, <2>2 DEF SCInv, SCTypeOK
<1>5. SentPackets'
  BY <1>2, <1>3, SendKeepsPackets
<1>6. SentAcks'
  BY <1>3, KeepsAcks DEF wClosed
<1>7. wEnd = "open" /\ sentNotAcked = nextSeq - maxAcked[1] /\ maxAcked[1] <= rNextSeq
      /\ maxAcked[1] + readWindow <= delivered + ReadWindow
  BY DEF SCInv, Credit, wClosed
<1>8. Credit'
  BY <1>2, <1>3, <1>7 DEF Credit
<1>9. WriterKeepsNothing' /\ EndsAgree'
  <2>1. nextSeq' + wBuffer' <= MaxBytes /\ (writePc' = "idle" => wBuffer' = 0)
    BY <1>1, <1>2, <1>3
  <2>2. ~eof
    BY <1>7 DEF SCInv, EndsAgree
  <2> QED BY <2>1, <2>2 DEF SCInv, WriterKeepsNothing, EndsAgree, wClosed
<1>10. rNextSeq' <= nextSeq' /\ BufferInOrder'
  BY <1>2, <1>3 DEF SCInv, BufferInOrder, Receiving
<1>11. WithinWindow'
  <2>1. nextSeq - delivered <= ReadWindow /\ delivered' = delivered
    BY DEF SCInv, WithinWindow
  <2>2. nextSeq + n - delivered <= ReadWindow
    BY <1>1, <1>3, <1>7, <2>1
  <2> QED BY <1>2, <1>3, <2>1, <2>2 DEF WithinWindow
<1>12. WaitersHaveNoWork'
  <2>1. ASSUME n < len PROVE wBuffer' > 0 /\ Sendable(wBuffer)' = 0
    BY <2>1, <1>1, <1>2, <1>3 DEF Sendable, AtMost, AtLeast
  <2> QED BY <1>2, <2>1 DEF SCInv, WaitersHaveNoWork, Receiving
<1> QED BY <1>4, <1>5, <1>6, <1>8, <1>9, <1>10, <1>11, <1>12 DEF SCInv

LEMMA WriteKeeps ==
    ASSUME SCInv, NEW len \in 1..MaxChunk, nextSeq + wBuffer + len <= MaxBytes, Write(len)
    PROVE  SCInv'
<1>1. wBuffer = 0
  BY DEF SCInv, SCTypeOK, WriterKeepsNothing, Write
<1>2. nextSeq \in Nat
  BY DEF SCInv, SCTypeOK
<1> QED BY <1>1, <1>2, SendKeeps, StreamAssumption DEF Write

LEMMA WriteResumesKeeps ==
    ASSUME SCInv, WriteResumes
    PROVE  SCInv'
<1>1. CASE ~wClosed /\ ~wErr
  <2>1. wBuffer \in Nat /\ wBuffer <= MaxChunk /\ nextSeq + wBuffer <= MaxBytes
    BY StreamAssumption DEF SCInv, SCTypeOK, WriterKeepsNothing
  <2> QED BY <1>1, <2>1, SendKeeps DEF WriteResumes
<1>2. CASE wClosed \/ wErr
  <2>1. wErr /\ writePc' = "idle" /\ Pending' = Pending
        /\ UNCHANGED <<nextSeq, wBuffer, sentNotAcked, readWindow, maxAcked, canceled, finAcked,
                       wErr, wEnd, readerVars, packets, acks, programVars>>
    BY <1>2 DEF WriteResumes, SCInv, WriterKeepsNothing, Pending
  <2>2. SCTypeOK' /\ SentPackets' /\ SentAcks' /\ Credit'
    BY <2>1 DEF SCInv, SCTypeOK, SentPackets, SentAcks, Credit, wClosed
  <2>3. WriterKeepsNothing' /\ EndsAgree' /\ BufferInOrder' /\ WithinWindow' /\ WaitersHaveNoWork'
    BY <2>1 DEF SCInv, WriterKeepsNothing, EndsAgree, wClosed, BufferInOrder, Receiving, WithinWindow, WaitersHaveNoWork
  <2> QED BY <2>1, <2>2, <2>3 DEF SCInv
<1> QED BY <1>1, <1>2

LEMMA CloseWithErrorKeeps ==
    ASSUME SCInv, NEW kind \in {"eof", "error"}, CloseWithError(kind)
    PROVE  SCInv'
<1> DEFINE new == [kind |-> kind, seq |-> nextSeq, len |-> 0]
<1>1. /\ wEnd = "open" /\ wEnd' = kind /\ wErr' = TRUE /\ writePc' = Wake(writePc)
      /\ packets' = packets \cup {new}
      /\ UNCHANGED <<nextSeq, wBuffer, sentNotAcked, readWindow, maxAcked, canceled,
                     finAcked, readerVars, acks, programVars>>
  BY DEF CloseWithError, wClosed
<1>2. nextSeq \in Nat /\ rNextSeq \in Nat /\ delivered \in Nat
  BY DEF SCInv, SCTypeOK
<1>3. new \in Packet /\ new.kind = kind /\ new.seq = nextSeq /\ new.len = 0
  BY <1>2 DEF Packet
<1> HIDE DEF new
<1>4. writePc' \in {"idle", "ready"} /\ (writePc' = "ready" => writePc # "idle")
  BY <1>1 DEF Wake, SCInv, SCTypeOK
<1>5. SCTypeOK'
  BY <1>1, <1>4 DEF SCInv, SCTypeOK
<1>6. SentPackets'
  <2>1. Pending' = Pending \cup {new}
    BY <1>1 DEF Pending
  <2>2. \A p \in Pending : p \in Packet /\ p.kind = "data" /\ p.len > 0 /\ p.seq + p.len <= nextSeq
    BY <1>1 DEF SCInv, SentPackets, Packet
  <2>3. \A p \in Pending' : p \in Packet
    BY <1>3, <2>1, <2>2
  <2>4. \A p \in Pending' : p.kind = "data" => p.len > 0 /\ p.seq + p.len <= nextSeq
    BY <1>3, <2>1, <2>2
  <2>5. \A p \in Pending' : p.kind # "data" => p.kind = wEnd' /\ p.seq = nextSeq /\ p.len = 0
    BY <1>1, <1>3, <2>1, <2>2
  <2>6. \A p, q \in Pending' : p.seq < q.seq => p.seq + p.len <= q.seq
    BY <1>2, <1>3, <2>1, <2>2 DEF SCInv, SentPackets, Packet
  <2> QED BY <1>1, <2>3, <2>4, <2>5, <2>6 DEF SCInv, SentPackets
<1>7. SentAcks'
  BY <1>1, <1>2, KeepsAcks DEF wClosed
<1>8. Credit' /\ WriterKeepsNothing' /\ EndsAgree'
  BY <1>1, <1>4 DEF SCInv, Credit, WriterKeepsNothing, EndsAgree, wClosed
<1>9. BufferInOrder' /\ WithinWindow' /\ WaitersHaveNoWork'
  BY <1>1, <1>4 DEF SCInv, BufferInOrder, Receiving, WithinWindow, WaitersHaveNoWork
<1> QED BY <1>1, <1>5, <1>6, <1>7, <1>8, <1>9 DEF SCInv

-----------------------------------------------------------------------------
(* The Writer and an ACK *)

(* What the Writer's part of a step has to keep, when packets and ACKs are only
   taken and nothing happens to the reader. *)
LEMMA AckKeeps ==
    ASSUME SCInv, acks' \subseteq acks, SCTypeOK', Credit', WriterKeepsNothing',
           writePc' = "waiting" => wBuffer' > 0 /\ Sendable(wBuffer)' = 0 /\ ~wErr',
           UNCHANGED <<nextSeq, wEnd, readerVars, packets, programVars>>
    PROVE  SCInv'
<1>1. rNextSeq \in Nat /\ delivered \in Nat
  BY DEF SCInv, SCTypeOK
<1>2. SentPackets'
  BY KeepsPackets DEF SCInv, SentPackets, Pending
<1>3. SentAcks'
  BY <1>1, KeepsAcks DEF wClosed
<1>4. EndsAgree' /\ BufferInOrder' /\ WithinWindow' /\ WaitersHaveNoWork'
  BY DEF SCInv, EndsAgree, BufferInOrder, Receiving, WithinWindow, WaitersHaveNoWork
<1> QED BY <1>2, <1>3, <1>4 DEF SCInv

LEMMA RecvAckKeeps ==
    ASSUME SCInv, NEW ack \in acks, RecvAck(ack)
    PROVE  SCInv'
<1>1. acks' \subseteq acks /\ UNCHANGED <<readerVars, packets, programVars>>
  BY DEF RecvAck, TakeFrom
<1>2. /\ ack.seq \in Nat /\ ack.rwnd \in Nat /\ ack.seq <= rNextSeq /\ ack.rwnd <= ReadWindow
      /\ ack.seq + ack.rwnd <= delivered + ReadWindow /\ (ack.fin => wClosed)
  BY DEF SCInv, SentAcks, Ack
<1>3. /\ ReadWindow \in Nat /\ rNextSeq \in 0..MaxBytes /\ delivered \in Nat /\ nextSeq \in Nat
      /\ MaxBytes \in Nat /\ rNextSeq <= nextSeq
      /\ maxAcked \in (0..MaxBytes) \X (0..ReadWindow) /\ maxAcked[1] <= rNextSeq
      /\ sentNotAcked \in 0..ReadWindow /\ readWindow \in 0..ReadWindow
  BY StreamAssumption DEF SCInv, SCTypeOK, Credit
<1>4. CASE RecvFin(ack)
  <2>1. /\ wClosed /\ maxAcked' = <<ack.seq, maxAcked[2]>> /\ finAcked' = TRUE
        /\ UNCHANGED <<nextSeq, wBuffer, sentNotAcked, readWindow, canceled, wErr, wEnd, writePc>>
    BY <1>2, <1>4 DEF RecvFin
  <2>2. maxAcked' \in (0..MaxBytes) \X (0..ReadWindow) /\ maxAcked'[1] <= rNextSeq
    BY <1>2, <1>3, <2>1
  <2>3. SCTypeOK'
    BY <1>1, <2>1, <2>2 DEF SCInv, SCTypeOK
  <2>4. Credit' /\ WriterKeepsNothing'
    BY <1>1, <2>1, <2>2 DEF SCInv, Credit, WriterKeepsNothing, wClosed
  <2> QED BY <1>1, <2>1, <2>3, <2>4, AckKeeps DEF SCInv, WaitersHaveNoWork, Sendable
<1>5. CASE RecvCancel(ack)
  <2>1. /\ canceled' = TRUE /\ wErr' = TRUE /\ writePc' \in {"idle", "waiting", "ready"}
        /\ (writePc' = "idle" => writePc = "idle") /\ writePc' # "waiting"
        /\ UNCHANGED <<nextSeq, wBuffer, sentNotAcked, readWindow, maxAcked, finAcked, wEnd>>
    BY <1>5 DEF RecvCancel, Wake, SCInv, SCTypeOK, WriterKeepsNothing, WaitersHaveNoWork
  <2>2. SCTypeOK'
    BY <1>1, <2>1 DEF SCInv, SCTypeOK
  <2>3. Credit' /\ WriterKeepsNothing'
    BY <1>1, <2>1 DEF SCInv, Credit, WriterKeepsNothing, wClosed
  <2> QED BY <1>1, <2>1, <2>2, <2>3, AckKeeps
<1>6. CASE RecvDataAck(ack)
  <2>1. /\ maxAcked' = <<ack.seq, ack.rwnd>> /\ UNCHANGED <<nextSeq, wBuffer, canceled, finAcked, wErr, wEnd>>
    BY <1>6 DEF RecvDataAck
  <2>2. maxAcked[1] <= ack.seq
    BY <1>2, <1>3, <1>6 DEF RecvDataAck, Stale
  <2>3. maxAcked' \in (0..MaxBytes) \X (0..ReadWindow) /\ maxAcked'[1] = ack.seq
    BY <1>2, <1>3, <2>1
  <2>4. CASE wClosed
    <3>1. UNCHANGED <<sentNotAcked, readWindow, writePc>>
      BY <1>6, <2>4 DEF RecvDataAck
    <3>2. SCTypeOK'
      BY <1>1, <2>1, <2>3, <3>1 DEF SCInv, SCTypeOK
    <3>3. Credit' /\ WriterKeepsNothing'
      BY <1>1, <1>2, <2>1, <2>3, <2>4, <3>1 DEF SCInv, Credit, WriterKeepsNothing, wClosed
    <3> QED BY <1>1, <2>1, <3>1, <3>2, <3>3, AckKeeps DEF SCInv, WaitersHaveNoWork, Sendable
  <2>5. CASE ~wClosed
    <3>1. /\ sentNotAcked' = AtMost(sentNotAcked, AtLeast(0, nextSeq - ack.seq))
          /\ readWindow' = ack.rwnd /\ writePc' = Wake(writePc)
      BY <1>6, <2>5 DEF RecvDataAck
    <3>2. sentNotAcked = nextSeq - maxAcked[1]
      BY <2>5 DEF SCInv, Credit, wClosed
    <3>3. sentNotAcked' = nextSeq - ack.seq
      BY <1>2, <1>3, <2>2, <3>1, <3>2 DEF AtMost, AtLeast
    <3>4. sentNotAcked' \in 0..ReadWindow /\ readWindow' \in 0..ReadWindow
      BY <1>2, <1>3, <2>2, <3>1, <3>2, <3>3
    <3>5. writePc' \in {"idle", "ready"} /\ (writePc' = "idle" => writePc = "idle")
      BY <3>1 DEF Wake, SCInv, SCTypeOK
    <3>6. SCTypeOK'
      BY <1>1, <2>1, <2>3, <3>4, <3>5 DEF SCInv, SCTypeOK
    <3>7. Credit' /\ WriterKeepsNothing'
      BY <1>1, <1>2, <2>1, <2>3, <3>1, <3>3, <3>5 DEF SCInv, Credit, WriterKeepsNothing, wClosed
    <3> QED BY <1>1, <2>1, <3>5, <3>6, <3>7, AckKeeps
  <2> QED BY <2>4, <2>5
<1>7. CASE IgnoreAck(ack)
  <2>1. UNCHANGED writerVars
    BY <1>7 DEF IgnoreAck
  <2>2. SCTypeOK' /\ Credit' /\ WriterKeepsNothing'
    BY <1>1, <2>1 DEF SCInv, SCTypeOK, Credit, WriterKeepsNothing, wClosed
  <2> QED BY <1>1, <2>1, <2>2, AckKeeps DEF SCInv, WaitersHaveNoWork, Sendable
<1> QED BY <1>4, <1>5, <1>6, <1>7 DEF RecvAck

-----------------------------------------------------------------------------
(* What the Reader does with packets that waited out of order *)

(* A finite set of numbers has a largest: the one that the fewest are above. *)
LEMMA MaxOfFinite ==
    ASSUME NEW S, S \subseteq Nat, S # {}, IsFiniteSet(S)
    PROVE  Max(S) \in S /\ \A k \in S : k <= Max(S)
<1> DEFINE above(n) == {k \in S : k > n}
           sets     == {above(n) : n \in S}
<1>1. sets \subseteq FiniteSubsetsOf(S) /\ sets # {}
  <2>1. \A n \in S : above(n) \subseteq S /\ IsFiniteSet(above(n))
    BY FS_Subset
  <2>2. \A n \in S : above(n) \in FiniteSubsetsOf(S)
    BY <2>1, Zenon DEF FiniteSubsetsOf
  <2> HIDE DEF above
  <2> QED BY <2>2
<1>2. PICK A \in sets : \A B \in sets : ~ (<<B, A>> \in StrictSubsetOrdering(S))
  <2> HIDE DEF sets
  <2> QED BY <1>1, WFMin, FS_StrictSubsetOrderingWellFounded
<1>3. PICK n \in S : A = above(n)
  BY <1>2
<1>4. ASSUME NEW k \in S, k > n PROVE FALSE
  <2>0. \A j \in S : j > k => j > n
    BY <1>4
  <2>1. above(k) \subseteq above(n)
    BY <2>0, Zenon
  <2>2. k \in above(n) /\ k \notin above(k)
    BY <1>4
  <2>3. <<above(k), above(n)>> \in StrictSubsetOrdering(S)
    BY <2>1, <2>2 DEF StrictSubsetOrdering
  <2> QED BY <1>2, <1>3, <2>3
<1>5. \A k \in S : n >= k
  BY <1>4
<1>6. Max(S) \in S /\ \A k \in S : Max(S) >= k
  BY <1>5 DEF Max
<1> QED BY <1>6

LEMMA MaxOfBounded ==
    ASSUME NEW m \in Nat, NEW S, S \subseteq 0..m, S # {}
    PROVE  Max(S) \in S /\ \A k \in S : k <= Max(S)
<1>1. IsFiniteSet(0..m)
  BY FS_Interval
<1>2. IsFiniteSet(S)
  BY <1>1, FS_Subset
<1>3. S \subseteq Nat
  OBVIOUS
<1> QED BY <1>2, <1>3, MaxOfFinite

(* Every set of naturals has a least member. *)
LEMMA LeastOf ==
    ASSUME NEW S, S \subseteq Nat, S # {}
    PROVE  \E n \in S : \A k \in S : n <= k
<1>1. PICK m \in S : TRUE
  OBVIOUS
<1> DEFINE below == {m - k : k \in {j \in S : j <= m}}
<1>2. below \subseteq 0..m /\ below # {} /\ m \in Nat
  <2>1. m - m \in below
    OBVIOUS
  <2> QED BY <2>1
<1>3. PICK d \in below : \A k \in below : k <= d
  BY <1>2, MaxOfBounded
<1>4. PICK n \in S : n <= m /\ d = m - n
  BY <1>3
<1>5. ASSUME NEW k \in S PROVE n <= k
  <2>1. CASE k > m
    BY <1>4, <2>1
  <2>2. CASE k <= m
    <3>1. m - k \in below
      BY <2>2
    <3> QED BY <1>3, <1>4, <3>1
  <2> QED BY <2>1, <2>2
<1> QED BY <1>5

LEMMA BytesType ==
    ASSUME NEW from \in Nat, NEW to \in Nat, from <= to
    PROVE  /\ Bytes(from, to) \in Seq(Nat) /\ Len(Bytes(from, to)) = to - from
           /\ \A i \in 1..(to - from) : Bytes(from, to)[i] = from + i - 1
<1>1. to - from \in Nat /\ \A i \in 1..(to - from) : from + i - 1 \in Nat
  OBVIOUS
<1> QED BY <1>1 DEF Bytes

(* A run of bytes that ends where the next one begins goes on as one run. *)
LEMMA RunGoesOn ==
    ASSUME NEW start \in Nat, NEW buf \in Seq(Nat),
           \A i \in 1..Len(buf) : buf[i] = start + i - 1,
           NEW to \in Nat, start + Len(buf) <= to
    PROVE  LET more == buf \o Bytes(start + Len(buf), to)
           IN  /\ more \in Seq(Nat) /\ Len(more) = to - start
               /\ \A i \in 1..Len(more) : more[i] = start + i - 1
<1> DEFINE n == Len(buf)
           tail == Bytes(start + n, to)
<1>1. n \in Nat /\ start + n \in Nat /\ start + n <= to
  OBVIOUS
<1>2. /\ tail \in Seq(Nat) /\ Len(tail) = to - (start + n)
      /\ \A i \in 1..(to - (start + n)) : tail[i] = start + n + i - 1
  <2> HIDE DEF n
  <2> QED BY <1>1, BytesType
<1> HIDE DEF tail
<1>3. /\ buf \o tail \in Seq(Nat) /\ Len(buf \o tail) = n + Len(tail)
      /\ \A i \in 1..n : (buf \o tail)[i] = buf[i]
      /\ \A i \in (n + 1)..(n + Len(tail)) : (buf \o tail)[i] = tail[i - n]
  BY <1>2
<1>4. \A i \in 1..n : buf[i] = start + i - 1
  OBVIOUS
<1> HIDE DEF n
<1>5. n + Len(tail) = to - start
  BY <1>1, <1>2
<1>6. ASSUME NEW i \in 1..(to - start), i > n PROVE (buf \o tail)[i] = start + i - 1
  <2>1. i \in (n + 1)..(n + Len(tail)) /\ i - n \in 1..(to - (start + n))
    BY <1>1, <1>2, <1>5, <1>6
  <2>2. (buf \o tail)[i] = tail[i - n] /\ tail[i - n] = start + n + (i - n) - 1
    BY <1>2, <1>3, <2>1
  <2> QED BY <1>1, <2>2
<1>7. \A i \in 1..(to - start) : (buf \o tail)[i] = start + i - 1
  <2>1. ASSUME NEW i \in 1..(to - start), ~(i > n) PROVE (buf \o tail)[i] = start + i - 1
    <3>1. i \in 1..n
      BY <1>1, <2>1
    <3> QED BY <1>3, <1>4, <3>1
  <2> QED BY <1>6, <2>1
<1> QED BY <1>3, <1>5, <1>7 DEF tail, n

(* The loop leaves nothing behind that it could have taken, and an EOF it takes
   is the end of everything. *)
LEMMA ProcessTakes ==
    ASSUME NEW r, r.next \in Nat, r.eof \in BOOLEAN, r.ooo \subseteq Packet,
           NEW m \in Nat, r.next <= m, r.eof => r.next = m,
           \A p \in r.ooo : p.seq >= r.next,
           \A p \in r.ooo : p.kind = "data" => p.seq + p.len <= m,
           \A p \in r.ooo : p.kind # "data" => p.kind = "eof" /\ p.seq = m /\ p.len = 0,
           \A p, q \in r.ooo : p.seq < q.seq => p.seq + p.len <= q.seq
    PROVE  LET s == ProcessOOO(r)
           IN  /\ s.next \in r.next..m
               /\ s.buffer = r.buffer \o Bytes(r.next, s.next)
               /\ s.ooo \subseteq r.ooo
               /\ s.eof \in BOOLEAN
               /\ s.eof => s.next = m /\ (r.eof \/ \E p \in r.ooo : p.kind = "eof")
               /\ ~s.eof => \A p \in s.ooo : p.seq > s.next
<1> DEFINE taken == IF r.eof THEN {} ELSE Taken(r)
           ends  == {p.seq + p.len : p \in taken}
           next  == Max({r.next} \cup ends)
           ended == r.eof \/ \E p \in taken : p.kind = "eof"
<1>1. ProcessOOO(r) = [next |-> next, buffer |-> r.buffer \o Bytes(r.next, next), eof |-> ended,
                       ooo |-> IF ended THEN {} ELSE r.ooo \ taken]
  BY DEF ProcessOOO
<1>2. taken \subseteq r.ooo
  BY DEF Taken
<1>3. \A p \in r.ooo : p.seq \in Nat /\ p.len \in Nat /\ r.next <= p.seq /\ p.seq + p.len <= m
  BY DEF Packet
<1>4. {r.next} \cup ends \subseteq 0..m /\ \A e \in ends : e >= r.next
  BY <1>2, <1>3
<1>5. next \in {r.next} \cup ends /\ \A k \in {r.next} \cup ends : k <= next
  <2> HIDE DEF ends
  <2> QED BY <1>4, MaxOfBounded
<1> HIDE DEF next
<1>6. next \in r.next..m
  BY <1>4, <1>5
<1>7. ended => next = m /\ (r.eof \/ \E p \in r.ooo : p.kind = "eof")
  <2>1. CASE r.eof
    BY <1>6, <2>1
  <2>2. ASSUME NEW p \in taken, p.kind = "eof" PROVE next = m
    <3>1. p.seq + p.len = m /\ p.seq + p.len \in ends
      BY <1>2, <1>3, <2>2
    <3> QED BY <1>5, <1>6, <3>1
  <2> QED BY <1>2, <2>1, <2>2
<1>8. ASSUME ~ended, NEW p \in r.ooo, p \notin taken PROVE p.seq > next
  <2>0. taken = Taken(r)
    BY <1>8
  <2>1. PICK q \in r.ooo : q.seq <= p.seq /\ ~Follows(r, q)
    BY <1>8, <2>0 DEF Taken
  <2>2. q.seq # r.next /\ \A o \in r.ooo : o.kind # "eof" /\ o.seq < q.seq => o.seq + o.len # q.seq
    BY <2>1 DEF Follows
  <2>3. CASE next = r.next
    BY <1>3, <2>1, <2>2, <2>3
  <2>4. ASSUME NEW t \in taken, next = t.seq + t.len PROVE p.seq > next
    <3>1. t \in r.ooo /\ t.kind # "eof" /\ (q.seq <= t.seq => Follows(r, q))
      BY <1>2, <1>8, <2>0 DEF Taken
    <3>2. t.seq < q.seq
      BY <1>3, <2>1, <3>1
    <3>3. t.seq + t.len <= q.seq /\ t.seq + t.len # q.seq
      BY <2>2, <3>1, <3>2
    <3> QED BY <1>3, <2>1, <2>4, <3>1, <3>3
  <2> QED BY <1>5, <2>3, <2>4
<1>10. ended \in BOOLEAN
  OBVIOUS
<1> DEFINE rest == IF ended THEN {} ELSE r.ooo \ taken
           bytes == r.buffer \o Bytes(r.next, next)
<1>11. ProcessOOO(r) = [next |-> next, buffer |-> bytes, eof |-> ended, ooo |-> rest]
  BY <1>1
<1>12. rest \subseteq r.ooo /\ (~ended => \A p \in rest : p.seq > next)
  BY <1>8
<1> HIDE DEF ended, rest, bytes
<1>9. /\ ProcessOOO(r).next = next /\ ProcessOOO(r).buffer = bytes
      /\ ProcessOOO(r).eof = ended /\ ProcessOOO(r).ooo = rest
  BY <1>11
<1> QED BY <1>6, <1>7, <1>9, <1>10, <1>12 DEF bytes

-----------------------------------------------------------------------------
(* The Reader *)

(* An ACK announces the room that is left. *)
LEMMA AnnounceKeeps ==
    ASSUME SCInv, NEW fin \in BOOLEAN, NEW cancel \in BOOLEAN,
           NEW next \in Nat, NEW buf \in Seq(Nat), SendAck(fin, cancel, next, buf),
           rNextSeq' = next, rNextSeq <= next, delivered' \in Nat, delivered <= delivered',
           next = delivered' + Len(buf), Len(buf) <= ReadWindow,
           fin => wClosed', wClosed => wClosed'
    PROVE  SentAcks' /\ lastRwndSent' \in 0..ReadWindow
<1> DEFINE ack == [seq |-> next, rwnd |-> Rwnd(buf), fin |-> fin, cancel |-> cancel]
           n == Len(buf)
<1>1. n \in Nat /\ ReadWindow \in Nat /\ rNextSeq \in Nat /\ delivered \in Nat
  BY StreamAssumption DEF SCInv, SCTypeOK
<1>2. Rwnd(buf) = ReadWindow - n /\ n <= ReadWindow /\ next = delivered' + n
  BY <1>1 DEF Rwnd, AtLeast
<1> HIDE DEF n
<1>3. Rwnd(buf) \in 0..ReadWindow /\ next + Rwnd(buf) = delivered' + ReadWindow
  <2>1. ReadWindow - n \in 0..ReadWindow
    BY <1>1, <1>2
  <2>2. (delivered' + n) + (ReadWindow - n) = delivered' + ReadWindow
    BY <1>1
  <2> QED BY <1>2, <2>1, <2>2
<1>4. ack \in Ack
  BY <1>3 DEF Ack
<1>5. ack.seq = next /\ ack.rwnd = Rwnd(buf) /\ (ack.fin => wClosed')
  OBVIOUS
<1>6. acks' = acks \cup {ack} /\ lastRwndSent' = Rwnd(buf)
  BY DEF SendAck
<1> HIDE DEF ack
<1>7. \A a \in acks : /\ a \in Ack /\ a.seq \in Nat /\ a.rwnd \in Nat
                      /\ a.seq <= rNextSeq /\ a.rwnd <= ReadWindow
                      /\ a.seq + a.rwnd <= delivered + ReadWindow
                      /\ a.fin => wClosed
  BY DEF SCInv, SentAcks, Ack
<1>8. \A a \in acks : /\ a.seq <= next /\ a.rwnd <= ReadWindow
                      /\ a.seq + a.rwnd <= delivered' + ReadWindow
                      /\ a.fin => wClosed'
  BY <1>1, <1>7
<1>9. \A a \in acks' : /\ a \in Ack /\ a.seq <= next /\ a.rwnd <= ReadWindow
                       /\ a.seq + a.rwnd <= delivered' + ReadWindow
                       /\ a.fin => wClosed'
  BY <1>1, <1>3, <1>4, <1>5, <1>6, <1>7, <1>8
<1> QED BY <1>3, <1>6, <1>9 DEF SentAcks

(* The sizes that the window relates. *)
LEMMA ReaderSizes ==
    ASSUME SCInv
    PROVE  /\ Len(buffer) \in Nat /\ Len(buffer) <= ReadWindow /\ rNextSeq = delivered + Len(buffer)
           /\ rNextSeq \in Nat /\ delivered \in Nat /\ nextSeq \in Nat /\ rNextSeq <= nextSeq
           /\ ReadWindow \in Nat /\ nextSeq <= delivered + ReadWindow /\ nextSeq <= MaxBytes
           /\ MaxBytes \in Nat /\ maxAcked[1] \in Nat /\ readWindow \in Nat
<1> DEFINE n == Len(buffer)
<1>1. /\ n \in Nat /\ rNextSeq = delivered + n /\ rNextSeq \in Nat /\ delivered \in Nat
      /\ nextSeq \in Nat /\ rNextSeq <= nextSeq /\ ReadWindow \in Nat
      /\ nextSeq - delivered <= ReadWindow /\ nextSeq \in 0..MaxBytes /\ MaxBytes \in Nat
      /\ maxAcked[1] \in Nat /\ readWindow \in Nat
  BY StreamAssumption DEF SCInv, SCTypeOK, BufferInOrder, WithinWindow
<1> HIDE DEF n
<1>2. n <= ReadWindow /\ nextSeq <= delivered + ReadWindow
  BY <1>1
<1> QED BY <1>1, <1>2 DEF n

(* What a step of the Reader has to keep when the reading program gets nothing. *)
LEMMA ReaderKeeps ==
    ASSUME SCInv, UNCHANGED <<writerVars, programVars>>, packets' \subseteq packets,
           oooPackets' \subseteq Pending, \A p \in oooPackets' : p.kind # "error",
           SentAcks', lastRwndSent' \in 0..ReadWindow,
           rNextSeq' \in Nat, rNextSeq <= rNextSeq', rNextSeq' <= nextSeq, buffer' \in Seq(Nat),
           eof' \in BOOLEAN, rErr' \in {"none", "error", "closed"}, rClosed' \in BOOLEAN,
           readPc' \in {"idle", "waiting", "ready"},
           EndsAgree', BufferInOrder', readPc' = "waiting" => buffer' = <<>> /\ Receiving'
    PROVE  SCInv'
<1>1. SCTypeOK'
  <2>1. rNextSeq' \in 0..MaxBytes
    BY ReaderSizes
  <2> QED BY <2>1 DEF SCInv, SCTypeOK
<1>2. SentPackets'
  BY KeepsPackets
<1>3. Credit' /\ WriterKeepsNothing' /\ WithinWindow'
  BY ReaderSizes DEF SCInv, Credit, WriterKeepsNothing, wClosed, WithinWindow
<1>4. WaitersHaveNoWork'
  BY DEF SCInv, WaitersHaveNoWork, Sendable
<1> QED BY <1>1, <1>2, <1>3, <1>4 DEF SCInv

(* A woken Read is not waiting. *)
LEMMA WakeWakes ==
    ASSUME SCInv
    PROVE  Wake(readPc) \in {"idle", "waiting", "ready"} /\ Wake(readPc) # "waiting"
BY DEF Wake, SCInv, SCTypeOK

LEMMA RecvErrorKeeps ==
    ASSUME SCInv, NEW p \in packets, RecvError(p), packets' \subseteq packets,
           UNCHANGED <<writerVars, programVars>>
    PROVE  SCInv'
<1>1. /\ ~rClosed /\ ~eof /\ rErr' = "error" /\ readPc' = Wake(readPc)
      /\ SendAck(TRUE, FALSE, rNextSeq, buffer)
      /\ UNCHANGED <<rNextSeq, buffer, eof, rClosed, oooPackets>>
  BY DEF RecvError, Receiving
<1>2. wEnd = "error"
  BY DEF RecvError, SCInv, SentPackets, Pending
<1>3. SentAcks' /\ lastRwndSent' \in 0..ReadWindow
  <2>1. wClosed' /\ (wClosed => wClosed') /\ delivered' = delivered /\ buffer \in Seq(Nat)
    BY <1>2 DEF SCInv, wClosed
  <2>2. /\ rNextSeq \in Nat /\ rNextSeq' = rNextSeq /\ rNextSeq <= rNextSeq
        /\ delivered' \in Nat /\ delivered <= delivered'
        /\ rNextSeq = delivered' + Len(buffer) /\ Len(buffer) <= ReadWindow
    BY <1>1, <2>1, ReaderSizes
  <2>3. TRUE \in BOOLEAN /\ FALSE \in BOOLEAN
    OBVIOUS
  <2> QED BY <1>1, <2>1, <2>2, <2>3, AnnounceKeeps, Zenon
<1>4. EndsAgree' /\ BufferInOrder'
  BY <1>1, <1>2 DEF SCInv, EndsAgree, BufferInOrder, Receiving
<1>5. oooPackets' \subseteq Pending /\ \A q \in oooPackets' : q.kind # "error"
  BY <1>1 DEF SCInv, SentPackets, Pending
<1> QED BY <1>1, <1>3, <1>4, <1>5, WakeWakes, ReaderSizes, ReaderKeeps DEF SCInv, SCTypeOK

LEMMA RecvOutOfOrderKeeps ==
    ASSUME SCInv, NEW p \in packets, RecvOutOfOrder(p), packets' \subseteq packets,
           UNCHANGED <<writerVars, programVars>>
    PROVE  SCInv'
<1>1. /\ p.kind # "error" /\ p.seq > rNextSeq /\ oooPackets' \subseteq oooPackets \cup {p}
      /\ UNCHANGED <<rNextSeq, buffer, eof, rErr, rClosed, lastRwndSent, readPc, acks>>
  BY DEF RecvOutOfOrder
<1>2. SentAcks' /\ lastRwndSent' \in 0..ReadWindow
  BY <1>1, ReaderSizes, KeepsAcks DEF SCInv, SCTypeOK, wClosed
<1>3. EndsAgree' /\ BufferInOrder'
  BY <1>1 DEF SCInv, EndsAgree, BufferInOrder, Receiving
<1>4. oooPackets' \subseteq Pending /\ \A q \in oooPackets' : q.kind # "error"
  BY <1>1 DEF SCInv, SentPackets, Pending
<1>5. readPc' = "waiting" => buffer' = <<>> /\ Receiving'
  BY <1>1 DEF SCInv, WaitersHaveNoWork, Receiving
<1> QED BY <1>1, <1>2, <1>3, <1>4, <1>5, ReaderSizes, ReaderKeeps DEF SCInv, SCTypeOK

LEMMA DropDataKeeps ==
    ASSUME SCInv, NEW p \in packets, DropData(p), packets' \subseteq packets,
           UNCHANGED <<writerVars, programVars>>
    PROVE  SCInv'
<1>1. UNCHANGED <<readerVars, acks>>
  BY DEF DropData
<1>2. SentAcks' /\ lastRwndSent' \in 0..ReadWindow
  BY <1>1, ReaderSizes, KeepsAcks DEF SCInv, SCTypeOK, wClosed
<1>3. EndsAgree' /\ BufferInOrder'
  BY <1>1 DEF SCInv, EndsAgree, BufferInOrder, Receiving
<1>4. oooPackets' \subseteq Pending /\ \A q \in oooPackets' : q.kind # "error"
  BY <1>1 DEF SCInv, SentPackets, Pending
<1>5. readPc' = "waiting" => buffer' = <<>> /\ Receiving'
  BY <1>1 DEF SCInv, WaitersHaveNoWork, Receiving
<1> QED BY <1>1, <1>2, <1>3, <1>4, <1>5, ReaderSizes, ReaderKeeps DEF SCInv, SCTypeOK

(* The packet that was expected, and all that it lets through. *)
LEMMA RecvInOrderKeeps ==
    ASSUME SCInv, NEW p \in packets, RecvInOrder(p), packets' \subseteq packets,
           UNCHANGED <<writerVars, programVars>>
    PROVE  SCInv'
<1> DEFINE r == Accept(Receiver, p)
           s == ProcessOOO(r)
<1>1. /\ ~rClosed /\ ~eof /\ rErr = "none" /\ p.kind # "error" /\ p.seq = rNextSeq
      /\ rNextSeq' = s.next /\ buffer' = s.buffer /\ eof' = s.eof /\ oooPackets' = s.ooo
      /\ SendAck(s.eof, FALSE, s.next, s.buffer)
      /\ readPc' = Wake(readPc) /\ UNCHANGED <<rErr, rClosed>>
  BY DEF RecvInOrder, InOrder, ReceivedAs, Receiving
<1> DEFINE end == p.seq + p.len
<1>2. /\ p.seq \in Nat /\ p.len \in Nat /\ end <= nextSeq /\ p.kind \in {"data", "eof"}
      /\ (p.kind = "data" => p.len > 0)
      /\ (p.kind = "eof" => wEnd = "eof" /\ p.seq = nextSeq /\ p.len = 0)
  BY <1>1, ReaderSizes DEF SCInv, SentPackets, Pending, Packet
<1>3. /\ r.next = end /\ r.buffer = buffer \o Bytes(rNextSeq, end)
      /\ r.eof = (p.kind = "eof") /\ r.ooo = oooPackets
  BY <1>1 DEF Accept, Receiver
<1> HIDE DEF r, end
<1>4. \A q \in oooPackets : /\ q \in Packet /\ q.seq > rNextSeq /\ q.kind # "error" /\ q \in Pending
                            /\ (q.kind = "data" => q.seq + q.len <= nextSeq)
                            /\ (q.kind # "data" => q.kind = "eof" /\ wEnd = "eof" /\ q.seq = nextSeq /\ q.len = 0)
  BY <1>1 DEF SCInv, BufferInOrder, Receiving, SentPackets, Pending, Packet
<1>5. \A q \in oooPackets : q.seq >= end
  <2>1. p \in Pending /\ rNextSeq \in Nat
    BY ReaderSizes DEF Pending
  <2> QED BY <1>1, <1>2, <1>4, <2>1 DEF SCInv, SentPackets, end
<1>6. \A q, q2 \in oooPackets : q.seq < q2.seq => q.seq + q.len <= q2.seq
  BY DEF SCInv, SentPackets, Pending
<1>7. end \in Nat /\ rNextSeq <= end /\ nextSeq \in Nat /\ (p.kind = "eof" => end = nextSeq)
  BY <1>1, <1>2, ReaderSizes DEF end
<1>8. /\ s.next \in end..nextSeq
      /\ s.buffer = (buffer \o Bytes(rNextSeq, end)) \o Bytes(end, s.next)
      /\ s.ooo \subseteq oooPackets
      /\ s.eof \in BOOLEAN
      /\ s.eof => s.next = nextSeq /\ (p.kind = "eof" \/ \E q \in oooPackets : q.kind = "eof")
      /\ ~s.eof => \A q \in s.ooo : q.seq > s.next
  <2>1. r.next \in Nat /\ r.eof \in BOOLEAN /\ r.ooo \subseteq Packet /\ r.next <= nextSeq
        /\ (r.eof => r.next = nextSeq)
    BY <1>2, <1>3, <1>4, <1>7
  <2>2. \A q \in r.ooo : q.seq >= r.next
    BY <1>3, <1>5
  <2>3. \A q \in r.ooo : q.kind = "data" => q.seq + q.len <= nextSeq
    BY <1>3, <1>4
  <2>4. \A q \in r.ooo : q.kind # "data" => q.kind = "eof" /\ q.seq = nextSeq /\ q.len = 0
    BY <1>3, <1>4
  <2>5. \A q, q2 \in r.ooo : q.seq < q2.seq => q.seq + q.len <= q2.seq
    BY <1>3, <1>6
  <2> HIDE DEF s
  <2> QED BY <1>3, <1>7, <2>1, <2>2, <2>3, <2>4, <2>5, ProcessTakes DEF s
<1> HIDE DEF s
<1>9. /\ buffer' \in Seq(Nat) /\ Len(buffer') = rNextSeq' - delivered
      /\ \A i \in 1..Len(buffer') : buffer'[i] = delivered + i - 1
  <2>1. \A i \in 1..Len(buffer) : buffer[i] = delivered + i - 1
    BY DEF SCInv, BufferInOrder
  <2> DEFINE one == buffer \o Bytes(rNextSeq, end)
  <2>2. one \in Seq(Nat) /\ Len(one) = end - delivered /\ \A i \in 1..Len(one) : one[i] = delivered + i - 1
    <3>1. rNextSeq = delivered + Len(buffer) /\ delivered \in Nat
      BY ReaderSizes
    <3>2. buffer \in Seq(Nat) /\ end \in Nat /\ delivered + Len(buffer) <= end
      BY <1>7, <3>1 DEF SCInv
    <3>3. LET more == buffer \o Bytes(delivered + Len(buffer), end)
          IN  /\ more \in Seq(Nat) /\ Len(more) = end - delivered
              /\ \A i \in 1..Len(more) : more[i] = delivered + i - 1
      BY <2>1, <3>1, <3>2, RunGoesOn
    <3> QED BY <3>1, <3>3
  <2> DEFINE n == Len(one)
  <2>3. end = delivered + n /\ end <= s.next /\ s.next \in Nat
    BY <1>7, <1>8, <2>2, ReaderSizes
  <2> HIDE DEF one
  <2>4. LET more == one \o Bytes(delivered + n, s.next)
        IN  /\ more \in Seq(Nat) /\ Len(more) = s.next - delivered
            /\ \A i \in 1..Len(more) : more[i] = delivered + i - 1
    BY <2>2, <2>3, ReaderSizes, RunGoesOn
  <2> QED BY <1>1, <1>8, <2>3, <2>4 DEF one
<1>10. rNextSeq' \in Nat /\ rNextSeq <= rNextSeq' /\ rNextSeq' <= nextSeq
  BY <1>1, <1>7, <1>8, ReaderSizes
<1>11. eof' => wEnd = "eof" /\ rNextSeq' = nextSeq
  BY <1>1, <1>2, <1>4, <1>8
<1>12. rNextSeq' = delivered + Len(buffer') /\ Len(buffer') <= ReadWindow
  <2> DEFINE n == Len(buffer')
  <2>1. n = rNextSeq' - delivered /\ n \in Nat
    BY <1>9
  <2> HIDE DEF n
  <2>2. rNextSeq' = delivered + n /\ n <= ReadWindow
    BY <1>10, <2>1, ReaderSizes
  <2> QED BY <2>2 DEF n
<1>13. SentAcks' /\ lastRwndSent' \in 0..ReadWindow
  <2>1. eof' \in BOOLEAN /\ SendAck(eof', FALSE, rNextSeq', buffer')
    BY <1>1, <1>8
  <2>2. (eof' => wClosed') /\ (wClosed => wClosed')
    BY <1>11 DEF wClosed
  <2>3. delivered' \in Nat /\ delivered <= delivered' /\ rNextSeq' = delivered' + Len(buffer')
    BY <1>12, ReaderSizes
  <2> QED BY <1>9, <1>10, <1>12, <2>1, <2>2, <2>3, AnnounceKeeps
<1>14. EndsAgree' /\ BufferInOrder'
  <2>1. EndsAgree'
    BY <1>1, <1>11 DEF EndsAgree
  <2>2. Receiving' => \A q \in oooPackets' : q.seq > rNextSeq'
    BY <1>1, <1>8 DEF Receiving
  <2> QED BY <1>9, <1>12, <2>1, <2>2 DEF BufferInOrder
<1>15. oooPackets' \subseteq Pending /\ \A q \in oooPackets' : q.kind # "error"
  BY <1>1, <1>4, <1>8
<1>16. eof' \in BOOLEAN /\ rErr' \in {"none", "error", "closed"} /\ rClosed' \in BOOLEAN
       /\ readPc' \in {"idle", "waiting", "ready"} /\ readPc' # "waiting"
  BY <1>1, <1>8, WakeWakes DEF SCInv, SCTypeOK
<1> QED BY <1>9, <1>10, <1>13, <1>14, <1>15, <1>16, ReaderKeeps

LEMMA RecvDataKeeps ==
    ASSUME SCInv, NEW p \in packets, RecvData(p)
    PROVE  SCInv'
<1>1. packets' \subseteq packets /\ UNCHANGED <<writerVars, programVars>>
  BY DEF RecvData, TakeFrom
<1> QED BY <1>1, RecvErrorKeeps, RecvOutOfOrderKeeps, RecvInOrderKeeps, DropDataKeeps DEF RecvData

LEMMA CloseReaderKeeps ==
    ASSUME SCInv, CloseReader
    PROVE  SCInv'
<1>1. /\ rClosed' = TRUE /\ rErr' = (IF rErr = "none" THEN "closed" ELSE rErr)
      /\ readPc' = Wake(readPc) /\ SendAck(FALSE, TRUE, rNextSeq, buffer)
      /\ UNCHANGED <<rNextSeq, buffer, eof, oooPackets, writerVars, packets, programVars>>
  BY DEF CloseReader
<1>2. SentAcks' /\ lastRwndSent' \in 0..ReadWindow
  <2>1. (wClosed => wClosed') /\ delivered' = delivered /\ buffer \in Seq(Nat)
    BY <1>1 DEF SCInv, wClosed
  <2>2. /\ rNextSeq \in Nat /\ rNextSeq' = rNextSeq /\ rNextSeq <= rNextSeq
        /\ delivered' \in Nat /\ delivered <= delivered'
        /\ rNextSeq = delivered' + Len(buffer) /\ Len(buffer) <= ReadWindow
    BY <1>1, <2>1, ReaderSizes
  <2>3. TRUE \in BOOLEAN /\ FALSE \in BOOLEAN
    OBVIOUS
  <2> QED BY <1>1, <2>1, <2>2, <2>3, AnnounceKeeps, Zenon
<1>3. EndsAgree' /\ BufferInOrder'
  BY <1>1 DEF SCInv, EndsAgree, BufferInOrder, Receiving
<1>4. oooPackets' \subseteq Pending /\ \A q \in oooPackets' : q.kind # "error"
  BY <1>1 DEF SCInv, SentPackets, Pending
<1>5. rErr' \in {"none", "error", "closed"} /\ rClosed' \in BOOLEAN /\ eof' \in BOOLEAN
  BY <1>1 DEF SCInv, SCTypeOK
<1> QED BY <1>1, <1>2, <1>3, <1>4, <1>5, WakeWakes, ReaderSizes, ReaderKeeps DEF SCInv

(* What the reading program took is the front of the run that was buffered. *)
LEMMA RunAfterRead ==
    ASSUME NEW start \in Nat, NEW buf \in Seq(Nat), NEW n \in 0..Len(buf),
           \A i \in 1..Len(buf) : buf[i] = start + i - 1
    PROVE  LET rest == SubSeq(buf, n + 1, Len(buf))
           IN  /\ rest \in Seq(Nat) /\ Len(rest) = Len(buf) - n
               /\ \A i \in 1..Len(rest) : rest[i] = start + n + i - 1
<1> DEFINE rest == SubSeq(buf, n + 1, Len(buf))
           b == Len(buf)
<1>1. b \in Nat /\ n \in Nat /\ n <= b
  OBVIOUS
<1>2. rest \in Seq(Nat) /\ Len(rest) = b - n /\ \A i \in 1..(b - n) : rest[i] = buf[n + i]
  OBVIOUS
<1> HIDE DEF rest, b
<1>3. \A i \in 1..(b - n) : n + i \in 1..b /\ start + (n + i) - 1 = start + n + i - 1
  BY <1>1
<1>4. \A i \in 1..b : buf[i] = start + i - 1
  BY DEF b
<1>5. \A i \in 1..(b - n) : rest[i] = start + n + i - 1
  BY <1>2, <1>3, <1>4
<1> QED BY <1>2, <1>5 DEF rest, b

LEMMA ReadReturnsDataKeeps ==
    ASSUME SCInv, NEW len \in 1..MaxChunk, ReadReturnsData(len),
           UNCHANGED <<rNextSeq, eof, rErr, rClosed, oooPackets, writerVars, packets, repeats>>
    PROVE  SCInv' /\ delivered' \in (delivered + 1)..rNextSeq /\ UNCHANGED result
<1> DEFINE n == AtMost(len, Len(buffer))
           rest == SubSeq(buffer, n + 1, Len(buffer))
<1>1. /\ rErr = "none" /\ n > 0 /\ buffer' = rest /\ delivered' = delivered + n /\ readPc' = "idle"
      /\ (SendAck(FALSE, FALSE, rNextSeq, rest) \/ UNCHANGED <<acks, lastRwndSent>>)
      /\ UNCHANGED result
  BY DEF ReadReturnsData
<1> DEFINE b == Len(buffer)
<1>2. b \in Nat /\ len \in Nat /\ n \in 0..b
  <2>1. b \in Nat /\ len \in Nat
    BY ReaderSizes, StreamAssumption
  <2> QED BY <1>1, <2>1 DEF AtMost
<1>3. rest \in Seq(Nat) /\ Len(rest) = b - n /\ \A i \in 1..Len(rest) : rest[i] = delivered + n + i - 1
  <2>1. buffer \in Seq(Nat) /\ delivered \in Nat /\ \A i \in 1..Len(buffer) : buffer[i] = delivered + i - 1
    BY ReaderSizes DEF SCInv, BufferInOrder
  <2> HIDE DEF n
  <2> QED BY <1>2, <2>1, RunAfterRead
<1>4. rNextSeq = delivered + b /\ b <= ReadWindow /\ delivered \in Nat /\ ReadWindow \in Nat
      /\ rNextSeq \in Nat /\ nextSeq \in Nat /\ MaxBytes \in Nat /\ rNextSeq <= nextSeq
      /\ nextSeq <= MaxBytes /\ nextSeq <= delivered + ReadWindow
      /\ maxAcked[1] \in Nat /\ readWindow \in Nat
  BY ReaderSizes
<1> DEFINE left == Len(rest)
<1>4a. left = b - n
  BY <1>3
<1> HIDE DEF n, b, rest, left
<1>5. /\ delivered' \in (delivered + 1)..rNextSeq /\ delivered' \in Nat /\ delivered <= delivered'
      /\ rNextSeq = delivered' + left /\ left <= ReadWindow /\ left \in Nat
      /\ nextSeq <= delivered' + ReadWindow /\ delivered' \in 0..MaxBytes
  BY <1>1, <1>2, <1>4, <1>4a
<1>6. SentAcks' /\ lastRwndSent' \in 0..ReadWindow
  <2>1. wClosed => wClosed'
    BY DEF wClosed
  <2>2. FALSE \in BOOLEAN /\ rNextSeq \in Nat /\ rNextSeq <= rNextSeq /\ rNextSeq' = rNextSeq
        /\ rNextSeq = delivered' + Len(rest) /\ Len(rest) <= ReadWindow
    BY <1>4, <1>5 DEF left
  <2>3. CASE SendAck(FALSE, FALSE, rNextSeq, rest)
    BY <1>3, <1>5, <2>1, <2>2, <2>3, AnnounceKeeps, Zenon
  <2>4. CASE UNCHANGED <<acks, lastRwndSent>>
    BY <1>5, <2>1, <2>2, <2>4, KeepsAcks DEF SCInv, SCTypeOK
  <2> QED BY <1>1, <2>3, <2>4
<1>7. SCTypeOK'
  BY <1>1, <1>5, <1>6 DEF SCInv, SCTypeOK
<1>8. SentPackets'
  BY KeepsPackets DEF SCInv, SentPackets, Pending
<1>9. Credit'
  BY <1>4, <1>5 DEF SCInv, Credit
<1>10. WriterKeepsNothing' /\ EndsAgree'
  BY DEF SCInv, WriterKeepsNothing, EndsAgree, wClosed
<1>11. BufferInOrder'
  <2>1. rNextSeq' = delivered' + Len(buffer')
    BY <1>1, <1>5 DEF left
  <2>2. \A i \in 1..Len(buffer') : buffer'[i] = delivered' + i - 1
    BY <1>1, <1>3
  <2> QED BY <2>1, <2>2 DEF SCInv, BufferInOrder, Receiving
<1>12. WithinWindow'
  <2>0. \A x, y, z \in Nat : x <= y + z => x - y <= z
    OBVIOUS
  <2>1. nextSeq - delivered' <= ReadWindow
    BY <1>4, <1>5, <2>0, Zenon
  <2>2. nextSeq' = nextSeq
    OBVIOUS
  <2> QED BY <1>4, <1>5, <2>1, <2>2 DEF WithinWindow
<1>13. WaitersHaveNoWork'
  BY <1>1 DEF SCInv, WaitersHaveNoWork, Sendable
<1> QED BY <1>1, <1>3, <1>5, <1>6, <1>7, <1>8, <1>9, <1>10, <1>11, <1>12, <1>13 DEF SCInv

(* A Read that gets no bytes: it waits, or it is told how the stream ended. *)
LEMMA ReadGetsNothingKeeps ==
    ASSUME SCInv, ReadWaits \/ ReadEnds,
           UNCHANGED <<rNextSeq, eof, rErr, rClosed, oooPackets, writerVars, packets, repeats>>
    PROVE  SCInv' /\ UNCHANGED delivered
<1>1. /\ UNCHANGED <<buffer, lastRwndSent, acks, delivered>>
      /\ readPc' \in {"idle", "waiting"} /\ (readPc' = "waiting" => buffer = <<>> /\ Receiving)
      /\ result' \in {"open", "closed", "error", "eof"}
  BY DEF ReadWaits, ReadEnds, Receiving, SCInv, SCTypeOK
<1>2. SCTypeOK' /\ SentPackets'
  BY <1>1 DEF SCInv, SCTypeOK, SentPackets, Pending
<1>3. SentAcks'
  BY <1>1, ReaderSizes, KeepsAcks DEF wClosed
<1>4. Credit' /\ WriterKeepsNothing' /\ EndsAgree' /\ BufferInOrder' /\ WithinWindow'
  BY <1>1 DEF SCInv, Credit, WriterKeepsNothing, EndsAgree, wClosed, BufferInOrder, Receiving, WithinWindow
<1>5. WaitersHaveNoWork'
  BY <1>1 DEF SCInv, WaitersHaveNoWork, Sendable, Receiving
<1> QED BY <1>1, <1>2, <1>3, <1>4, <1>5 DEF SCInv

LEMMA ReadKeeps ==
    ASSUME SCInv, NEW len \in 1..MaxChunk, Read(len)
    PROVE  SCInv'
BY ReadReturnsDataKeeps, ReadGetsNothingKeeps DEF Read

-----------------------------------------------------------------------------

LEMMA StutterKeeps == SCInv /\ UNCHANGED scVars => SCInv'
<1> SUFFICES ASSUME SCInv, UNCHANGED scVars PROVE SCInv'
  OBVIOUS
<1> USE DEF scVars
<1>1. SCTypeOK' /\ SentPackets' /\ SentAcks' /\ Credit'
  BY DEF SCInv, SCTypeOK, SentPackets, Pending, SentAcks, Credit, wClosed
<1>2. WriterKeepsNothing' /\ EndsAgree' /\ BufferInOrder' /\ WithinWindow' /\ WaitersHaveNoWork'
  BY DEF SCInv, WriterKeepsNothing, EndsAgree, wClosed, BufferInOrder, Receiving, WithinWindow,
         WaitersHaveNoWork, Sendable
<1> QED BY <1>1, <1>2 DEF SCInv

LEMMA NextKeeps == SCInv /\ [SCNext]_scVars => SCInv'
<1> SUFFICES ASSUME SCInv, [SCNext]_scVars PROVE SCInv'
  OBVIOUS
<1>1. CASE WritingProgram
  BY <1>1, WriteKeeps, WriteResumesKeeps, CloseWithErrorKeeps DEF WritingProgram
<1>2. CASE ReadingProgram
  BY <1>2, ReadKeeps, CloseReaderKeeps DEF ReadingProgram
<1>3. CASE Network
  BY <1>3, RecvDataKeeps, RecvAckKeeps DEF Network
<1> QED BY <1>1, <1>2, <1>3, StutterKeeps DEF SCNext

LEMMA StreamInvariant == SCSpec => []SCInv
<1> QED BY NewStreamInv, NextKeeps, PTL DEF SCSpec

(* Every variable of a stream keeps to its values; sizes stay within the window
   and positions within what is written. *)
THEOREM SCTypeCorrect == SCSpec => []SCTypeOK
<1>1. SCInv => SCTypeOK
  BY DEF SCInv
<1> QED BY <1>1, StreamInvariant, PTL

(* Whatever order packets arrive in, and however often, the Reader's buffer is
   the next bytes of the stream and nothing it could use is left waiting. *)
THEOREM BytesInOrder == SCSpec => []BufferInOrder
<1>1. SCInv => BufferInOrder
  BY DEF SCInv
<1> QED BY <1>1, StreamInvariant, PTL

(* Whatever order ACKs arrive in, and however often, no more than a window of
   bytes is sent ahead of the reading program. *)
THEOREM WindowRespected == SCSpec => []WithinWindow
<1>1. SCInv => WithinWindow
  BY DEF SCInv
<1> QED BY <1>1, StreamInvariant, PTL

(* A Read or Write waits only while there is nothing it could do. *)
THEOREM WaitersHaveNothingToDo == SCSpec => []WaitersHaveNoWork
<1>1. SCInv => WaitersHaveNoWork
  BY DEF SCInv
<1> QED BY <1>1, StreamInvariant, PTL

-----------------------------------------------------------------------------
(* processOOOPacketsLocked: its closed form is its loop *)

(* The loop goes over the packets in the order of their sequence numbers; this
   one is next. *)
HasTurn(r, p) == p \in r.ooo /\ \A q \in r.ooo : p.seq <= q.seq

(* A turn takes the packet that begins where the received bytes end. *)
Takes(r, p) == ~r.eof /\ HasTurn(r, p) /\ p.seq = r.next

Took(r, p) == [Accept(r, p) EXCEPT !.ooo = @ \ {p}]

(* Without one the loop is left: an EOF ends everything, a gap keeps the rest. *)
Leaves(r) == ~\E p \in r.ooo : Takes(r, p)

Left(r) == [r EXCEPT !.ooo = IF r.eof THEN {} ELSE @]

(* What the loop works on: no two packets wait with one sequence number. *)
Waits(r) ==
    /\ r \in [next : Nat, buffer : Seq(Nat), eof : BOOLEAN, ooo : SUBSET Packet]
    /\ IsFiniteSet(r.ooo)
    /\ \A p, q \in r.ooo : p.seq = q.seq => p = q

(* The states run[0], run[1], ... run[n] of the loop, to where it is left. *)
LoopRun(run, n) ==
    /\ \A i \in 0..(n - 1) : \E p \in run[i].ooo : Takes(run[i], p) /\ run[i + 1] = Took(run[i], p)
    /\ Leaves(run[n])

LEMMA WaitsFields ==
    ASSUME NEW r, Waits(r)
    PROVE  /\ r.next \in Nat /\ r.buffer \in Seq(Nat) /\ r.eof \in BOOLEAN /\ r.ooo \subseteq Packet
           /\ \A p \in r.ooo : p.seq \in Nat /\ p.len \in Nat /\ p.seq + p.len \in Nat
           /\ r = [next |-> r.next, buffer |-> r.buffer, eof |-> r.eof, ooo |-> r.ooo]
BY DEF Waits, Packet

Ends(r) == {p.seq + p.len : p \in IF r.eof THEN {} ELSE Taken(r)}

LEMMA EndsFinite ==
    ASSUME NEW r, Waits(r)
    PROVE  /\ Ends(r) \subseteq Nat /\ IsFiniteSet({r.next} \cup Ends(r))
           /\ Max({r.next} \cup Ends(r)) \in {r.next} \cup Ends(r)
           /\ \A k \in {r.next} \cup Ends(r) : k <= Max({r.next} \cup Ends(r))
<1> DEFINE taken == IF r.eof THEN {} ELSE Taken(r)
           f     == [p \in taken |-> p.seq + p.len]
<1>1. taken \subseteq r.ooo
  BY DEF Taken
<1>2. IsFiniteSet(taken)
  BY <1>1, FS_Subset DEF Waits
<1>3. f \in Surjection(taken, Ends(r))
  BY DEF Surjection, Ends
<1>4. IsFiniteSet(Ends(r))
  <2> HIDE DEF f, taken
  <2> QED BY <1>2, <1>3, FS_Surjection
<1>5. Ends(r) \subseteq Nat
  BY <1>1, WaitsFields DEF Ends
<1>6. IsFiniteSet({r.next} \cup Ends(r))
  <2>1. {r.next} \cup Ends(r) = Ends(r) \cup {r.next}
    OBVIOUS
  <2> QED BY <1>4, <2>1, FS_AddElement
<1>7. {r.next} \cup Ends(r) \subseteq Nat
  BY <1>5, WaitsFields
<1> QED BY <1>5, <1>6, <1>7, MaxOfFinite

LEMMA NoBytes ==
    ASSUME NEW buf \in Seq(Nat), NEW n \in Nat
    PROVE  buf \o Bytes(n, n) = buf
<1>1. Bytes(n, n) = <<>>
  BY DEF Bytes
<1> QED BY <1>1

LEMMA BytesJoin ==
    ASSUME NEW buf \in Seq(Nat), NEW a \in Nat, NEW b \in Nat, NEW c \in Nat, a <= b, b <= c
    PROVE  buf \o Bytes(a, c) = (buf \o Bytes(a, b)) \o Bytes(b, c)
<1> DEFINE x == Bytes(a, b)
           y == Bytes(b, c)
           z == Bytes(a, c)
<1>1. x \in Seq(Nat) /\ Len(x) = b - a /\ \A i \in 1..(b - a) : x[i] = a + i - 1
  BY BytesType
<1>2. y \in Seq(Nat) /\ Len(y) = c - b /\ \A i \in 1..(c - b) : y[i] = b + i - 1
  BY BytesType
<1>3. z \in Seq(Nat) /\ Len(z) = c - a /\ \A i \in 1..(c - a) : z[i] = a + i - 1
  <2>1. a <= c
    OBVIOUS
  <2> QED BY <2>1, BytesType
<1> HIDE DEF x, y, z
<1>4. x \o y \in Seq(Nat) /\ Len(x \o y) = c - a
  <2>1. x \in Seq(Nat) /\ y \in Seq(Nat)
    BY <1>1, <1>2
  <2>2. x \o y \in Seq(Nat) /\ Len(x \o y) = Len(x) + Len(y)
    BY <2>1, ConcatProperties
  <2>3. Len(x) + Len(y) = c - a
    BY <1>1, <1>2
  <2> QED BY <2>2, <2>3
<1>5. ASSUME NEW i \in 1..(c - a) PROVE z[i] = (x \o y)[i]
  <2>1. CASE i <= b - a
    <3>1. i \in 1..Len(x)
      BY <1>1, <2>1
    <3>2. (x \o y)[i] = x[i]
      BY <1>1, <1>2, <3>1
    <3> QED BY <1>1, <1>3, <3>1, <3>2
  <2>2. CASE i > b - a
    <3>1. i - (b - a) \in 1..(c - b) /\ i \in (Len(x) + 1)..(Len(x) + Len(y))
      BY <1>1, <1>2, <2>2
    <3>2. (x \o y)[i] = y[i - Len(x)]
      BY <1>1, <1>2, <3>1
    <3>3. Len(x) = b - a /\ z[i] = a + i - 1
      BY <1>1, <1>3
    <3>4. y[i - (b - a)] = b + (i - (b - a)) - 1
      BY <1>2, <3>1
    <3>5. b + (i - (b - a)) - 1 = a + i - 1
      BY <3>1
    <3> QED BY <3>2, <3>3, <3>4, <3>5
  <2>3. i <= b - a \/ i > b - a
    OBVIOUS
  <2> QED BY <2>1, <2>2, <2>3, Zenon
<1>6. z = x \o y
  <2>1. \A i \in 1..Len(z) : z[i] = (x \o y)[i]
    BY <1>3, <1>5
  <2>2. z \in Seq(Nat) /\ Len(z) = Len(x \o y)
    BY <1>3, <1>4
  <2> DEFINE w == x \o y
  <2>3. z \in Seq(Nat) /\ w \in Seq(Nat) /\ Len(z) = Len(w) /\ \A i \in 1..Len(z) : z[i] = w[i]
    BY <1>4, <2>1, <2>2
  <2> HIDE DEF w
  <2>4. z = w
    BY <2>3, SeqEqual
  <2> QED BY <2>4 DEF w
<1>7. buf \o (x \o y) = (buf \o x) \o y
  <2>1. x \in Seq(Nat) /\ y \in Seq(Nat) /\ buf \in Seq(Nat)
    BY <1>1, <1>2
  <2>2. (buf \o x) \o y = buf \o (x \o y)
    BY <2>1, ConcatAssociative
  <2> QED BY <2>2
<1> QED BY <1>6, <1>7 DEF x, y, z

(* Where the loop is left, the closed form changes nothing more. *)
LEMMA LeavesAsClosedForm ==
    ASSUME NEW r, Waits(r), Leaves(r)
    PROVE  ProcessOOO(r) = Left(r)
<1> DEFINE taken == IF r.eof THEN {} ELSE Taken(r)
<1>1. taken = {}
  <2> SUFFICES ASSUME ~r.eof, NEW p \in Taken(r) PROVE FALSE
    OBVIOUS
  <2>1. p \in r.ooo
    BY DEF Taken
  <2> DEFINE seqs == {q.seq : q \in r.ooo}
  <2>2. PICK n \in seqs : \A k \in seqs : n <= k
    <3>1. seqs \subseteq Nat /\ seqs # {}
      BY <2>1, WaitsFields
    <3> QED BY <3>1, LeastOf
  <2>3. PICK m \in r.ooo : m.seq = n /\ \A q \in r.ooo : m.seq <= q.seq
    BY <2>2
  <2>4. Follows(r, m)
    BY <2>1, <2>3 DEF Taken
  <2>5. m.seq = r.next
    BY <2>3, <2>4, WaitsFields DEF Follows
  <2> QED BY <2>3, <2>5 DEF Leaves, Takes, HasTurn
<1>2. Ends(r) = {}
  BY <1>1 DEF Ends
<1>3. Max({r.next} \cup Ends(r)) = r.next
  BY <1>2, EndsFinite
<1>4. ProcessOOO(r) = [next |-> r.next, buffer |-> r.buffer \o Bytes(r.next, r.next),
                       eof |-> r.eof, ooo |-> IF r.eof THEN {} ELSE r.ooo \ taken]
  BY <1>1, <1>2, <1>3, WaitsFields DEF ProcessOOO, Ends
<1>5. ProcessOOO(r) = [next |-> r.next, buffer |-> r.buffer,
                       eof |-> r.eof, ooo |-> IF r.eof THEN {} ELSE r.ooo]
  BY <1>1, <1>4, WaitsFields, NoBytes
<1> DEFINE rest == IF r.eof THEN {} ELSE r.ooo
<1>6. Left(r) = [r EXCEPT !.ooo = rest]
  BY DEF Left
<1> HIDE DEF rest
<1>7. Left(r) = [next |-> r.next, buffer |-> r.buffer, eof |-> r.eof, ooo |-> rest]
  BY <1>6 DEF Waits
<1> QED BY <1>5, <1>7 DEF rest

(* A turn changes nothing of what the closed form computes. *)
LEMMA TurnAsClosedForm ==
    ASSUME NEW r, Waits(r), NEW m \in r.ooo, Takes(r, m)
    PROVE  /\ Waits(Took(r, m)) /\ ProcessOOO(Took(r, m)) = ProcessOOO(r)
           /\ Cardinality(Took(r, m).ooo) = Cardinality(r.ooo) - 1
<1> DEFINE s == Took(r, m)
           left  == IF s.eof THEN {} ELSE Taken(s)
           next  == r.next + m.len
           bytes == Bytes(m.seq, m.seq + m.len)
<1>1. /\ ~r.eof /\ m.seq = r.next /\ \A q \in r.ooo : m.seq <= q.seq
      /\ \A q \in r.ooo : q # m => m.seq < q.seq
  BY WaitsFields DEF Takes, HasTurn, Waits
<1>2. m.len \in Nat /\ next \in Nat /\ r.next \in Nat /\ r.buffer \in Seq(Nat)
  BY WaitsFields
<1>3. bytes \in Seq(Nat)
  <2>1. m.seq \in Nat /\ m.seq + m.len \in Nat /\ m.seq <= m.seq + m.len
    BY <1>1, <1>2
  <2> QED BY <2>1, BytesType
<1>4. Accept(r, m) = [next |-> next, buffer |-> r.buffer \o bytes, eof |-> (m.kind = "eof"), ooo |-> r.ooo]
  BY DEF Accept
<1>5. s = [next |-> next, buffer |-> r.buffer \o bytes, eof |-> (m.kind = "eof"), ooo |-> r.ooo \ {m}]
  <2> DEFINE all == r.buffer \o bytes
             e   == m.kind = "eof"
             ooo == r.ooo \ {m}
  <2>1. s = [Accept(r, m) EXCEPT !.ooo = Accept(r, m).ooo \ {m}]
    BY DEF Took
  <2>2. Accept(r, m) = [next |-> next, buffer |-> all, eof |-> e, ooo |-> r.ooo]
    BY <1>4
  <2> HIDE DEF next, bytes, all, e, s
  <2>3. s = [next |-> next, buffer |-> all, eof |-> e, ooo |-> r.ooo \ {m}]
    BY <2>1, <2>2
  <2> QED BY <2>3 DEF all, e
<1> HIDE DEF s, bytes
<1>6. s.next = next /\ s.buffer = r.buffer \o bytes /\ s.eof = (m.kind = "eof") /\ s.ooo = r.ooo \ {m}
  BY <1>5
<1>7. Waits(s)
  <2>1. next \in Nat /\ r.buffer \o bytes \in Seq(Nat) /\ (m.kind = "eof") \in BOOLEAN
        /\ r.ooo \ {m} \subseteq Packet
    BY <1>2, <1>3, WaitsFields
  <2>2. IsFiniteSet(s.ooo)
    BY <1>6, FS_RemoveElement DEF Waits
  <2>3. \A p, q \in s.ooo : p.seq = q.seq => p = q
    BY <1>6 DEF Waits
  <2> HIDE DEF next
  <2>5. s \in [next : Nat, buffer : Seq(Nat), eof : BOOLEAN, ooo : SUBSET Packet]
    BY <1>5, <2>1
  <2> QED BY <2>2, <2>3, <2>5 DEF Waits
<1>8. Cardinality(s.ooo) = Cardinality(r.ooo) - 1
  BY <1>6, FS_RemoveElement DEF Waits
<1>9. m \in Taken(r)
  <2>1. \A q \in r.ooo : q.seq <= m.seq => q = m
    BY <1>1, WaitsFields
  <2> QED BY <1>1, <2>1 DEF Taken, Follows
<1>10. Taken(r) = {m} \cup left
  <2>0. ASSUME NEW q \in r.ooo, q # m, Follows(r, q)
        PROVE  \E o \in r.ooo : o.kind # "eof" /\ o.seq < q.seq /\ o.seq + o.len = q.seq
    <3>1. q.seq # r.next
      BY <1>1, <2>0, WaitsFields
    <3> QED BY <2>0, <3>1 DEF Follows
  <2>1. CASE s.eof
    <3>1. ASSUME NEW p \in Taken(r), p # m PROVE FALSE
      <4>1. p \in r.ooo
        BY DEF Taken
      <4> DEFINE seqs == {q.seq : q \in r.ooo \ {m}}
      <4>2. PICK n \in seqs : \A k \in seqs : n <= k
        <5>1. seqs \subseteq Nat /\ seqs # {}
          BY <3>1, <4>1, WaitsFields
        <5> QED BY <5>1, LeastOf
      <4>3. PICK q \in r.ooo \ {m} : \A o \in r.ooo \ {m} : q.seq <= o.seq
        BY <4>2
      <4>4. Follows(r, q)
        BY <3>1, <4>1, <4>3 DEF Taken
      <4>5. PICK o \in r.ooo : o.kind # "eof" /\ o.seq < q.seq
        BY <2>0, <4>3, <4>4
      <4>6. o # m
        BY <1>6, <2>1, <4>5
      <4> QED BY <4>3, <4>5, <4>6, WaitsFields
    <3> QED BY <1>9, <2>1, <3>1
  <2>2. CASE ~s.eof
    <3>1. m.kind # "eof"
      BY <1>6, <2>2
    <3>2. ASSUME NEW q \in r.ooo, q # m PROVE Follows(r, q) <=> Follows(s, q)
      <4>1. ASSUME Follows(r, q) PROVE Follows(s, q)
        <5>1. PICK o \in r.ooo : o.kind # "eof" /\ o.seq < q.seq /\ o.seq + o.len = q.seq
          BY <2>0, <3>2, <4>1
        <5>2. CASE o = m
          <6>1. q.seq = s.next
            BY <1>1, <1>6, <5>1, <5>2
          <6> QED BY <6>1 DEF Follows
        <5>3. CASE o # m
          <6>1. o \in s.ooo
            BY <1>6, <5>3
          <6> QED BY <5>1, <6>1 DEF Follows
        <5> QED BY <5>2, <5>3
      <4>2. ASSUME Follows(s, q) PROVE Follows(r, q)
        <5>1. CASE q.seq = s.next
          <6>1. m.seq < q.seq /\ m.seq + m.len = q.seq
            BY <1>1, <1>6, <3>2, <5>1
          <6> QED BY <3>1, <6>1 DEF Follows
        <5>2. CASE \E o \in s.ooo : o.kind # "eof" /\ o.seq < q.seq /\ o.seq + o.len = q.seq
          <6>1. \E o \in r.ooo : o.kind # "eof" /\ o.seq < q.seq /\ o.seq + o.len = q.seq
            BY <1>6, <5>2
          <6> QED BY <6>1 DEF Follows
        <5> QED BY <4>2, <5>1, <5>2 DEF Follows
      <4> QED BY <4>1, <4>2
    <3>3. ASSUME NEW p \in Taken(r), p # m PROVE p \in Taken(s)
      BY <1>6, <3>2, <3>3 DEF Taken
    <3>4. ASSUME NEW p \in Taken(s) PROVE p \in Taken(r)
      <4>1. p \in r.ooo /\ \A q \in s.ooo : q.seq <= p.seq => Follows(s, q)
        BY <1>6 DEF Taken
      <4>2. \A q \in r.ooo : q.seq <= p.seq => Follows(r, q)
        BY <1>1, <1>6, <3>2, <4>1 DEF Follows
      <4> QED BY <4>1, <4>2 DEF Taken
    <3> QED BY <1>9, <2>2, <3>3, <3>4
  <2> QED BY <2>1, <2>2
<1>11. Ends(r) = {next} \cup Ends(s)
  BY <1>1, <1>10 DEF Ends
<1>12. Max({r.next} \cup Ends(r)) = Max({s.next} \cup Ends(s)) /\ next <= Max({s.next} \cup Ends(s))
       /\ Max({s.next} \cup Ends(s)) \in Nat
  <2> DEFINE U == {r.next} \cup Ends(r)
             V == {s.next} \cup Ends(s)
  <2>1. /\ Max(U) \in U /\ \A k \in U : k <= Max(U)
        /\ Max(V) \in V /\ \A k \in V : k <= Max(V)
        /\ U \subseteq Nat /\ V \subseteq Nat
    BY <1>7, EndsFinite, WaitsFields
  <2>2. U = V \cup {r.next} /\ next \in V /\ r.next <= next
    BY <1>2, <1>6, <1>11
  <2> HIDE DEF U, V
  <2>3. Max(V) <= Max(U)
    BY <2>1, <2>2
  <2>4. Max(U) <= Max(V)
    <3>1. CASE Max(U) \in V
      BY <2>1, <3>1
    <3>2. CASE Max(U) = r.next
      BY <1>2, <2>1, <2>2, <3>2
    <3> QED BY <2>1, <2>2, <3>1, <3>2
  <2>5. Max(U) \in Nat /\ Max(V) \in Nat /\ next <= Max(V)
    BY <2>1, <2>2
  <2>6. Max(U) = Max(V)
    BY <2>3, <2>4, <2>5
  <2> QED BY <2>5, <2>6 DEF U, V
<1> DEFINE to == Max({s.next} \cup Ends(s))
           ended == s.eof \/ \E p \in left : p.kind = "eof"
<1>13. (r.eof \/ \E p \in Taken(r) : p.kind = "eof") = ended
  BY <1>1, <1>6, <1>10
<1>14. r.buffer \o Bytes(r.next, to) = s.buffer \o Bytes(s.next, to)
  <2>1. bytes = Bytes(r.next, next)
    BY <1>1 DEF bytes
  <2>2. to \in Nat /\ next <= to /\ r.next <= next
    BY <1>2, <1>12
  <2> HIDE DEF to, next
  <2>3. r.buffer \o Bytes(r.next, to) = (r.buffer \o Bytes(r.next, next)) \o Bytes(next, to)
    BY <1>2, <2>2, BytesJoin
  <2> QED BY <1>6, <2>1, <2>3
<1>15. r.ooo \ Taken(r) = s.ooo \ left
  BY <1>6, <1>10
<1>16. ProcessOOO(s) = [next |-> to, buffer |-> s.buffer \o Bytes(s.next, to), eof |-> ended,
                        ooo |-> IF ended THEN {} ELSE s.ooo \ left]
  BY DEF ProcessOOO, Ends
<1>17. ProcessOOO(r) = [next |-> Max({r.next} \cup Ends(r)),
                        buffer |-> r.buffer \o Bytes(r.next, Max({r.next} \cup Ends(r))),
                        eof |-> (r.eof \/ \E p \in Taken(r) : p.kind = "eof"),
                        ooo |-> IF r.eof \/ \E p \in Taken(r) : p.kind = "eof"
                                THEN {} ELSE r.ooo \ Taken(r)]
  BY <1>1 DEF ProcessOOO, Ends
<1>18. ProcessOOO(s) = ProcessOOO(r)
  <2> HIDE DEF to, ended, left
  <2>1. Max({r.next} \cup Ends(r)) = to
    BY <1>12 DEF to
  <2> QED BY <1>13, <1>14, <1>15, <1>16, <1>17, <2>1
<1> QED BY <1>7, <1>8, <1>18 DEF s

(* What is received in order is what the loop of processOOOPacketsLocked makes of
   it: wherever the loop is left, after as many turns as there are packets at most,
   it has computed the closed form of RecvInOrder. *)
THEOREM ClosedFormIsTheLoop ==
    ASSUME NEW n \in Nat, NEW run, Waits(run[0]), LoopRun(run, n)
    PROVE  ProcessOOO(run[0]) = Left(run[n]) /\ n <= Cardinality(run[0].ooo)
<1> DEFINE Good(i) == /\ Waits(run[i]) /\ ProcessOOO(run[i]) = ProcessOOO(run[0])
                      /\ Cardinality(run[i].ooo) = Cardinality(run[0].ooo) - i
           bad == {i \in 0..n : ~Good(i)}
<1>1. Cardinality(run[0].ooo) \in Nat
  BY FS_CardinalityType DEF Waits
<1>2. Good(0)
  BY <1>1
<1>3. ASSUME NEW i \in 0..(n - 1), Good(i) PROVE Good(i + 1)
  <2>1. PICK p \in run[i].ooo : Takes(run[i], p) /\ run[i + 1] = Took(run[i], p)
    BY DEF LoopRun
  <2>2. /\ Waits(run[i + 1]) /\ ProcessOOO(run[i + 1]) = ProcessOOO(run[i])
        /\ Cardinality(run[i + 1].ooo) = Cardinality(run[i].ooo) - 1
    BY <1>3, <2>1, TurnAsClosedForm
  <2> QED BY <1>1, <1>3, <2>2
<1> HIDE DEF Good
<1>4. bad = {}
  <2> SUFFICES ASSUME bad # {} PROVE FALSE
    OBVIOUS
  <2>1. PICK b \in bad : \A k \in bad : b <= k
    <3>1. bad \subseteq Nat
      OBVIOUS
    <3> QED BY <3>1, LeastOf
  <2>2. b \in 1..n /\ ~Good(b)
    BY <1>2, <2>1
  <2>3. Good(b - 1) /\ b - 1 \in 0..(n - 1)
    BY <2>1, <2>2
  <2>4. Good((b - 1) + 1)
    BY <1>3, <2>3
  <2> QED BY <2>2, <2>4
<1>5. Good(n)
  BY <1>4
<1>6. Waits(run[n]) /\ ProcessOOO(run[n]) = ProcessOOO(run[0])
      /\ Cardinality(run[n].ooo) = Cardinality(run[0].ooo) - n
  BY <1>5 DEF Good
<1>7. Cardinality(run[n].ooo) \in Nat
  BY <1>6, FS_CardinalityType DEF Waits
<1>8. ProcessOOO(run[n]) = Left(run[n])
  BY <1>6, LeavesAsClosedForm DEF LoopRun
<1> QED BY <1>1, <1>6, <1>7, <1>8

(* What waits is what RecvOutOfOrder put there, one packet for a sequence number. *)
OneForEach ==
    /\ IsFiniteSet(oooPackets)
    /\ \A p, q \in oooPackets : p.seq = q.seq => p = q

LEMMA StepKeepsOneForEach == OneForEach /\ [SCNext]_scVars => OneForEach'
<1> SUFFICES ASSUME OneForEach, [SCNext]_scVars PROVE OneForEach'
  OBVIOUS
<1>1. ASSUME NEW S, S \subseteq oooPackets, oooPackets' = S PROVE OneForEach'
  BY <1>1, FS_Subset DEF OneForEach
<1>2. CASE UNCHANGED oooPackets
  BY <1>1, <1>2
<1>3. ASSUME NEW p \in packets, RecvData(p) PROVE OneForEach'
  <2>1. CASE RecvOutOfOrder(p)
    <3>1. CASE oooPackets' = oooPackets
      BY <1>1, <3>1
    <3>2. CASE oooPackets' = oooPackets \cup {p} /\ \A q \in oooPackets : q.seq # p.seq
      <4>1. IsFiniteSet(oooPackets')
        BY <3>2, FS_AddElement DEF OneForEach
      <4> QED BY <3>2, <4>1 DEF OneForEach
    <3> QED BY <2>1, <3>1, <3>2 DEF RecvOutOfOrder
  <2>2. CASE RecvInOrder(p)
    <3> DEFINE r == Accept(Receiver, p)
    <3>1. r.ooo = oooPackets
      BY DEF Accept, Receiver
    <3>2. ProcessOOO(r).ooo \subseteq r.ooo
      <4> HIDE DEF r
      <4> QED BY DEF ProcessOOO
    <3>3. oooPackets' = ProcessOOO(r).ooo
      BY <2>2 DEF RecvInOrder, ReceivedAs
    <3> HIDE DEF r
    <3> QED BY <1>1, <3>1, <3>2, <3>3
  <2>3. CASE RecvError(p) \/ DropData(p)
    BY <1>2, <2>3 DEF RecvError, DropData
  <2> QED BY <1>3, <2>1, <2>2, <2>3 DEF RecvData
<1>4. CASE WritingProgram \/ ReadingProgram
  BY <1>2, <1>4 DEF WritingProgram, ReadingProgram, Write, WriteResumes, CloseWithError, Read, CloseReader
<1>5. ASSUME NEW ack \in acks, RecvAck(ack) PROVE OneForEach'
  BY <1>2, <1>5 DEF RecvAck
<1>6. CASE UNCHANGED scVars
  BY <1>2, <1>6 DEF scVars
<1> QED BY <1>3, <1>4, <1>5, <1>6 DEF SCNext, Network

(* A packet received in order, and what it sets going, are received as the loop
   receives them. *)
ReceivedByTheLoop ==
    \A p \in packets : RecvInOrder(p) =>
        \A n \in Nat : \A run :
            run[0] = Accept(Receiver, p) /\ LoopRun(run, n) => ReceivedAs(Left(run[n]))

(* In every behaviour the Reader's state after a packet in order is the one the
   loop of processOOOPacketsLocked leaves, wherever its turns end. *)
THEOREM ReceivesAsTheLoop == SCSpec => [][ReceivedByTheLoop]_scVars
<1>1. NewStream => OneForEach
  BY FS_EmptySet DEF NewStream, OneForEach
<1>2. ASSUME SCInv, OneForEach PROVE ReceivedByTheLoop
  <2> SUFFICES ASSUME NEW p \in packets, RecvInOrder(p), NEW n \in Nat, NEW run,
                      run[0] = Accept(Receiver, p), LoopRun(run, n)
               PROVE  ReceivedAs(Left(run[n]))
    BY DEF ReceivedByTheLoop
  <2> DEFINE r == Accept(Receiver, p)
  <2>1. p \in Packet /\ p.seq \in Nat /\ p.len \in Nat /\ rNextSeq \in Nat /\ buffer \in Seq(Nat)
        /\ oooPackets \subseteq Packet
    BY <1>2 DEF SCInv, SCTypeOK, SentPackets, Pending, Packet
  <2>2. Bytes(p.seq, p.seq + p.len) \in Seq(Nat)
    <3>1. p.seq + p.len \in Nat /\ p.seq <= p.seq + p.len
      BY <2>1
    <3> QED BY <2>1, <3>1, BytesType
  <2>3. buffer \o Bytes(p.seq, p.seq + p.len) \in Seq(Nat) /\ rNextSeq + p.len \in Nat
        /\ (p.kind = "eof") \in BOOLEAN
    BY <2>1, <2>2
  <2>4. r = [next |-> rNextSeq + p.len, buffer |-> buffer \o Bytes(p.seq, p.seq + p.len),
             eof |-> (p.kind = "eof"), ooo |-> oooPackets]
    BY DEF Accept, Receiver
  <2> HIDE DEF r
  <2>5. Waits(r)
    BY <1>2, <2>1, <2>3, <2>4 DEF Waits, OneForEach
  <2>6. ProcessOOO(r) = Left(run[n])
    BY <2>5, ClosedFormIsTheLoop DEF r
  <2>7. ReceivedAs(ProcessOOO(r))
    BY DEF RecvInOrder, r
  <2> QED BY <2>6, <2>7
<1>3. SCInv /\ OneForEach /\ [SCNext]_scVars => [ReceivedByTheLoop]_scVars
  BY <1>2
<1> QED BY <1>1, <1>3, StepKeepsOneForEach, StreamInvariant, PTL DEF SCSpec

-----------------------------------------------------------------------------
(* A stream is a pipe *)

LEMMA NewStreamIsPipe == NewStream => Pipe!PipeInit
BY DEF NewStream, Pipe!PipeInit

(* Bytes are put into the pipe when they are sent. *)
LEMMA SendIsPut ==
    ASSUME SCInv, SCInv', ~wClosed, NEW len \in Nat, SendAndWait(len),
           UNCHANGED <<wEnd, delivered, result>>
    PROVE  Pipe!Put \/ UNCHANGED Pipe!pipeVars
<1> DEFINE n == Sendable(len)
<1>1. n \in Nat /\ nextSeq' = nextSeq + n
  BY SendableBounds DEF SendAndWait
<1>2. /\ nextSeq \in Nat /\ nextSeq' \in 0..MaxBytes /\ nextSeq' - delivered' <= ReadWindow
  BY DEF SCInv, SCTypeOK, WithinWindow
<1> HIDE DEF n
<1>3. CASE n = 0
  BY <1>1, <1>2, <1>3 DEF Pipe!pipeVars
<1>4. CASE n > 0
  <2>1. nextSeq' \in (nextSeq + 1)..MaxBytes
    BY <1>1, <1>2, <1>4, StreamAssumption
  <2> QED BY <1>2, <2>1 DEF Pipe!Put, wClosed
<1> QED BY <1>1, <1>3, <1>4

(* What a Read is told at the end is true of the pipe. *)
LEMMA ReadEndIsEnd ==
    ASSUME SCInv, result = "open", ReadEnds,
           UNCHANGED <<nextSeq, wEnd>>
    PROVE  Pipe!Ended
<1>1. /\ rErr # "none" \/ (buffer = <<>> /\ eof)
      /\ result' = IF rClosed THEN "closed" ELSE IF rErr # "none" THEN rErr ELSE "eof"
      /\ UNCHANGED delivered
  BY DEF ReadEnds
<1>2. CASE rClosed
  BY <1>1, <1>2 DEF Pipe!Ended
<1>3. CASE ~rClosed /\ rErr # "none"
  <2>1. rErr = "error" /\ wEnd = "error"
    BY <1>3 DEF SCInv, SCTypeOK, EndsAgree
  <2> QED BY <1>1, <1>3, <2>1 DEF Pipe!Ended
<1>4. CASE ~rClosed /\ rErr = "none"
  <2>1. wEnd = "eof" /\ rNextSeq = nextSeq /\ Len(buffer) = 0
    BY <1>1, <1>4 DEF SCInv, EndsAgree
  <2>2. delivered = nextSeq
    BY <2>1, ReaderSizes
  <2> QED BY <1>1, <1>4, <2>1, <2>2 DEF Pipe!Ended
<1> QED BY <1>2, <1>3, <1>4

LEMMA ReadIsPipeStep ==
    ASSUME SCInv, NEW len \in 1..MaxChunk, Read(len)
    PROVE  Pipe!Get \/ Pipe!Ended \/ UNCHANGED Pipe!pipeVars
<1>1. result = "open" /\ UNCHANGED <<rNextSeq, eof, rErr, rClosed, oooPackets, writerVars, packets, repeats>>
  BY DEF Read
<1>2. CASE ReadReturnsData(len)
  <2>1. delivered' \in (delivered + 1)..rNextSeq /\ UNCHANGED result
    BY <1>1, <1>2, ReadReturnsDataKeeps
  <2>2. delivered' \in (delivered + 1)..nextSeq
    BY <2>1, ReaderSizes
  <2> QED BY <1>1, <2>1, <2>2 DEF Pipe!Get
<1>3. CASE ReadWaits
  BY <1>1, <1>3 DEF ReadWaits, Pipe!pipeVars
<1>4. CASE ReadEnds
  BY <1>1, <1>4, ReadEndIsEnd
<1> QED BY <1>2, <1>3, <1>4 DEF Read

LEMMA StepIsPipeStep ==
    SCInv /\ SCInv' /\ [SCNext]_scVars => [Pipe!PipeNext]_Pipe!pipeVars
<1> SUFFICES ASSUME SCInv, SCInv', [SCNext]_scVars
             PROVE  Pipe!PipeNext \/ UNCHANGED Pipe!pipeVars
  OBVIOUS
<1>1. ASSUME NEW len \in 1..MaxChunk, Write(len) PROVE Pipe!Put \/ UNCHANGED Pipe!pipeVars
  <2>1. wBuffer + len \in Nat
    BY DEF SCInv, SCTypeOK
  <2> QED BY <1>1, <2>1, SendIsPut DEF Write
<1>2. CASE WriteResumes
  <2>1. CASE wClosed \/ wErr
    BY <1>2, <2>1 DEF WriteResumes, Pipe!pipeVars
  <2>2. CASE ~wClosed /\ ~wErr
    <3>1. wBuffer \in Nat
      BY DEF SCInv, SCTypeOK
    <3> QED BY <1>2, <2>2, <3>1, SendIsPut DEF WriteResumes, Pipe!PipeNext
  <2> QED BY <2>1, <2>2
<1>3. ASSUME NEW kind \in {"eof", "error"}, CloseWithError(kind) PROVE Pipe!Finish
  BY <1>3 DEF CloseWithError, wClosed, Pipe!Finish
<1>4. CASE CloseReader
  BY <1>4 DEF CloseReader, Pipe!pipeVars
<1>5. ASSUME NEW p \in packets, RecvData(p) PROVE UNCHANGED Pipe!pipeVars
  BY <1>5 DEF RecvData, Pipe!pipeVars
<1>6. ASSUME NEW ack \in acks, RecvAck(ack) PROVE UNCHANGED Pipe!pipeVars
  <2>1. UNCHANGED <<nextSeq, wEnd>>
    BY <1>6 DEF RecvAck, RecvFin, RecvCancel, RecvDataAck, IgnoreAck
  <2> QED BY <1>6, <2>1 DEF RecvAck, Pipe!pipeVars
<1>7. CASE UNCHANGED scVars
  BY <1>7 DEF scVars, Pipe!pipeVars
<1> QED BY <1>1, <1>2, <1>3, <1>4, <1>5, <1>6, <1>7, ReadIsPipeStep
        DEF SCNext, WritingProgram, ReadingProgram, Network, Pipe!PipeNext

(* The Writer, the Reader and a network that reorders and repeats are together a
   bounded first-in first-out pipe, whose end is told after its last byte. *)
THEOREM StreamIsPipe == SCSpec => ImplementsPipe
<1> QED BY NewStreamIsPipe, StreamInvariant, StepIsPipeStep, PTL
        DEF SCSpec, ImplementsPipe, Pipe!PipeSpec
=============================================================================
