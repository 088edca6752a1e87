------------------------- MODULE StreamManagerProof -------------------------
(***************************************************************************)
(* Proofs about the byte window and the stream manager, for every buffer,  *)
(* window and packet size, every set of stream ids and any ACKs the wire   *)
(* may bring: WindowInv and SMInv are inductive.  One lemma per action     *)
(* shows that the action keeps the invariant.  AnswerInv, beside them, is  *)
(* about the position that ClientConnected answers.                        *)
(***************************************************************************)
EXTENDS StreamManager, TLAPS

(* The window: each operation keeps WindowInv, and what else its user has to
   know of it. *)

LEMMA MakeWindowInv == MakeWindow => WindowInv
<1> SUFFICES ASSUME MakeWindow PROVE WindowInv
  OBVIOUS
<1>1. windowSize \in 0..CirBufSize
  BY WindowAssumption DEF MakeWindow
<1>2. WindowTypeOK
  <2>1. head \in Nat /\ total \in Nat /\ head <= total
    BY DEF MakeWindow
  <2> QED BY <1>1, <2>1 DEF MakeWindow, WindowTypeOK
<1>3. WindowBounded
  BY WindowAssumption DEF MakeWindow, WindowBounded, Size
<1> QED BY <1>2, <1>3 DEF MakeWindow, WindowInv, NoLostWakeup, NoPanic

(* A write into a window with room takes at least one byte and never more than
   was offered; in sync mode it leaves the head alone. *)
LEMMA WriteAcceptsWindow ==
    ASSUME WindowInv, NEW len \in Nat, WriteAccepts(len)
    PROVE  /\ WindowInv'
           /\ Accepted(len) \in 1..len
           /\ total' = total + Accepted(len)
           /\ syncMode => head' = head
           /\ Size' >= Size
<1> USE DEF WindowInv, WindowTypeOK, WindowBounded
<1>1. Accepted(len) \in 1..len /\ (syncMode => Size + Accepted(len) <= windowSize)
  BY DEF WriteAccepts, Accepted, Full, MinOf, Size
<1>2. total' = total + Accepted(len) /\ head' = MaxOf(head, total' - windowSize)
      /\ UNCHANGED <<syncMode, windowSize, waiterChan, writer>> /\ writer = "running"
  BY DEF WriteAccepts
<1>3. syncMode => head' = head
  BY <1>1, <1>2 DEF MaxOf, Size
<1>4. head' \in Nat /\ total' \in Nat /\ head' <= total' /\ head' >= head
  BY <1>1, <1>2 DEF MaxOf
<1>5. Size' <= CirBufSize /\ (~syncMode' => Size' <= windowSize') /\ Size' >= Size
  BY <1>1, <1>2, WindowAssumption DEF MaxOf, Size
<1>6. NoLostWakeup' /\ NoPanic'
  BY <1>2 DEF NoLostWakeup, NoPanic
<1> QED BY <1>1, <1>2, <1>3, <1>4, <1>5, <1>6

(* A write that finds the window full always registers the one channel. *)
LEMMA WriteBlocksWindow ==
    ASSUME WindowInv, NEW len \in Nat, WriteBlocks(len)
    PROVE  WindowInv' /\ writer' = "blocked"
<1>1. ~waiterChan
  BY DEF WindowInv, NoLostWakeup, WriteBlocks
<1> QED BY <1>1 DEF WindowInv, WindowTypeOK, WindowBounded, NoLostWakeup, NoPanic,
                    WriteBlocks, Full, Size

LEMMA WriterResumesWindow ==
    ASSUME WindowInv, WriterResumes
    PROVE  WindowInv'
BY DEF WindowInv, WindowTypeOK, WindowBounded, NoLostWakeup, NoPanic,
       WriterResumes, Full, Size

LEMMA ConsumeWindow ==
    ASSUME WindowInv, NEW numBytes \in Nat, Consume(numBytes)
    PROVE  WindowInv' /\ Size' = Size - numBytes
<1> USE DEF WindowInv, WindowTypeOK, WindowBounded
<1>1. Size' = Size - numBytes /\ head' \in Nat /\ head' <= total'
  BY DEF Consume, Size
<1>2. Size \in Nat
  BY DEF Size
<1>3. WindowBounded'
  BY <1>1, <1>2, WindowAssumption DEF Consume
<1>4. WindowTypeOK'
  BY <1>1 DEF Consume, TryWakeWriter
<1>5. NoLostWakeup' /\ NoPanic'
  BY DEF Consume, TryWakeWriter, NoLostWakeup, NoPanic
<1> QED BY <1>1, <1>3, <1>4, <1>5

(* Resizing closes the channel whenever the writer may have got room. *)
LEMMA ResizeWindow ==
    ASSUME WindowInv, NEW sync \in BOOLEAN, NEW size \in Nat,
           SetEffectiveWindow(sync, size)
    PROVE  /\ WindowInv'
           /\ syncMode' = sync
           /\ sync => head' = head
<1> USE DEF WindowInv, WindowTypeOK, WindowBounded
<1> DEFINE window == MinOf(size, CirBufSize)
<1>1. window \in 0..CirBufSize
  BY WindowAssumption DEF MinOf
<1>2. /\ windowSize' = window /\ syncMode' = sync
      /\ head' = IF sync THEN head ELSE MaxOf(head, total - window)
      /\ IF syncMode /\ (window > windowSize \/ ~sync)
         THEN TryWakeWriter ELSE UNCHANGED waiterChan
      /\ UNCHANGED <<total, writer>>
  BY DEF SetEffectiveWindow
<1> HIDE DEF window
<1>3. head' \in Nat /\ head' <= total' /\ head' >= head
  BY <1>1, <1>2 DEF MaxOf
<1>4. WindowBounded'
  BY <1>1, <1>2, <1>3, WindowAssumption DEF MaxOf, Size
<1>5. WindowTypeOK'
  BY <1>1, <1>2, <1>3 DEF TryWakeWriter
<1>6. NoLostWakeup'
  <2>1. CASE syncMode /\ (window > windowSize \/ ~sync)
    BY <1>2, <2>1 DEF TryWakeWriter, NoLostWakeup
  <2>2. CASE ~(syncMode /\ (window > windowSize \/ ~sync))
    <3>1. UNCHANGED <<waiterChan, writer>>
      BY <1>2, <2>2
    <3>2. waiterChan => syncMode /\ Size >= windowSize /\ writer = "blocked"
      BY DEF NoLostWakeup, Full
    <3>3. waiterChan => sync /\ ~(window > windowSize)
      BY <2>2, <3>2
    <3>4. sync => Size' = Size
      BY <1>2 DEF Size
    <3>5. Size \in Nat
      BY DEF Size
    <3>6. Size >= windowSize /\ ~(window > windowSize) => Size >= window
      BY <1>1, <3>5
    <3>7. waiterChan => syncMode' /\ Size' >= windowSize'
      BY <1>2, <3>2, <3>3, <3>4, <3>6
    <3> QED BY <3>1, <3>2, <3>7 DEF NoLostWakeup, Full
  <2> QED BY <2>1, <2>2
<1> QED BY <1>2, <1>4, <1>5, <1>6 DEF NoPanic

-----------------------------------------------------------------------------

(* The window is bounded, loses no wake-up and never panics, for one writer and
   any use of it. *)
THEOREM WindowCorrect == WindowSpec => []WindowInv
<1>1. WindowInv /\ [WindowNext]_windowVars => WindowInv'
  <2> SUFFICES ASSUME WindowInv, [WindowNext]_windowVars PROVE WindowInv'
    OBVIOUS
  <2>1. \A len \in 1..MaxChunk : len \in Nat
    BY WindowAssumption
  <2>2. ASSUME NEW len \in 1..MaxChunk, WriteAccepts(len) \/ WriteBlocks(len)
        PROVE  WindowInv'
    BY <2>1, <2>2, WriteAcceptsWindow, WriteBlocksWindow
  <2>3. ASSUME NEW sync \in BOOLEAN, NEW size \in 0..CirBufSize + 1,
               SetEffectiveWindow(sync, size)
        PROVE  WindowInv'
    <3>1. size \in Nat
      BY WindowAssumption
    <3> QED BY <2>3, <3>1, ResizeWindow
  <2>4. ASSUME NEW numBytes \in 1..Size, Consume(numBytes)
        PROVE  WindowInv'
    <3>1. numBytes \in Nat
      BY DEF WindowInv, WindowTypeOK, Size
    <3> QED BY <2>4, <3>1, ConsumeWindow
  <2>5. ASSUME UNCHANGED windowVars PROVE WindowInv'
    BY <2>5 DEF windowVars, WindowInv, WindowTypeOK, WindowBounded, NoLostWakeup,
                NoPanic, Full, Size
  <2> QED BY <2>2, <2>3, <2>4, <2>5, WriterResumesWindow DEF WindowNext
<1> QED BY <1>1, MakeWindowInv, PTL DEF WindowSpec

-----------------------------------------------------------------------------
(* The stream manager *)

(* The groups of variables are always taken apart. *)
USE DEF windowVars, clientVars, ackVars, terminalVars, eventVars, readVars,
        packetVars, MaxPacketSize

-----------------------------------------------------------------------------

CallType == [step : {"none", "consume", "reread", "commit", "ack"},
             id : StreamIds \cup {NoStream}, rwnd : Nat, seq : Nat, headPos : Nat]

PacketType == [kind : {"none", "data", "eof", "error"},
               id : StreamIds \cup {NoStream}, seq : Nat \cup {-1}, len : Nat]

LEMMA NoCallType == NoCall \in CallType /\ NoPacket \in PacketType
BY DEF NoCall, NoPacket, CallType, PacketType

(* SMInv includes everything the window promises. *)
LEMMA WindowPart == SMInv => WindowInv
BY DEF SMInv, SMTypeOK, ReadLoopWaitsOnlyWhenFull, WindowInv

(* A step that leaves the window alone keeps what the window promises. *)
LEMMA WindowUntouched ==
    ASSUME SMInv, UNCHANGED windowVars
    PROVE  WindowInv' /\ Size' = Size /\ Size \in Nat
<1>1. Size' = Size /\ Size \in Nat
  BY DEF SMInv, SMTypeOK, WindowTypeOK, Size
<1>2. WindowInv'
  BY <1>1, WindowPart
  DEF WindowInv, WindowTypeOK, WindowBounded, NoLostWakeup, NoPanic, Full
<1> QED BY <1>1, <1>2

(* What a step must show of the readLoop's writer, given the window's part. *)
LEMMA WindowGives ==
    ASSUME WindowInv', (writer = "blocked" => readPc = "write")'
    PROVE  WindowBounded' /\ NoPanic' /\ ReadLoopWaitsOnlyWhenFull'
BY DEF WindowInv, ReadLoopWaitsOnlyWhenFull

LEMMA SMInit == MakeStreamManager => SMInv
<1> SUFFICES ASSUME MakeStreamManager PROVE SMInv
  OBVIOUS
<1>1. WindowInv
  BY MakeWindowInv DEF MakeStreamManager
<1>2. SMTypeOK
  <2>1. rwndSize \in Nat /\ sentNotAcked \in Nat /\ maxAcked \in Nat \X Nat
    BY ManagerAssumption DEF MakeStreamManager
  <2>2. readLeft \in 0..MaxChunk /\ available \in Nat /\ eofPos \in Nat \cup {-1}
    BY WindowAssumption DEF MakeStreamManager
  <2>3. call \in CallType /\ packet \in PacketType
    BY NoCallType DEF MakeStreamManager
  <2> QED BY <1>1, <2>1, <2>2, <2>3
          DEF MakeStreamManager, SMTypeOK, WindowInv, CallType, PacketType
<1>3. LockDiscipline /\ AvailableLags /\ ReadLoopProgress /\ TerminalSentWhen
  BY DEF MakeStreamManager, LockDiscipline, AvailableLags, ReadLoopProgress,
         TerminalSentWhen, NoCall
<1>4. ConnectedIsSync /\ InFlightIsHeld /\ ParkedHasNoWork
  BY DEF MakeStreamManager, ConnectedIsSync, InFlightIsHeld, ParkedHasNoWork
<1>5. ReadLoopWaitsOnlyWhenFull
  BY <1>1 DEF MakeStreamManager, MakeWindow, WindowInv, ReadLoopWaitsOnlyWhenFull
<1> QED BY <1>1, <1>2, <1>3, <1>4, <1>5 DEF SMInv, WindowInv

LEMMA AttachReaderInv ==
    ASSUME SMInv, AttachReader
    PROVE  SMInv'
<1> USE DEF SMInv
<1>1. WindowInv' /\ Size' = Size /\ Size \in Nat
  BY WindowUntouched DEF AttachReader
<1>2. SMTypeOK'
  BY <1>1, NoCallType DEF AttachReader, SMTypeOK, WindowInv, SignalDrain, CallType, PacketType
<1>3. WindowBounded' /\ NoPanic' /\ ReadLoopWaitsOnlyWhenFull'
  BY <1>1, WindowGives DEF AttachReader, ReadLoopWaitsOnlyWhenFull
<1>4. ConnectedIsSync' /\ InFlightIsHeld'
  BY <1>1 DEF AttachReader, ConnectedIsSync, InFlightIsHeld
<1>5. ParkedHasNoWork'
  BY <1>1 DEF AttachReader, ParkedHasNoWork, SignalDrain, LockFree, SenderHasWork, DataWaits, TerminalWaits, StreamOver, AvailableToSend
<1>6. LockDiscipline' /\ AvailableLags'
  BY <1>1 DEF AttachReader, LockDiscipline, AvailableLags, SignalDrain, LockFree
<1>7. ReadLoopProgress' /\ TerminalSentWhen'
  BY <1>1 DEF AttachReader, ReadLoopProgress, TerminalSentWhen
<1> QED BY <1>2, <1>3, <1>4, <1>5, <1>6, <1>7

LEMMA ReadLoopChecksClosedInv ==
    ASSUME SMInv, ReadLoopChecksClosed
    PROVE  SMInv'
<1> USE DEF SMInv
<1>1. WindowInv' /\ Size' = Size /\ Size \in Nat
  BY WindowUntouched DEF ReadLoopChecksClosed
<1>2. SMTypeOK'
  BY <1>1, NoCallType DEF ReadLoopChecksClosed, SMTypeOK, WindowInv, SignalDrain, CallType, PacketType
<1>3. WindowBounded' /\ NoPanic' /\ ReadLoopWaitsOnlyWhenFull'
  BY <1>1, WindowGives DEF ReadLoopChecksClosed, ReadLoopWaitsOnlyWhenFull
<1>4. ConnectedIsSync' /\ InFlightIsHeld'
  BY <1>1 DEF ReadLoopChecksClosed, ConnectedIsSync, InFlightIsHeld
<1>5. ParkedHasNoWork'
  BY <1>1 DEF ReadLoopChecksClosed, ParkedHasNoWork, SignalDrain, LockFree, SenderHasWork, DataWaits, TerminalWaits, StreamOver, AvailableToSend
<1>6. LockDiscipline' /\ AvailableLags'
  BY <1>1 DEF ReadLoopChecksClosed, LockDiscipline, AvailableLags, SignalDrain, LockFree
<1>7. ReadLoopProgress' /\ TerminalSentWhen'
  BY <1>1 DEF ReadLoopChecksClosed, ReadLoopProgress, TerminalSentWhen
<1> QED BY <1>2, <1>3, <1>4, <1>5, <1>6, <1>7

LEMMA PtyReadInv ==
    ASSUME SMInv, NEW n \in 0..MaxPacketSize, NEW err \in {"none", "eof", "error"}, PtyRead(n, err)
    PROVE  SMInv'
<1> USE DEF SMInv
<1>1. WindowInv' /\ Size' = Size /\ Size \in Nat
  BY WindowUntouched DEF PtyRead
<1>2. SMTypeOK'
  BY <1>1, NoCallType DEF PtyRead, SMTypeOK, WindowInv, SignalDrain, CallType, PacketType
<1>3. WindowBounded' /\ NoPanic' /\ ReadLoopWaitsOnlyWhenFull'
  BY <1>1, WindowGives DEF PtyRead, ReadLoopWaitsOnlyWhenFull
<1>4. ConnectedIsSync' /\ InFlightIsHeld'
  BY <1>1 DEF PtyRead, ConnectedIsSync, InFlightIsHeld
<1>5. ParkedHasNoWork'
  BY <1>1 DEF PtyRead, ParkedHasNoWork, SignalDrain, LockFree, SenderHasWork, DataWaits, TerminalWaits, StreamOver, AvailableToSend
<1>6. LockDiscipline' /\ AvailableLags'
  BY <1>1 DEF PtyRead, LockDiscipline, AvailableLags, SignalDrain, LockFree
<1>7. ReadLoopProgress' /\ TerminalSentWhen'
  BY <1>1 DEF PtyRead, ReadLoopProgress, TerminalSentWhen
<1> QED BY <1>2, <1>3, <1>4, <1>5, <1>6, <1>7

LEMMA ReadDataSignalsInv ==
    ASSUME SMInv, ReadDataSignals
    PROVE  SMInv'
<1> USE DEF SMInv
<1>1. WindowInv' /\ Size' = Size /\ Size \in Nat
  BY WindowUntouched DEF ReadDataSignals
<1>2. SMTypeOK'
  BY <1>1, NoCallType DEF ReadDataSignals, AfterWrite, SMTypeOK, WindowInv, SignalDrain, CallType, PacketType
<1>3. WindowBounded' /\ NoPanic' /\ ReadLoopWaitsOnlyWhenFull'
  BY <1>1, WindowGives DEF ReadDataSignals, AfterWrite, ReadLoopWaitsOnlyWhenFull
<1>4. ConnectedIsSync' /\ InFlightIsHeld'
  BY <1>1 DEF ReadDataSignals, AfterWrite, ConnectedIsSync, InFlightIsHeld
<1>5. ParkedHasNoWork'
  BY <1>1 DEF ReadDataSignals, AfterWrite, ParkedHasNoWork, SignalDrain, LockFree, SenderHasWork, DataWaits, TerminalWaits, StreamOver, AvailableToSend
<1>6. LockDiscipline' /\ AvailableLags'
  BY <1>1 DEF ReadDataSignals, AfterWrite, LockDiscipline, AvailableLags, SignalDrain, LockFree
<1>7. ReadLoopProgress' /\ TerminalSentWhen'
  BY <1>1 DEF ReadDataSignals, AfterWrite, ReadLoopProgress, TerminalSentWhen
<1> QED BY <1>2, <1>3, <1>4, <1>5, <1>6, <1>7

LEMMA ReadLoopEndsInv ==
    ASSUME SMInv, ReadLoopEnds
    PROVE  SMInv'
<1> USE DEF SMInv
<1>1. WindowInv' /\ Size' = Size /\ Size \in Nat
  BY WindowUntouched DEF ReadLoopEnds
<1>2. SMTypeOK'
  <2>1. eofPos' \in Nat /\ terminalEvent' \in {"none", "eof", "error"}
    BY DEF ReadLoopEnds, SMTypeOK, WindowTypeOK
  <2> QED BY <1>1, <2>1 DEF ReadLoopEnds, SMTypeOK, WindowInv, SignalDrain
<1>3. WindowBounded' /\ NoPanic' /\ ReadLoopWaitsOnlyWhenFull'
  BY <1>1, WindowGives DEF ReadLoopEnds, ReadLoopWaitsOnlyWhenFull
<1>4. ConnectedIsSync' /\ InFlightIsHeld'
  BY <1>1 DEF ReadLoopEnds, ConnectedIsSync, InFlightIsHeld
<1>5. ParkedHasNoWork'
  BY <1>1 DEF ReadLoopEnds, ParkedHasNoWork, SignalDrain, LockFree, SenderHasWork, DataWaits, TerminalWaits, StreamOver, AvailableToSend
<1>6. LockDiscipline' /\ AvailableLags'
  BY <1>1 DEF ReadLoopEnds, LockDiscipline, AvailableLags, SignalDrain, LockFree
<1>7. ReadLoopProgress' /\ TerminalSentWhen'
  BY <1>1 DEF ReadLoopEnds, ReadLoopProgress, TerminalSentWhen
<1> QED BY <1>2, <1>3, <1>4, <1>5, <1>6, <1>7

LEMMA SenderSizesInv ==
    ASSUME SMInv, SenderSizes
    PROVE  SMInv'
<1> USE DEF SMInv
<1>1. WindowInv' /\ Size' = Size /\ Size \in Nat
  BY WindowUntouched DEF SenderSizes
<1>2. SMTypeOK'
  BY <1>1, NoCallType DEF SenderSizes, SMTypeOK, WindowInv, SignalDrain, CallType, PacketType
<1>3. WindowBounded' /\ NoPanic' /\ ReadLoopWaitsOnlyWhenFull'
  BY <1>1, WindowGives DEF SenderSizes, ReadLoopWaitsOnlyWhenFull
<1>4. ConnectedIsSync' /\ InFlightIsHeld'
  BY <1>1 DEF SenderSizes, ConnectedIsSync, InFlightIsHeld
<1>5. ParkedHasNoWork'
  BY <1>1 DEF SenderSizes, ParkedHasNoWork, SignalDrain, LockFree, SenderHasWork, DataWaits, TerminalWaits, StreamOver, AvailableToSend
<1>6. LockDiscipline' /\ AvailableLags'
  BY <1>1 DEF SenderSizes, LockDiscipline, AvailableLags, SignalDrain, LockFree
<1>7. ReadLoopProgress' /\ TerminalSentWhen'
  BY <1>1 DEF SenderSizes, ReadLoopProgress, TerminalSentWhen
<1> QED BY <1>2, <1>3, <1>4, <1>5, <1>6, <1>7

LEMMA SenderStopsInv ==
    ASSUME SMInv, SenderStops
    PROVE  SMInv'
<1> USE DEF SMInv
<1>1. WindowInv' /\ Size' = Size /\ Size \in Nat
  BY WindowUntouched DEF SenderStops
<1>2. SMTypeOK'
  BY <1>1, NoCallType DEF SenderStops, SMTypeOK, WindowInv, SignalDrain, CallType, PacketType
<1>3. WindowBounded' /\ NoPanic' /\ ReadLoopWaitsOnlyWhenFull'
  BY <1>1, WindowGives DEF SenderStops, ReadLoopWaitsOnlyWhenFull
<1>4. ConnectedIsSync' /\ InFlightIsHeld'
  BY <1>1 DEF SenderStops, ConnectedIsSync, InFlightIsHeld
<1>5. ParkedHasNoWork'
  BY <1>1 DEF SenderStops, ParkedHasNoWork, SignalDrain, LockFree, SenderHasWork, DataWaits, TerminalWaits, StreamOver, AvailableToSend
<1>6. LockDiscipline' /\ AvailableLags'
  BY <1>1 DEF SenderStops, LockDiscipline, AvailableLags, SignalDrain, LockFree
<1>7. ReadLoopProgress' /\ TerminalSentWhen'
  BY <1>1 DEF SenderStops, ReadLoopProgress, TerminalSentWhen
<1> QED BY <1>2, <1>3, <1>4, <1>5, <1>6, <1>7

LEMMA SenderParksInv ==
    ASSUME SMInv, SenderParks
    PROVE  SMInv'
<1> USE DEF SMInv
<1>1. WindowInv' /\ Size' = Size /\ Size \in Nat
  BY WindowUntouched DEF SenderParks
<1>2. SMTypeOK'
  BY <1>1, NoCallType DEF SenderParks, SMTypeOK, WindowInv, SignalDrain, CallType, PacketType
<1>3. WindowBounded' /\ NoPanic' /\ ReadLoopWaitsOnlyWhenFull'
  BY <1>1, WindowGives DEF SenderParks, ReadLoopWaitsOnlyWhenFull
<1>4. ConnectedIsSync' /\ InFlightIsHeld'
  BY <1>1 DEF SenderParks, ConnectedIsSync, InFlightIsHeld
<1>5. ParkedHasNoWork'
  <2>1. ~StreamOver' /\ connected' = connected /\ readPc' = readPc
    BY DEF SenderParks, StreamOver
  <2>2. (DataWaits' <=> DataWaits) /\ (TerminalWaits' <=> TerminalWaits)
    BY <1>1 DEF SenderParks, DataWaits, TerminalWaits, AvailableToSend
  <2>3. available \in Nat /\ Size \in Nat
    BY <1>1 DEF SMTypeOK
  <2>4. ASSUME connected, DataWaits PROVE readPc = "signal"
    <3>1. ~(available > 0 /\ PeekSize > 0)
      BY <2>4 DEF SenderParks, DataReady, DataWaits
    <3>2. available > 0 => PeekSize > 0
      BY <1>1, <2>3, <2>4, WindowAssumption, ManagerAssumption
      DEF PeekSize, DataWaits, AvailableToSend, EffectiveWindow, MinOf, SMTypeOK
    <3>3. available = 0 /\ Size # 0
      BY <2>3, <2>4, <3>1, <3>2 DEF DataWaits, SMTypeOK
    <3> QED BY <3>3 DEF SenderParks, AvailableLags
  <2>5. ASSUME connected, TerminalWaits PROVE FALSE
    <3>1. available = 0
      BY <2>3, <2>5 DEF TerminalWaits, SenderParks, AvailableLags
    <3> QED BY <2>5, <3>1 DEF SenderParks, TerminalReady, TerminalWaits
  <2> QED BY <2>1, <2>2, <2>4, <2>5 DEF ParkedHasNoWork, SenderHasWork
<1>6. LockDiscipline' /\ AvailableLags'
  BY <1>1 DEF SenderParks, LockDiscipline, AvailableLags, SignalDrain, LockFree
<1>7. ReadLoopProgress' /\ TerminalSentWhen'
  BY <1>1 DEF SenderParks, ReadLoopProgress, TerminalSentWhen
<1> QED BY <1>2, <1>3, <1>4, <1>5, <1>6, <1>7

(* The next packet has no more bytes than the windows allow and the buffer holds. *)
LEMMA PeekBounds ==
    ASSUME SMInv, DataReady
    PROVE  PeekSize \in Nat /\ PeekSize <= AvailableToSend /\ PeekSize <= Size - sentNotAcked
<1>1. Size \in Nat /\ sentNotAcked \in Nat /\ available \in Nat /\ AvailableToSend \in Int
  BY ManagerAssumption
  DEF SMInv, SMTypeOK, WindowTypeOK, Size, AvailableToSend, EffectiveWindow, MinOf
<1> QED BY <1>1, WindowAssumption DEF PeekSize, DataReady, MinOf

LEMMA SenderPreparesDataInv ==
    ASSUME SMInv, SenderPreparesData
    PROVE  SMInv'
<1> USE DEF SMInv
<1>0. PeekSize \in Nat /\ PeekSize <= AvailableToSend /\ PeekSize <= Size - sentNotAcked
  BY PeekBounds DEF SenderPreparesData
<1>1. WindowInv' /\ Size' = Size /\ Size \in Nat
  BY WindowUntouched DEF SenderPreparesData
<1>2. SMTypeOK'
  <2>1. packet' \in PacketType
    BY <1>0 DEF SenderPreparesData, SMTypeOK, WindowTypeOK, PacketType
  <2>2. sentNotAcked' \in Nat /\ available' \in Nat
    BY <1>0 DEF SenderPreparesData, SMTypeOK
  <2> QED BY <1>1, <2>1, <2>2 DEF SenderPreparesData, SMTypeOK, WindowInv, PacketType
<1>3. WindowBounded' /\ NoPanic' /\ ReadLoopWaitsOnlyWhenFull'
  BY <1>1, WindowGives DEF SenderPreparesData, ReadLoopWaitsOnlyWhenFull
<1>4. ConnectedIsSync' /\ InFlightIsHeld'
  <2>1. ConnectedIsSync'
    BY DEF SenderPreparesData, ConnectedIsSync
  <2>2. sentNotAcked' <= Size' /\ sentNotAcked' <= CwndSize
    BY <1>0, <1>1, ManagerAssumption
    DEF SenderPreparesData, AvailableToSend, EffectiveWindow, MinOf, SMTypeOK
  <2> QED BY <2>1, <2>2 DEF InFlightIsHeld
<1>5. ParkedHasNoWork'
  BY <1>1 DEF SenderPreparesData, ParkedHasNoWork, SignalDrain, LockFree, SenderHasWork, DataWaits, TerminalWaits, StreamOver, AvailableToSend
<1>6. LockDiscipline' /\ AvailableLags'
  BY <1>1 DEF SenderPreparesData, LockDiscipline, AvailableLags, SignalDrain, LockFree
<1>7. ReadLoopProgress' /\ TerminalSentWhen'
  BY <1>1 DEF SenderPreparesData, ReadLoopProgress, TerminalSentWhen
<1> QED BY <1>2, <1>3, <1>4, <1>5, <1>6, <1>7

LEMMA SenderPreparesTerminalInv ==
    ASSUME SMInv, SenderPreparesTerminal
    PROVE  SMInv'
<1> USE DEF SMInv
<1>1. WindowInv' /\ Size' = Size /\ Size \in Nat
  BY WindowUntouched DEF SenderPreparesTerminal
<1>2. SMTypeOK'
  BY <1>1, NoCallType DEF SenderPreparesTerminal, SMTypeOK, WindowInv, SignalDrain, CallType, PacketType
<1>3. WindowBounded' /\ NoPanic' /\ ReadLoopWaitsOnlyWhenFull'
  BY <1>1, WindowGives DEF SenderPreparesTerminal, ReadLoopWaitsOnlyWhenFull
<1>4. ConnectedIsSync' /\ InFlightIsHeld'
  BY <1>1 DEF SenderPreparesTerminal, ConnectedIsSync, InFlightIsHeld
<1>5. ParkedHasNoWork'
  BY <1>1 DEF SenderPreparesTerminal, ParkedHasNoWork, SignalDrain, LockFree, SenderHasWork, DataWaits, TerminalWaits, StreamOver, AvailableToSend
<1>6. LockDiscipline' /\ AvailableLags'
  BY <1>1 DEF SenderPreparesTerminal, LockDiscipline, AvailableLags, SignalDrain, LockFree
<1>7. ReadLoopProgress' /\ TerminalSentWhen'
  <2>1. ReadLoopProgress'
    BY <1>1 DEF SenderPreparesTerminal, ReadLoopProgress
  <2>2. connected /\ available = 0 /\ terminalEvent # "none" /\ sendPc = "sized"
    BY DEF SenderPreparesTerminal, TerminalReady
  <2>3. readPc = "done"
    BY <2>2 DEF ReadLoopProgress
  <2>4. Size = 0
    BY <2>2, <2>3 DEF AvailableLags
  <2> QED BY <1>1, <2>1, <2>2, <2>4 DEF SenderPreparesTerminal, TerminalSentWhen
<1> QED BY <1>2, <1>3, <1>4, <1>5, <1>6, <1>7

LEMMA SenderSendsInv ==
    ASSUME SMInv, SenderSends
    PROVE  SMInv'
<1> USE DEF SMInv
<1>1. WindowInv' /\ Size' = Size /\ Size \in Nat
  BY WindowUntouched DEF SenderSends
<1>2. SMTypeOK'
  BY <1>1, NoCallType DEF SenderSends, SMTypeOK, WindowInv, SignalDrain, CallType, PacketType
<1>3. WindowBounded' /\ NoPanic' /\ ReadLoopWaitsOnlyWhenFull'
  BY <1>1, WindowGives DEF SenderSends, ReadLoopWaitsOnlyWhenFull
<1>4. ConnectedIsSync' /\ InFlightIsHeld'
  BY <1>1 DEF SenderSends, ConnectedIsSync, InFlightIsHeld
<1>5. ParkedHasNoWork'
  BY <1>1 DEF SenderSends, ParkedHasNoWork, SignalDrain, LockFree, SenderHasWork, DataWaits, TerminalWaits, StreamOver, AvailableToSend
<1>6. LockDiscipline' /\ AvailableLags'
  BY <1>1 DEF SenderSends, LockDiscipline, AvailableLags, SignalDrain, LockFree
<1>7. ReadLoopProgress' /\ TerminalSentWhen'
  BY <1>1 DEF SenderSends, ReadLoopProgress, TerminalSentWhen
<1> QED BY <1>2, <1>3, <1>4, <1>5, <1>6, <1>7

LEMMA ConnectBeginsInv ==
    ASSUME SMInv, NEW id \in StreamIds, NEW rwnd \in Nat, NEW clientSeq \in Nat, ConnectBegins(id, rwnd, clientSeq)
    PROVE  SMInv'
<1> USE DEF SMInv
<1>1. WindowInv' /\ Size' = Size /\ Size \in Nat
  BY WindowUntouched DEF ConnectBegins
<1>2. SMTypeOK'
  <2>1. call' \in CallType
    BY DEF ConnectBegins, CallType, SMTypeOK, WindowTypeOK
  <2> QED BY <1>1, <2>1 DEF ConnectBegins, SMTypeOK, WindowInv, CallType
<1>3. WindowBounded' /\ NoPanic' /\ ReadLoopWaitsOnlyWhenFull'
  BY <1>1, WindowGives DEF ConnectBegins, ReadLoopWaitsOnlyWhenFull
<1>4. ConnectedIsSync' /\ InFlightIsHeld'
  BY <1>1 DEF ConnectBegins, ConnectedIsSync, InFlightIsHeld
<1>5. ParkedHasNoWork'
  BY <1>1 DEF ConnectBegins, ParkedHasNoWork, SignalDrain, LockFree, SenderHasWork, DataWaits, TerminalWaits, StreamOver, AvailableToSend
<1>6. LockDiscipline' /\ AvailableLags'
  <2>1. sendPc' = sendPc /\ sendPc # "sized" /\ ~connected' /\ ~terminalEventAcked'
    BY DEF ConnectBegins, LockFree, StreamOver
  <2>2. call'.step \in {"consume", "commit"}
        /\ (call'.step = "consume" => call'.seq > call'.headPos)
    BY DEF ConnectBegins
  <2> QED BY <2>1, <2>2 DEF LockDiscipline, AvailableLags
<1>7. ReadLoopProgress' /\ TerminalSentWhen'
  BY <1>1 DEF ConnectBegins, ReadLoopProgress, TerminalSentWhen
<1> QED BY <1>2, <1>3, <1>4, <1>5, <1>6, <1>7

LEMMA ConnectRereadsInv ==
    ASSUME SMInv, ConnectRereads
    PROVE  SMInv'
<1> USE DEF SMInv
<1>1. WindowInv' /\ Size' = Size /\ Size \in Nat
  BY WindowUntouched DEF ConnectRereads
<1>2. SMTypeOK'
  <2>1. call' \in CallType
    BY DEF ConnectRereads, CallType, SMTypeOK, WindowTypeOK
  <2> QED BY <1>1, <2>1 DEF ConnectRereads, SMTypeOK, WindowInv, CallType
<1>3. WindowBounded' /\ NoPanic' /\ ReadLoopWaitsOnlyWhenFull'
  BY <1>1, WindowGives DEF ConnectRereads, ReadLoopWaitsOnlyWhenFull
<1>4. ConnectedIsSync' /\ InFlightIsHeld'
  BY <1>1 DEF ConnectRereads, ConnectedIsSync, InFlightIsHeld
<1>5. ParkedHasNoWork'
  BY <1>1 DEF ConnectRereads, ParkedHasNoWork, SignalDrain, LockFree, SenderHasWork, DataWaits, TerminalWaits, StreamOver, AvailableToSend
<1>6. LockDiscipline' /\ AvailableLags'
  BY <1>1 DEF ConnectRereads, LockDiscipline, AvailableLags, SignalDrain, LockFree
<1>7. ReadLoopProgress' /\ TerminalSentWhen'
  BY <1>1 DEF ConnectRereads, ReadLoopProgress, TerminalSentWhen
<1> QED BY <1>2, <1>3, <1>4, <1>5, <1>6, <1>7

LEMMA RecvFinAckInv ==
    ASSUME SMInv, NEW id \in StreamIds, RecvFinAck(id)
    PROVE  SMInv'
<1> USE DEF SMInv
<1>1. WindowInv' /\ Size' = Size /\ Size \in Nat
  BY WindowUntouched DEF RecvFinAck
<1>2. SMTypeOK'
  BY <1>1, NoCallType DEF RecvFinAck, SMTypeOK, WindowInv, SignalDrain, CallType, PacketType
<1>3. WindowBounded' /\ NoPanic' /\ ReadLoopWaitsOnlyWhenFull'
  BY <1>1, WindowGives DEF RecvFinAck, ReadLoopWaitsOnlyWhenFull
<1>4. ConnectedIsSync' /\ InFlightIsHeld'
  BY <1>1 DEF RecvFinAck, ConnectedIsSync, InFlightIsHeld
<1>5. ParkedHasNoWork'
  BY <1>1 DEF RecvFinAck, ParkedHasNoWork, SignalDrain, LockFree, SenderHasWork, DataWaits, TerminalWaits, StreamOver, AvailableToSend
<1>6. LockDiscipline' /\ AvailableLags'
  BY <1>1 DEF RecvFinAck, LockDiscipline, AvailableLags, SignalDrain, LockFree
<1>7. ReadLoopProgress' /\ TerminalSentWhen'
  BY <1>1 DEF RecvFinAck, ReadLoopProgress, TerminalSentWhen
<1> QED BY <1>2, <1>3, <1>4, <1>5, <1>6, <1>7

LEMMA CloseInv ==
    ASSUME SMInv, Close
    PROVE  SMInv'
<1> USE DEF SMInv
<1>1. WindowInv' /\ Size' = Size /\ Size \in Nat
  BY WindowUntouched DEF Close
<1>2. SMTypeOK'
  BY <1>1, NoCallType DEF Close, SMTypeOK, WindowInv, SignalDrain, CallType, PacketType
<1>3. WindowBounded' /\ NoPanic' /\ ReadLoopWaitsOnlyWhenFull'
  BY <1>1, WindowGives DEF Close, ReadLoopWaitsOnlyWhenFull
<1>4. ConnectedIsSync' /\ InFlightIsHeld'
  BY <1>1 DEF Close, ConnectedIsSync, InFlightIsHeld
<1>5. ParkedHasNoWork'
  BY <1>1 DEF Close, ParkedHasNoWork, SignalDrain, LockFree, SenderHasWork, DataWaits, TerminalWaits, StreamOver, AvailableToSend
<1>6. LockDiscipline' /\ AvailableLags'
  BY <1>1 DEF Close, LockDiscipline, AvailableLags, SignalDrain, LockFree
<1>7. ReadLoopProgress' /\ TerminalSentWhen'
  BY <1>1 DEF Close, ReadLoopProgress, TerminalSentWhen
<1> QED BY <1>2, <1>3, <1>4, <1>5, <1>6, <1>7

-----------------------------------------------------------------------------
(* The actions that use the window. *)

LEMMA ReadDataWrittenInv ==
    ASSUME SMInv, ReadDataWritten
    PROVE  SMInv'
<1> USE DEF SMInv
<1>1. /\ WindowInv' /\ Accepted(readLeft) \in 1..readLeft
      /\ total' = total + Accepted(readLeft)
      /\ (syncMode => head' = head) /\ Size' >= Size
  <2>1. readLeft \in Nat
    BY WindowAssumption DEF SMTypeOK
  <2> QED BY <2>1, WindowPart, WriteAcceptsWindow DEF ReadDataWritten
<1>2. SMTypeOK'
  BY <1>1, WindowAssumption DEF ReadDataWritten, SMTypeOK, WindowInv
<1>3. WindowBounded' /\ NoPanic' /\ ReadLoopWaitsOnlyWhenFull'
  BY <1>1, WindowGives DEF ReadDataWritten, WriteAccepts
<1>4. ConnectedIsSync'
  BY DEF ReadDataWritten, WriteAccepts, ConnectedIsSync
<1>5. InFlightIsHeld'
  <2>1. Size \in Nat /\ Size' \in Nat
    BY <1>1 DEF SMTypeOK, WindowInv, WindowTypeOK, Size
  <2> QED BY <1>1, <2>1 DEF ReadDataWritten, InFlightIsHeld, SMTypeOK
<1>6. ParkedHasNoWork'
  BY DEF ReadDataWritten, ParkedHasNoWork
<1>7. LockDiscipline' /\ AvailableLags'
  <2>1. Size \in Nat /\ Size' \in Nat
    BY <1>1 DEF SMTypeOK, WindowInv, WindowTypeOK, Size
  <2> QED BY <1>1, <2>1 DEF ReadDataWritten, LockDiscipline, AvailableLags, SMTypeOK
<1>8. ReadLoopProgress' /\ TerminalSentWhen'
  BY DEF ReadDataWritten, ReadLoopProgress, TerminalSentWhen
<1> QED BY <1>2, <1>3, <1>4, <1>5, <1>6, <1>7, <1>8

(* A step of the readLoop that moves no byte. *)
LEMMA ReadLoopSleepsInv ==
    ASSUME SMInv, WindowInv', UNCHANGED <<head, total, syncMode, windowSize>>,
           UNCHANGED <<clientVars, ackVars, terminalVars, eventVars, call, readVars,
                       sendPc, packetVars>>,
           writer' \in {"running", "blocked"}, readPc = "write" \/ writer' = "running"
    PROVE  SMInv'
<1> USE DEF SMInv
<1>1. SMTypeOK'
  BY DEF SMTypeOK, WindowInv
<1>2. Size' = Size
  BY DEF Size
<1>3. WindowBounded' /\ NoPanic' /\ ReadLoopWaitsOnlyWhenFull'
  BY WindowGives
<1>4. ConnectedIsSync' /\ InFlightIsHeld' /\ ParkedHasNoWork'
  BY <1>2 DEF ConnectedIsSync, InFlightIsHeld, ParkedHasNoWork, SenderHasWork, DataWaits, TerminalWaits, StreamOver, AvailableToSend
<1>5. LockDiscipline' /\ AvailableLags' /\ ReadLoopProgress' /\ TerminalSentWhen'
  BY <1>2 DEF LockDiscipline, AvailableLags, ReadLoopProgress, TerminalSentWhen
<1> QED BY <1>1, <1>3, <1>4, <1>5

LEMMA ReadDataBlockedInv ==
    ASSUME SMInv, ReadDataBlocked
    PROVE  SMInv'
<1>1. readLeft \in Nat
  BY WindowAssumption DEF SMInv, SMTypeOK
<1>2. WindowInv' /\ writer' = "blocked"
  BY <1>1, WindowPart, WriteBlocksWindow DEF ReadDataBlocked
<1> QED BY <1>2, ReadLoopSleepsInv DEF ReadDataBlocked, WriteBlocks

LEMMA ReadLoopResumesInv ==
    ASSUME SMInv, ReadLoopResumes
    PROVE  SMInv'
<1>1. WindowInv'
  BY WindowPart, WriterResumesWindow DEF ReadLoopResumes
<1> QED BY <1>1, ReadLoopSleepsInv DEF ReadLoopResumes, WriterResumes

LEMMA ConnectConsumesInv ==
    ASSUME SMInv, ConnectConsumes
    PROVE  SMInv'
<1> USE DEF SMInv
<1> DEFINE bytesToConsume == call.seq - call.headPos
<1>1. ~connected /\ ~terminalEventAcked /\ sendPc # "sized" /\ bytesToConsume \in Nat
  BY DEF ConnectConsumes, LockDiscipline, SMTypeOK
<1>2. WindowInv' /\ UNCHANGED <<total, writer>>
  <2>1. CASE bytesToConsume > Size
    BY <2>1, WindowUntouched DEF ConnectConsumes
  <2>2. CASE ~(bytesToConsume > Size)
    BY <1>1, <2>2, WindowPart, ConsumeWindow DEF ConnectConsumes, Consume
  <2> QED BY <2>1, <2>2
<1>3. call' \in CallType /\ call'.step \in {"none", "reread"}
  BY NoCallType DEF ConnectConsumes, SMTypeOK, CallType, NoCall
<1> HIDE DEF bytesToConsume
<1>4. SMTypeOK'
  BY <1>2, <1>3 DEF ConnectConsumes, SMTypeOK, WindowInv, CallType
<1>5. WindowBounded' /\ NoPanic' /\ ReadLoopWaitsOnlyWhenFull'
  BY <1>2, WindowGives DEF ConnectConsumes, ReadLoopWaitsOnlyWhenFull
<1>6. ConnectedIsSync' /\ InFlightIsHeld'
  BY <1>1 DEF ConnectConsumes, ConnectedIsSync, InFlightIsHeld
<1>7. ParkedHasNoWork'
  BY <1>1 DEF ConnectConsumes, ParkedHasNoWork, SenderHasWork, StreamOver
<1>8. LockDiscipline' /\ AvailableLags'
  BY <1>1, <1>3 DEF ConnectConsumes, LockDiscipline, AvailableLags
<1>9. ReadLoopProgress' /\ TerminalSentWhen'
  BY <1>1, <1>2 DEF ConnectConsumes, ReadLoopProgress, TerminalSentWhen
<1> QED BY <1>4, <1>5, <1>6, <1>7, <1>8, <1>9

LEMMA EffectiveWindowType == \A rwnd \in Nat : EffectiveWindow(rwnd) \in Nat
BY ManagerAssumption DEF EffectiveWindow, MinOf

LEMMA DifferenceIsNat ==
    ASSUME NEW low \in Nat, NEW high \in Nat, low <= high
    PROVE  high - low \in Nat
OBVIOUS

LEMMA ConnectCommitsInv ==
    ASSUME SMInv, ConnectCommits
    PROVE  SMInv'
<1> USE DEF SMInv
<1>1. ~connected /\ ~terminalEventAcked /\ sendPc # "sized"
      /\ call.rwnd \in Nat /\ call.id \in StreamIds \cup {NoStream}
  BY DEF ConnectCommits, LockDiscipline, SMTypeOK
<1>2. WindowInv' /\ syncMode' = TRUE /\ UNCHANGED <<total, writer>>
  <2>1. EffectiveWindow(call.rwnd) \in Nat
    BY <1>1, EffectiveWindowType
  <2> QED BY <2>1, WindowPart, ResizeWindow DEF ConnectCommits, SetEffectiveWindow
<1>3. SMTypeOK'
  BY <1>1, <1>2, NoCallType
  DEF ConnectCommits, SMTypeOK, WindowInv, CallType, SignalDrain
<1>4. WindowBounded' /\ NoPanic' /\ ReadLoopWaitsOnlyWhenFull'
  BY <1>2, WindowGives DEF ConnectCommits, ReadLoopWaitsOnlyWhenFull
<1>5. ConnectedIsSync' /\ InFlightIsHeld'
  <2>1. head' \in Nat /\ total' \in Nat /\ head' <= total'
    BY <1>2 DEF WindowInv, WindowTypeOK
  <2>2. Size' \in Nat
    BY <2>1, DifferenceIsNat DEF Size
  <2>3. CwndSize \in Nat
    BY ManagerAssumption
  <2>4. sentNotAcked' = 0
    BY DEF ConnectCommits
  <2> QED BY <1>2, <2>2, <2>3, <2>4 DEF ConnectedIsSync, InFlightIsHeld
<1>6. sendPc' # "parked" /\ sendPc' # "sized" /\ ~terminalEventSent'
  BY <1>1 DEF ConnectCommits, SignalDrain, TerminalSentWhen
<1>7. ParkedHasNoWork' /\ LockDiscipline' /\ AvailableLags'
  BY <1>6 DEF ConnectCommits, ParkedHasNoWork, LockDiscipline, AvailableLags, NoCall
<1>8. ReadLoopProgress' /\ TerminalSentWhen'
  BY <1>2, <1>6 DEF ConnectCommits, ReadLoopProgress, TerminalSentWhen
<1> QED BY <1>3, <1>4, <1>5, <1>7, <1>8

LEMMA ClientDisconnectedInv ==
    ASSUME SMInv, ClientDisconnected
    PROVE  SMInv'
<1> USE DEF SMInv
<1>1. WindowInv' /\ UNCHANGED <<total, writer>>
  BY WindowPart, ResizeWindow, WindowAssumption DEF ClientDisconnected, SetEffectiveWindow
<1>2. SMTypeOK'
  <2>1. terminalEventSent' \in BOOLEAN /\ connected' \in BOOLEAN
    BY DEF ClientDisconnected, SMTypeOK
  <2>2. maxAcked' \in Nat \X Nat /\ sentNotAcked' \in Nat
    BY DEF ClientDisconnected
  <2>3. sendPc' \in {"prepare", "sized", "parked", "send", "done"}
    BY DEF ClientDisconnected, SMTypeOK, SignalDrain
  <2> QED BY <1>1, <2>1, <2>2, <2>3 DEF ClientDisconnected, SMTypeOK, WindowInv
<1>3. WindowBounded' /\ NoPanic' /\ ReadLoopWaitsOnlyWhenFull'
  BY <1>1, WindowGives DEF ClientDisconnected, ReadLoopWaitsOnlyWhenFull
<1>4. ConnectedIsSync' /\ InFlightIsHeld'
  BY DEF ClientDisconnected, ConnectedIsSync, InFlightIsHeld
<1>5. sendPc' # "parked" /\ sendPc' # "sized"
  BY DEF ClientDisconnected, SignalDrain, LockFree
<1>6. ParkedHasNoWork' /\ LockDiscipline' /\ AvailableLags'
  BY <1>5 DEF ClientDisconnected, ParkedHasNoWork, LockDiscipline, AvailableLags, LockFree
<1>7. ReadLoopProgress' /\ TerminalSentWhen'
  BY <1>1 DEF ClientDisconnected, ReadLoopProgress, TerminalSentWhen
<1> QED BY <1>2, <1>3, <1>4, <1>6, <1>7

LEMMA RecvDataAckInv ==
    ASSUME SMInv, NEW id \in StreamIds, NEW seq \in Nat, NEW rwnd \in Nat,
           RecvDataAck(id, seq, rwnd)
    PROVE  SMInv'
<1> USE DEF SMInv
<1> DEFINE acked == seq - head
<1>1. connected /\ syncMode /\ call.step = "none" /\ sendPc # "sized"
      /\ maxAcked' = <<seq, rwnd>>
      /\ UNCHANGED <<clientVars, terminalVars, eventVars, readVars, sendPc, packetVars>>
  BY DEF RecvDataAck, AckIsFor, LockFree, ConnectedIsSync
<1>2. CASE ~AcksInFlight(seq)
  <2>1. UNCHANGED windowVars /\ UNCHANGED sentNotAcked /\ UNCHANGED call
    BY <1>2 DEF RecvDataAck
  <2>2. WindowInv' /\ Size' = Size
    BY <2>1, WindowUntouched
  <2>3. SMTypeOK'
    BY <1>1, <2>1, <2>2 DEF SMTypeOK, WindowInv
  <2>4. WindowBounded' /\ NoPanic' /\ ReadLoopWaitsOnlyWhenFull'
    BY <1>1, <2>1, <2>2, WindowGives DEF ReadLoopWaitsOnlyWhenFull
  <2>5. ConnectedIsSync' /\ InFlightIsHeld' /\ ParkedHasNoWork'
    BY <1>1, <2>1, <2>2
    DEF ConnectedIsSync, InFlightIsHeld, ParkedHasNoWork, SenderHasWork, DataWaits, TerminalWaits, StreamOver, AvailableToSend
  <2>6. LockDiscipline' /\ AvailableLags' /\ ReadLoopProgress' /\ TerminalSentWhen'
    BY <1>1, <2>1, <2>2 DEF LockDiscipline, AvailableLags, ReadLoopProgress, TerminalSentWhen
  <2> QED BY <2>3, <2>4, <2>5, <2>6
<1>3. CASE AcksInFlight(seq)
  <2>1. acked \in Nat /\ acked <= sentNotAcked /\ Size \in Nat /\ sentNotAcked \in Nat
        /\ seq = head + acked /\ (seq > head <=> acked > 0)
    BY <1>3 DEF AcksInFlight, SMTypeOK, WindowTypeOK, Size
  <2>2. /\ IF seq > head THEN Consume(acked) ELSE UNCHANGED windowVars
        /\ sentNotAcked' = sentNotAcked - acked
        /\ call' = [NoCall EXCEPT !.step = "ack", !.rwnd = rwnd, !.seq = acked]
    BY <1>3 DEF RecvDataAck
  <2>3. WindowInv' /\ Size' = Size - acked
        /\ UNCHANGED <<total, syncMode, windowSize, writer>>
    <3>1. CASE seq > head
      BY <2>1, <2>2, <3>1, WindowPart, ConsumeWindow DEF Consume
    <3>2. CASE ~(seq > head)
      <4>1. acked = 0
        BY <2>1, <3>2
      <4> QED BY <2>1, <2>2, <3>2, <4>1, WindowUntouched
    <3> QED BY <3>1, <3>2
  <2>4. call' \in CallType /\ call'.step = "ack" /\ call'.seq = acked
    BY <2>1, <2>2, NoCallType DEF NoCall, CallType
  <2> HIDE DEF acked
  <2>5. SMTypeOK'
    <3>1. sentNotAcked' \in Nat
      BY <2>1, <2>2
    <3> QED BY <1>1, <2>3, <2>4, <3>1 DEF SMTypeOK, WindowInv, CallType
  <2>6. WindowBounded' /\ NoPanic' /\ ReadLoopWaitsOnlyWhenFull'
    BY <1>1, <2>3, WindowGives DEF ReadLoopWaitsOnlyWhenFull
  <2>7. ConnectedIsSync'
    BY <1>1, <2>3 DEF ConnectedIsSync
  <2>8. InFlightIsHeld'
    <3>1. sentNotAcked <= Size /\ sentNotAcked <= CwndSize
      BY <1>1 DEF InFlightIsHeld
    <3> QED BY <2>1, <2>2, <2>3, <3>1, ManagerAssumption DEF InFlightIsHeld
  <2>9. ParkedHasNoWork'
    <3>1. CASE acked > 0
      BY <2>4, <3>1 DEF ParkedHasNoWork
    <3>2. CASE ~(acked > 0)
      <4>1. acked = 0
        BY <2>1, <3>2
      <4>2. Size' = Size /\ sentNotAcked' = sentNotAcked
        BY <2>1, <2>2, <2>3, <4>1
      <4>3. SenderHasWork' <=> SenderHasWork
        BY <1>1, <4>2 DEF SenderHasWork, DataWaits, TerminalWaits, StreamOver, AvailableToSend
      <4> QED BY <1>1, <4>3 DEF ParkedHasNoWork
    <3> QED BY <3>1, <3>2
  <2>10. LockDiscipline' /\ AvailableLags'
    BY <1>1, <2>4 DEF LockDiscipline, AvailableLags
  <2>11. ReadLoopProgress'
    BY <1>1, <2>3 DEF ReadLoopProgress
  <2>12. TerminalSentWhen'
    <3>1. Size = 0 => Size' = 0
      BY <1>1, <2>1, <2>3 DEF InFlightIsHeld
    <3> QED BY <1>1, <3>1 DEF TerminalSentWhen
  <2> QED BY <2>5, <2>6, <2>7, <2>8, <2>9, <2>10, <2>11, <2>12
<1> QED BY <1>2, <1>3

LEMMA RecvAckResizesInv ==
    ASSUME SMInv, RecvAckResizes
    PROVE  SMInv'
<1> USE DEF SMInv
<1>1. connected /\ call.step = "ack" /\ sendPc # "sized" /\ call.rwnd \in Nat
      /\ call.seq \in Nat /\ rwndSize \in Nat
  BY DEF RecvAckResizes, AckWakesSender, LockDiscipline, SMTypeOK
<1>2. WindowInv' /\ syncMode' = TRUE /\ Size' = Size /\ UNCHANGED <<total, writer>>
  <2>1. EffectiveWindow(call.rwnd) \in Nat
    BY <1>1, EffectiveWindowType
  <2> QED BY <2>1, WindowPart, ResizeWindow DEF RecvAckResizes, AckWakesSender, SetEffectiveWindow, Size
<1>3. SMTypeOK'
  BY <1>1, <1>2, NoCallType
  DEF RecvAckResizes, AckWakesSender, SMTypeOK, WindowInv, CallType, SignalDrain
<1>4. WindowBounded' /\ NoPanic' /\ ReadLoopWaitsOnlyWhenFull'
  BY <1>2, WindowGives DEF RecvAckResizes, AckWakesSender, ReadLoopWaitsOnlyWhenFull
<1>5. ConnectedIsSync' /\ InFlightIsHeld'
  BY <1>2 DEF RecvAckResizes, AckWakesSender, ConnectedIsSync, InFlightIsHeld
<1>6. ParkedHasNoWork'
  <2>1. CASE call.rwnd > rwndSize \/ call.seq > 0
    BY <1>1, <2>1 DEF RecvAckResizes, AckWakesSender, SignalDrain, ParkedHasNoWork
  <2>2. CASE ~(call.rwnd > rwndSize \/ call.seq > 0)
    <3>1. sendPc' = sendPc /\ rwndSize' = call.rwnd /\ UNCHANGED <<connected, ackVars,
            terminalVars, eventVars, readVars>>
      BY <2>2 DEF RecvAckResizes, AckWakesSender
    <3>2. AvailableToSend' <= AvailableToSend /\ AvailableToSend' \in Int
          /\ AvailableToSend \in Int
      BY <1>1, <2>2, <3>1, ManagerAssumption
      DEF AvailableToSend, EffectiveWindow, MinOf, SMTypeOK
    <3>3. DataWaits' => DataWaits
      BY <1>2, <3>1, <3>2 DEF DataWaits
    <3>4. SenderHasWork' => SenderHasWork
      BY <1>2, <3>1, <3>3 DEF SenderHasWork, TerminalWaits, StreamOver
    <3>5. sendPc = "parked" /\ SenderHasWork => readPc = "signal"
      BY <1>1, <2>2 DEF ParkedHasNoWork
    <3> QED BY <3>1, <3>4, <3>5 DEF ParkedHasNoWork
  <2> QED BY <2>1, <2>2
<1>7. LockDiscipline' /\ AvailableLags'
  BY <1>1 DEF RecvAckResizes, AckWakesSender, LockDiscipline, AvailableLags, NoCall, SignalDrain
<1>8. ReadLoopProgress' /\ TerminalSentWhen'
  BY <1>2 DEF RecvAckResizes, AckWakesSender, ReadLoopProgress, TerminalSentWhen
<1> QED BY <1>3, <1>4, <1>5, <1>6, <1>7, <1>8

LEMMA SetRwndSizeInv ==
    ASSUME SMInv, NEW rwnd \in Nat, SetRwndSize(rwnd)
    PROVE  SMInv'
<1> USE DEF SMInv
<1>1. WindowInv' /\ syncMode' = TRUE /\ Size' = Size /\ UNCHANGED <<total, writer>>
  <2>1. EffectiveWindow(rwnd) \in Nat
    BY EffectiveWindowType
  <2> QED BY <2>1, WindowPart, ResizeWindow DEF SetRwndSize, SetEffectiveWindow, Size
<1>2. SMTypeOK'
  BY <1>1 DEF SetRwndSize, SMTypeOK, WindowInv, SignalDrain
<1>3. WindowBounded' /\ NoPanic' /\ ReadLoopWaitsOnlyWhenFull'
  BY <1>1, WindowGives DEF SetRwndSize, ReadLoopWaitsOnlyWhenFull
<1>4. ConnectedIsSync' /\ InFlightIsHeld'
  BY <1>1 DEF SetRwndSize, ConnectedIsSync, InFlightIsHeld
<1>5. sendPc' # "parked" /\ sendPc' # "sized"
  BY DEF SetRwndSize, SignalDrain, LockFree
<1>6. ParkedHasNoWork' /\ LockDiscipline' /\ AvailableLags'
  BY <1>5 DEF SetRwndSize, ParkedHasNoWork, LockDiscipline, AvailableLags
<1>7. ReadLoopProgress' /\ TerminalSentWhen'
  BY <1>1 DEF SetRwndSize, ReadLoopProgress, TerminalSentWhen
<1> QED BY <1>2, <1>3, <1>4, <1>6, <1>7

-----------------------------------------------------------------------------

LEMMA SMUnchangedInv == SMInv /\ UNCHANGED smVars => SMInv'
<1> SUFFICES ASSUME SMInv, UNCHANGED smVars PROVE SMInv'
  OBVIOUS
<1> USE DEF SMInv, smVars
<1>1. WindowInv' /\ Size' = Size
  BY WindowUntouched
<1>2. SMTypeOK' /\ WindowBounded' /\ NoPanic' /\ ReadLoopWaitsOnlyWhenFull'
  BY <1>1, WindowGives DEF SMTypeOK, WindowInv, ReadLoopWaitsOnlyWhenFull
<1>3. ConnectedIsSync' /\ InFlightIsHeld' /\ ParkedHasNoWork'
  BY <1>1 DEF ConnectedIsSync, InFlightIsHeld, ParkedHasNoWork, SenderHasWork,
              DataWaits, TerminalWaits, StreamOver, AvailableToSend
<1>4. LockDiscipline' /\ AvailableLags' /\ ReadLoopProgress' /\ TerminalSentWhen'
  BY <1>1 DEF LockDiscipline, AvailableLags, ReadLoopProgress, TerminalSentWhen
<1> QED BY <1>2, <1>3, <1>4

LEMMA SMStep == SMInv /\ [SMNext]_smVars => SMInv'
<1> SUFFICES ASSUME SMInv, [SMNext]_smVars PROVE SMInv'
  OBVIOUS
<1>1. CASE ReadLoop
  BY <1>1, ReadLoopChecksClosedInv, PtyReadInv, ReadDataWrittenInv, ReadDataBlockedInv,
     ReadLoopResumesInv, ReadDataSignalsInv, ReadLoopEndsInv DEF ReadLoop
<1>2. CASE SenderLoop
  BY <1>2, SenderSizesInv, SenderStopsInv, SenderParksInv, SenderPreparesDataInv,
     SenderPreparesTerminalInv, SenderSendsInv DEF SenderLoop
<1>3. CASE CallInProgress
  BY <1>3, ConnectConsumesInv, ConnectRereadsInv, ConnectCommitsInv, RecvAckResizesInv
  DEF CallInProgress
<1>4. CASE Callers
  <2>1. (\A rwnd \in RwndSizes : rwnd \in Nat) /\ (\A seq \in 0..MaxBytes : seq \in Nat)
    BY WindowAssumption, ManagerAssumption
  <2>2. ASSUME NEW id \in StreamIds, NEW rwnd \in RwndSizes, NEW clientSeq \in 0..MaxBytes,
               ConnectBegins(id, rwnd, clientSeq)
        PROVE  SMInv'
    BY <2>1, <2>2, ConnectBeginsInv
  <2>3. ASSUME NEW id \in StreamIds, RecvFinAck(id)
        PROVE  SMInv'
    BY <2>3, RecvFinAckInv
  <2>4. ASSUME NEW id \in StreamIds, NEW seq \in 0..MaxBytes, NEW rwnd \in RwndSizes,
               RecvDataAck(id, seq, rwnd)
        PROVE  SMInv'
    BY <2>1, <2>4, RecvDataAckInv
  <2>5. ASSUME NEW rwnd \in RwndSizes, SetRwndSize(rwnd)
        PROVE  SMInv'
    BY <2>1, <2>5, SetRwndSizeInv
  <2> QED BY <1>4, <2>2, <2>3, <2>4, <2>5, AttachReaderInv, ClientDisconnectedInv, CloseInv
          DEF Callers
<1> QED BY <1>1, <1>2, <1>3, <1>4, SMUnchangedInv DEF SMNext

-----------------------------------------------------------------------------
(* The theorems. *)

(* The invariant is inductive. *)
THEOREM StreamManagerCorrect == SMSpec => []SMInv
BY SMInit, SMStep, PTL DEF SMSpec

(* Every variable keeps its type. *)
THEOREM TypeCorrect == SMSpec => []SMTypeOK
<1>1. SMInv => SMTypeOK
  BY DEF SMInv
<1> QED BY <1>1, StreamManagerCorrect, PTL

(* While a client is connected, what it has been sent and has not acknowledged
   is still in the buffer, and within the congestion window. *)
THEOREM InFlightSafe == SMSpec => []InFlightIsHeld
<1>1. SMInv => InFlightIsHeld
  BY DEF SMInv
<1> QED BY <1>1, StreamManagerCorrect, PTL

(* EOF is announced only after everything has been acknowledged. *)
THEOREM TerminalOrdered == SMSpec => []TerminalAfterAllAcked
<1>1. SMInv => TerminalAfterAllAcked
  <2> SUFFICES ASSUME SMInv, connected, terminalEventSent
               PROVE  head = eofPos /\ total = eofPos
    BY DEF TerminalAfterAllAcked
  <2>1. terminalEvent # "none" /\ Size = 0
    BY DEF SMInv, TerminalSentWhen
  <2>2. eofPos = total
    BY <2>1 DEF SMInv, ReadLoopProgress
  <2> QED BY <2>1, <2>2 DEF SMInv, SMTypeOK, WindowTypeOK, Size
<1> QED BY <1>1, StreamManagerCorrect, PTL

(* A connected window is in sync mode, so newer output cannot overwrite what is
   in flight. *)
THEOREM ConnectedInSync == SMSpec => []ConnectedIsSync
<1>1. SMInv => ConnectedIsSync
  BY DEF SMInv
<1> QED BY <1>1, StreamManagerCorrect, PTL

(* The readLoop sleeps only in the middle of a chunk and on a full window. *)
THEOREM ReadLoopNotForgotten == SMSpec => []ReadLoopWaitsOnlyWhenFull
<1>1. SMInv => ReadLoopWaitsOnlyWhenFull
  BY DEF SMInv
<1> QED BY <1>1, StreamManagerCorrect, PTL

(* Neither goroutine misses its wake-up: the sender parks only without work and
   the readLoop sleeps only while the window is full. *)
THEOREM NoLostWakeups == SMSpec => [](ParkedHasNoWork /\ ReadLoopWaitsOnlyWhenFull)
<1>1. SMInv => ParkedHasNoWork /\ ReadLoopWaitsOnlyWhenFull
  BY DEF SMInv
<1> QED BY <1>1, StreamManagerCorrect, PTL

-----------------------------------------------------------------------------
(* What may take bytes out of the window while a client stays connected. *)

LEMMA ReadLoopDropsNothing ==
    ASSUME SMInv, ReadLoop, connected
    PROVE  head' = head
<1>1. CASE ReadDataWritten
  <2>1. WriteAccepts(readLeft) /\ syncMode /\ readLeft \in Nat
    BY <1>1, WindowAssumption DEF ReadDataWritten, SMInv, ConnectedIsSync, SMTypeOK
  <2>2. windowSize \in Nat /\ head \in Nat /\ total \in Nat
    BY WindowAssumption DEF SMInv, SMTypeOK, WindowTypeOK
  <2>3. total' <= head + windowSize
    BY <2>1, <2>2 DEF WriteAccepts, Accepted, MinOf, Size
  <2> QED BY <2>1, <2>2, <2>3 DEF WriteAccepts, MaxOf, Accepted, MinOf, Size
<1>2. CASE ReadDataBlocked \/ ReadLoopResumes
  BY <1>2 DEF ReadDataBlocked, ReadLoopResumes, WriteBlocks, WriterResumes
<1>3. CASE ReadLoopChecksClosed \/ ReadDataSignals \/ ReadLoopEnds
           \/ \E n \in 0..MaxPacketSize, err \in {"none", "eof", "error"} : PtyRead(n, err)
  BY <1>3 DEF ReadLoopChecksClosed, ReadDataSignals, ReadLoopEnds, PtyRead
<1> QED BY <1>1, <1>2, <1>3 DEF ReadLoop

LEMMA CallsDropNothing ==
    ASSUME SMInv, connected, connected',
           CallInProgress \/ SenderLoop \/ AttachReader \/ ClientDisconnected \/ Close
             \/ (\E id \in StreamIds, rwnd \in RwndSizes, seq \in 0..MaxBytes :
                    ConnectBegins(id, rwnd, seq))
             \/ (\E id \in StreamIds : RecvFinAck(id))
             \/ (\E rwnd \in RwndSizes : SetRwndSize(rwnd))
    PROVE  head' = head
<1>1. CASE CallInProgress
  <2>1. ~ConnectConsumes /\ ~ConnectRereads /\ ~ConnectCommits
    BY DEF SMInv, LockDiscipline, ConnectConsumes, ConnectRereads, ConnectCommits
  <2> QED BY <1>1, <2>1 DEF CallInProgress, RecvAckResizes, SetEffectiveWindow
<1>2. CASE SenderLoop
  BY <1>2 DEF SenderLoop, SenderSizes, SenderStops, SenderParks, SenderPreparesData,
              SenderPreparesTerminal, SenderSends
<1>3. CASE AttachReader \/ ClientDisconnected \/ Close
  BY <1>3 DEF AttachReader, ClientDisconnected, Close
<1>4. CASE \E id \in StreamIds, rwnd \in RwndSizes, seq \in 0..MaxBytes :
             ConnectBegins(id, rwnd, seq)
  BY <1>4 DEF ConnectBegins
<1>5. CASE \E id \in StreamIds : RecvFinAck(id)
  BY <1>5 DEF RecvFinAck
<1>6. CASE \E rwnd \in RwndSizes : SetRwndSize(rwnd)
  BY <1>6 DEF SetRwndSize, SetEffectiveWindow
<1> QED BY <1>1, <1>2, <1>3, <1>4, <1>5, <1>6

(* Whatever arrives from the wire, and however fast the program writes, no byte
   leaves the window while a client is connected unless it was sent to it. *)
THEOREM SentBytesOnly == SMSpec => OnlySentBytesLeave
<1>1. SMInv /\ [SMNext]_smVars =>
        [connected /\ connected' => head' - head <= sentNotAcked]_smVars
  <2> SUFFICES ASSUME SMInv, SMNext, connected, connected'
               PROVE  head' - head <= sentNotAcked
    OBVIOUS
  <2>1. sentNotAcked \in Nat /\ head \in Nat
    BY DEF SMInv, SMTypeOK, WindowTypeOK
  <2>2. CASE head' = head
    BY <2>1, <2>2
  <2>3. ASSUME NEW id \in StreamIds, NEW seq \in 0..MaxBytes, NEW rwnd \in RwndSizes,
               RecvDataAck(id, seq, rwnd)
        PROVE  head' - head <= sentNotAcked
    <3>1. seq \in Nat
      BY WindowAssumption
    <3>2. head' = head \/ (AcksInFlight(seq) /\ head' = head + (seq - head))
      BY <2>3 DEF RecvDataAck, Consume
    <3> QED BY <2>1, <3>1, <3>2 DEF AcksInFlight
  <2> QED BY <2>2, <2>3, ReadLoopDropsNothing, CallsDropNothing DEF SMNext, Callers
<1> QED BY <1>1, StreamManagerCorrect, PTL DEF SMSpec, OnlySentBytesLeave

-----------------------------------------------------------------------------
(* ClientConnected reads the head, then switches the window to sync mode, and
   answers with what it read: a readLoop that writes in between may overwrite. *)

AnswerInv ==
    /\ call.step \in {"consume", "commit"} =>
          call.headPos <= head /\ (call.headPos < head => Size = windowSize)
    /\ call.step = "reread" => call.seq <= head
    /\ call.step = "commit" => call.seq <= call.headPos

LEMMA AnswerFields ==
    ASSUME SMInv
    PROVE  /\ head \in Nat /\ total \in Nat /\ head <= total /\ windowSize \in Nat
           /\ Size \in Nat /\ call.seq \in Nat /\ call.headPos \in Nat /\ call \in CallType
BY WindowAssumption DEF SMInv, SMTypeOK, WindowTypeOK, Size, CallType

(* A write leaves the head alone, or the window full. *)
LEMMA WriteMovesHead ==
    ASSUME SMInv, WriteAccepts(readLeft)
    PROVE  head <= head' /\ (head' # head => Size' = windowSize) /\ windowSize' = windowSize
           /\ (Size = windowSize => Size' = windowSize)
<1>1. readLeft \in Nat
  BY WindowAssumption DEF SMInv, SMTypeOK
<1>2. /\ WindowInv' /\ Accepted(readLeft) \in 1..readLeft /\ total' = total + Accepted(readLeft)
      /\ Size' >= Size
  BY <1>1, WindowPart, WriteAcceptsWindow
<1>3. head' = MaxOf(head, total' - windowSize) /\ windowSize' = windowSize
      /\ syncMode' = syncMode /\ ~Full
  BY DEF WriteAccepts
<1>4. head \in Nat /\ total' \in Nat /\ windowSize \in Nat /\ Size \in Nat
  BY <1>1, <1>2, AnswerFields
<1>5. /\ head <= head' /\ head' \in Nat /\ (head' # head => total' - head' = windowSize)
      /\ Size' = total' - head'
  <2> DEFINE h == head
             t == total'
             w == windowSize
             m == head'
  <2>1. h \in Nat /\ t \in Nat /\ w \in Nat /\ m = MaxOf(h, t - w)
    BY <1>3, <1>4
  <2> HIDE DEF h, t, w, m
  <2>2. h <= m /\ m \in Nat /\ (m # h => t - m = w)
    BY <2>1 DEF MaxOf
  <2> QED BY <2>2 DEF h, t, w, m, Size
<1>6. Size = windowSize => ~syncMode'
  BY <1>3, <1>4 DEF Full
<1>7. ~syncMode' => Size' <= windowSize'
  BY <1>2 DEF WindowInv, WindowBounded
<1>8. Size' \in Int
  BY <1>4, <1>5
<1>9. Size = windowSize => Size' = windowSize
  BY <1>2, <1>3, <1>4, <1>6, <1>7, <1>8
<1> QED BY <1>3, <1>5, <1>9

LEMMA AnswerStep == SMInv /\ AnswerInv /\ [SMNext]_smVars => AnswerInv'
<1> SUFFICES ASSUME SMInv, AnswerInv, [SMNext]_smVars PROVE AnswerInv'
  OBVIOUS
<1>1. CASE call'.step \in {"none", "ack"}
  BY <1>1 DEF AnswerInv
<1>2. CASE UNCHANGED <<call, head, total, windowSize>>
  BY <1>2 DEF AnswerInv, Size
<1>3. CASE ReadLoop
  <2>1. CASE ReadDataWritten
    <3>1. WriteAccepts(readLeft) /\ call' = call
      BY <2>1 DEF ReadDataWritten
    <3>2. head <= head' /\ (head' # head => Size' = windowSize) /\ windowSize' = windowSize
          /\ (Size = windowSize => Size' = windowSize)
      BY <3>1, WriteMovesHead
    <3>3. head' \in Int
      BY <3>1, AnswerFields DEF WriteAccepts, MaxOf, Accepted, MinOf
    <3> QED BY <3>1, <3>2, <3>3, AnswerFields DEF AnswerInv
  <2>2. CASE ReadDataBlocked \/ ReadLoopResumes
    BY <1>2, <2>2 DEF ReadDataBlocked, ReadLoopResumes, WriteBlocks, WriterResumes
  <2>3. CASE ReadLoopChecksClosed \/ ReadDataSignals \/ ReadLoopEnds
             \/ \E n \in 0..MaxPacketSize, err \in {"none", "eof", "error"} : PtyRead(n, err)
    BY <1>2, <2>3 DEF ReadLoopChecksClosed, ReadDataSignals, ReadLoopEnds, PtyRead, windowVars
  <2> QED BY <1>3, <2>1, <2>2, <2>3 DEF ReadLoop
<1>4. CASE SenderLoop
  BY <1>2, <1>4 DEF SenderLoop, SenderSizes, SenderStops, SenderParks, SenderPreparesData,
                    SenderPreparesTerminal, SenderSends, windowVars
<1>5. CASE CallInProgress
  <2>1. CASE ConnectConsumes
    <3> DEFINE n == call.seq - call.headPos
    <3>1. call.step = "consume" /\ call.headPos <= head /\ n \in Nat
      BY <2>1, AnswerFields DEF ConnectConsumes, AnswerInv, SMInv, LockDiscipline
    <3>2. CASE n > Size
      BY <1>1, <2>1, <3>2 DEF ConnectConsumes, NoCall
    <3>3. CASE ~(n > Size)
      <4> DEFINE c == [call EXCEPT !.step = "reread"]
      <4>1. call' = c /\ head' = head + n
        BY <2>1, <3>3 DEF ConnectConsumes, Consume
      <4>2. c.step = "reread" /\ c.seq = call.seq
        BY AnswerFields DEF CallType
      <4> HIDE DEF c
      <4>3. call'.seq <= head'
        BY <3>1, <4>1, <4>2, AnswerFields
      <4> QED BY <4>1, <4>2, <4>3 DEF AnswerInv
    <3> QED BY <3>2, <3>3
  <2>2. CASE ConnectRereads
    <3> DEFINE c == [call EXCEPT !.step = "commit", !.headPos = head]
    <3>1. call' = c /\ UNCHANGED <<head, total, windowSize>> /\ call.step = "reread"
      BY <2>2 DEF ConnectRereads, windowVars
    <3>2. c.step = "commit" /\ c.seq = call.seq /\ c.headPos = head
      BY AnswerFields DEF CallType
    <3> HIDE DEF c
    <3>3. call.seq <= head /\ head \in Nat
      BY <3>1, AnswerFields DEF AnswerInv
    <3>4. head' = head /\ call'.step = "commit" /\ call'.seq = call.seq /\ call'.headPos = head
      BY <3>1, <3>2
    <3> QED BY <3>3, <3>4 DEF AnswerInv
  <2>3. CASE ConnectCommits \/ RecvAckResizes
    <3>1. call' = NoCall
      BY <2>3 DEF ConnectCommits, RecvAckResizes
    <3> QED BY <1>1, <3>1 DEF NoCall
  <2> QED BY <1>5, <2>1, <2>2, <2>3 DEF CallInProgress
<1>6. CASE Callers
  <2>1. ASSUME NEW id \in StreamIds, NEW rwnd \in RwndSizes, NEW clientSeq \in 0..MaxBytes,
               ConnectBegins(id, rwnd, clientSeq)
        PROVE  AnswerInv'
    <3>1. clientSeq \in Nat
      BY WindowAssumption
    <3>2. /\ UNCHANGED <<head, total, windowSize>>
          /\ call' = [step |-> IF clientSeq > head THEN "consume" ELSE "commit",
                      id |-> id, rwnd |-> rwnd, seq |-> clientSeq, headPos |-> head]
      BY <2>1 DEF ConnectBegins, windowVars
    <3>3. /\ call'.step = IF clientSeq > head THEN "consume" ELSE "commit"
          /\ call'.seq = clientSeq /\ call'.headPos = head
      BY <3>2
    <3> QED BY <3>1, <3>2, <3>3, AnswerFields DEF AnswerInv
  <2>2. ASSUME NEW id \in StreamIds, NEW seq \in 0..MaxBytes, NEW rwnd \in RwndSizes,
               RecvDataAck(id, seq, rwnd)
        PROVE  AnswerInv'
    BY <1>1, <2>2 DEF RecvDataAck, LockFree, NoCall
  <2>3. CASE AttachReader \/ ClientDisconnected \/ Close
             \/ (\E id \in StreamIds : RecvFinAck(id)) \/ (\E rwnd \in RwndSizes : SetRwndSize(rwnd))
    BY <1>1, <2>3 DEF AttachReader, ClientDisconnected, Close, RecvFinAck, SetRwndSize, LockFree
  <2> QED BY <1>6, <2>1, <2>2, <2>3 DEF Callers
<1>7. CASE UNCHANGED smVars
  BY <1>2, <1>7 DEF smVars, windowVars
<1> QED BY <1>3, <1>4, <1>5, <1>6, <1>7 DEF SMNext

(* What ClientConnected answers: the position it read as the head, for its final
   comparison with the client's position never applies; at or before the first
   byte the stream will send; and before it only when the buffer is full, the
   readLoop having overwritten bytes since the head was read, which no answer
   then tells the client of. *)
AnswerIsTheStart ==
    call.step = "commit" =>
        /\ StartSeq = call.headPos /\ call.seq <= StartSeq
        /\ StartSeq <= head
        /\ StartSeq < head => Size = windowSize

THEOREM ClientToldWhereItStarts == SMSpec => []AnswerIsTheStart
<1>1. SMInv /\ AnswerInv => AnswerIsTheStart
  BY AnswerFields DEF AnswerInv, AnswerIsTheStart, StartSeq, MaxOf
<1>2. MakeStreamManager => AnswerInv
  BY DEF MakeStreamManager, NoCall, AnswerInv
<1> QED BY <1>1, <1>2, AnswerStep, StreamManagerCorrect, PTL DEF SMSpec
=============================================================================
