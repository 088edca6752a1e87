-------------------------- MODULE JobManagerProof --------------------------
(***************************************************************************)
(* Proofs about the job manager, for any number of connections and streams *)
(* and every buffer and window size.  Two things are shown of every step:  *)
(* it keeps JmInv, and it is a step the stream manager allows its users.   *)
(* The second is what lets the theorems of module StreamManagerProof be    *)
(* used of the stream manager inside the job manager.                      *)
(***************************************************************************)
EXTENDS JobManager, StreamManagerProof

USE DEF windowVars, clientVars, ackVars, terminalVars, eventVars, readVars,
        packetVars, MaxPacketSize

-----------------------------------------------------------------------------

JmCallType == [step : {"none", "detach", "connect", "connecting", "attach"},
               start : BOOLEAN, conn : Conns \cup {NoConn},
               meta : Metas \cup {NoMeta}, seq : Nat]

(* A step of the stream manager, or none. *)
AllowedStep == SMNext \/ UNCHANGED smVars

LEMMA MetasAreTyped ==
    ASSUME NEW meta \in Metas
    PROVE  meta.id \in StreamIds /\ meta.rwnd \in RwndSizes
BY DEF Metas

LEMMA SeqIsNat == \A seq \in 0..MaxBytes : seq \in Nat
BY WindowAssumption

LEMMA JmInit == SetupJobManager => JmInv
<1> SUFFICES ASSUME SetupJobManager PROVE JmInv
  OBVIOUS
<1>1. JmTypeOK
  BY DEF SetupJobManager, JmTypeOK, NoJmCall
<1>2. CallArguments
  BY DEF SetupJobManager, CallArguments, JmFree, NoJmCall
<1>3. ClientDuringCall
  BY DEF SetupJobManager, ClientDuringCall, ClientConnectedReturned, MakeStreamManager,
         NoCall, NoJmCall
<1> QED BY <1>1, <1>2, <1>3 DEF JmInv

(* What leaves the job manager's own variables, the stream's `connected' and the
   call under way alone keeps JmInv. *)
LEMMA ClientUntouched ==
    ASSUME JmInv, UNCHANGED jmVars, UNCHANGED connected,
           (call.step \notin {"consume", "reread", "commit"} =>
                call'.step \notin {"consume", "reread", "commit"})
    PROVE  JmInv'
BY DEF JmInv, JmTypeOK, CallArguments, ClientDuringCall, ClientConnectedReturned,
       JmFree, jmVars

-----------------------------------------------------------------------------
(* The stream manager's own goroutines. *)

LEMMA ReadLoopKeepsClient == ReadLoop => UNCHANGED <<connected, call>>
BY DEF ReadLoop, ReadLoopChecksClosed, PtyRead, ReadDataWritten, ReadDataBlocked,
       ReadLoopResumes, ReadDataSignals, ReadLoopEnds

LEMMA SenderLoopKeepsClient == SenderLoop => UNCHANGED <<connected, call>>
BY DEF SenderLoop, SenderSizes, SenderStops, SenderParks, SenderPreparesData,
       SenderPreparesTerminal, SenderSends

LEMMA StreamStepsInv ==
    ASSUME JmInv, StreamSteps
    PROVE  JmInv' /\ AllowedStep
<1>1. CASE ReadLoopSteps
  BY <1>1, ReadLoopKeepsClient, ClientUntouched DEF ReadLoopSteps, AllowedStep, SMNext
<1>2. CASE SenderSteps
  BY <1>2, SenderLoopKeepsClient, ClientUntouched DEF SenderSteps, AllowedStep, SMNext
<1>3. CASE CallSteps
  <2>1. AllowedStep
    BY <1>3 DEF CallSteps, AllowedStep, SMNext
  <2>2. CASE ConnectConsumes \/ ConnectRereads
    <3>1. UNCHANGED connected /\ ~ClientConnectedReturned
      BY <2>2 DEF ConnectConsumes, ConnectRereads, ClientConnectedReturned
    <3>2. UNCHANGED jmVars
      BY <1>3 DEF CallSteps
    <3> QED BY <2>1, <3>1, <3>2, ClientUntouched DEF ClientConnectedReturned
  <2>3. CASE ConnectCommits
    <3>1. jmCall.step = "connecting"
      BY <2>3 DEF JmInv, ClientDuringCall, ClientConnectedReturned, ConnectCommits
    <3>2. UNCHANGED jmVars
      BY <1>3 DEF CallSteps
    <3>3. ClientDuringCall'
      BY <2>3, <3>1, <3>2
      DEF JmInv, ClientDuringCall, ClientConnectedReturned, jmVars
    <3> QED BY <2>1, <3>2, <3>3 DEF JmInv, JmTypeOK, CallArguments, JmFree, jmVars
  <2>4. CASE RecvAckResizes
    <3>1. UNCHANGED connected /\ call'.step = "none"
      BY <2>4 DEF RecvAckResizes, NoCall
    <3>2. UNCHANGED jmVars
      BY <1>3 DEF CallSteps
    <3> QED BY <2>1, <3>1, <3>2, ClientUntouched
  <2> QED BY <1>3, <2>2, <2>3, <2>4 DEF CallSteps, CallInProgress
<1> QED BY <1>1, <1>2, <1>3 DEF StreamSteps

-----------------------------------------------------------------------------
(* Connections come and go. *)

LEMMA AcceptInv ==
    ASSUME JmInv, NEW c \in Conns, Accept(c)
    PROVE  JmInv' /\ AllowedStep
BY DEF Accept, JmInv, JmTypeOK, CallArguments, ClientDuringCall, ClientConnectedReturned,
       JmFree, AllowedStep, smVars

LEMMA AuthenticateInv ==
    ASSUME JmInv, NEW c \in Conns, Authenticate(c)
    PROVE  JmInv' /\ AllowedStep
BY DEF Authenticate, AfterClose, JmInv, JmTypeOK, CallArguments, ClientDuringCall,
       ClientConnectedReturned, JmFree, AllowedStep, smVars

LEMMA ConnectionDropsInv ==
    ASSUME JmInv, NEW c \in Conns, ConnectionDrops(c) \/ Drained(c)
    PROVE  JmInv' /\ AllowedStep
BY DEF ConnectionDrops, Drained, AfterClose, JmInv, JmTypeOK, CallArguments, ClientDuringCall,
       ClientConnectedReturned, JmFree, AllowedStep, smVars

LEMMA ClientDisconnectedLeaves ==
    ClientDisconnected => ~connected' /\ UNCHANGED call /\ AllowedStep
BY DEF ClientDisconnected, AllowedStep, SMNext, Callers

LEMMA HandlerReturnsInv ==
    ASSUME JmInv, NEW c \in Conns, HandlerReturns(c)
    PROVE  JmInv' /\ AllowedStep
<1>1. JmTypeOK' /\ CallArguments'
  BY DEF HandlerReturns, JmInv, JmTypeOK, CallArguments, JmFree
<1>2. CASE connectedStreamClient = c
  <2>1. ClientDisconnected /\ connectedStreamClient' = NoConn /\ UNCHANGED jmCall
    BY <1>2 DEF HandlerReturns
  <2> QED BY <1>1, <2>1, ClientDisconnectedLeaves
          DEF HandlerReturns, JmInv, ClientDuringCall, ClientConnectedReturned, JmFree
<1>3. CASE connectedStreamClient # c
  <2>1. UNCHANGED <<smVars, connectedStreamClient, jmCall>>
    BY <1>3 DEF HandlerReturns
  <2> QED BY <1>1, <2>1
          DEF JmInv, ClientDuringCall, ClientConnectedReturned, AllowedStep, smVars
<1> QED BY <1>2, <1>3

-----------------------------------------------------------------------------
(* Calls that hold the job manager's lock. *)

LEMMA StartJobInv ==
    ASSUME JmInv, NEW c \in Conns, NEW meta \in Metas, StartJob(c, meta)
    PROVE  JmInv' /\ AllowedStep
<1>1. jmCall' \in JmCallType /\ jmCall'.step = "detach" /\ jmCall'.conn \in Conns
      /\ jmCall'.meta \in Metas /\ jmCall'.seq \in 0..MaxBytes
  BY WindowAssumption DEF StartJob, JmCallType
<1>2. JmTypeOK'
  BY <1>1 DEF StartJob, JmInv, JmTypeOK, JmCallType
<1> QED BY <1>1, <1>2
        DEF StartJob, JmInv, CallArguments, ClientDuringCall, ClientConnectedReturned,
            JmFree, AllowedStep, smVars

LEMMA PrepareConnectInv ==
    ASSUME JmInv, NEW c \in Conns, NEW meta \in Metas, NEW seq \in 0..MaxBytes,
           PrepareConnect(c, meta, seq)
    PROVE  JmInv' /\ AllowedStep
<1>1. jmCall' \in JmCallType /\ jmCall'.step = "detach" /\ jmCall'.conn \in Conns
      /\ jmCall'.meta \in Metas /\ jmCall'.seq \in 0..MaxBytes
  BY SeqIsNat DEF PrepareConnect, JmCallType
<1>2. JmTypeOK'
  BY <1>1 DEF PrepareConnect, JmInv, JmTypeOK, JmCallType
<1> QED BY <1>1, <1>2
        DEF PrepareConnect, JmInv, CallArguments, ClientDuringCall, ClientConnectedReturned,
            JmFree, AllowedStep, smVars

(* A call that moves on keeps its arguments. *)
LEMMA CallMovesOn ==
    ASSUME JmInv, ~JmFree,
           NEW step \in {"connect", "connecting", "attach"},
           jmCall' = [jmCall EXCEPT !.step = step]
    PROVE  /\ jmCall' \in JmCallType /\ jmCall'.step = step
           /\ CallArguments'
BY DEF JmInv, JmTypeOK, CallArguments, JmFree, JmCallType

(* A call that returns releases the lock. *)
LEMMA CallReturns ==
    ASSUME jmCall' = NoJmCall
    PROVE  jmCall' \in JmCallType /\ jmCall'.step = "none" /\ CallArguments'
BY DEF NoJmCall, JmCallType, CallArguments, JmFree

LEMMA DetachesOldClientInv ==
    ASSUME JmInv, DetachesOldClient
    PROVE  JmInv' /\ AllowedStep
<1>1. jmCall' \in JmCallType /\ jmCall'.step = "connect" /\ CallArguments'
  BY CallMovesOn DEF DetachesOldClient, JmFree
<1>2. JmTypeOK'
  BY <1>1 DEF DetachesOldClient, JmInv, JmTypeOK, JmCallType
<1>3. CASE connectedStreamClient # NoConn
  <2>1. ClientDisconnected /\ connectedStreamClient' = NoConn
    BY <1>3 DEF DetachesOldClient
  <2> QED BY <1>1, <1>2, <2>1, ClientDisconnectedLeaves
          DEF DetachesOldClient, JmInv, ClientDuringCall, ClientConnectedReturned
<1>4. CASE connectedStreamClient = NoConn
  <2>1. UNCHANGED smVars /\ ~connected /\ connectedStreamClient' = NoConn
    BY <1>4 DEF DetachesOldClient, JmInv, ClientDuringCall
  <2> QED BY <1>1, <1>2, <2>1
          DEF DetachesOldClient, JmInv, ClientDuringCall, ClientConnectedReturned,
              AllowedStep, smVars
<1> QED BY <1>3, <1>4

LEMMA ConnectsClientInv ==
    ASSUME JmInv, ConnectsClient
    PROVE  JmInv' /\ AllowedStep
<1>1. ~JmFree /\ ~connected /\ connectedStreamClient = NoConn
      /\ UNCHANGED connectedStreamClient
  BY DEF ConnectsClient, JmInv, ClientDuringCall, JmFree
<1>2. CASE StreamOver \/ connected
  <2>1. jmCall' = NoJmCall /\ UNCHANGED smVars
    BY <1>2 DEF ConnectsClient
  <2>2. jmCall' \in JmCallType /\ jmCall'.step = "none" /\ CallArguments'
    BY <2>1, CallReturns
  <2>3. JmTypeOK'
    BY <2>2 DEF ConnectsClient, JmInv, JmTypeOK, JmCallType
  <2>4. ClientDuringCall'
    BY <1>1, <2>1, <2>2
    DEF ConnectsClient, ClientDuringCall, ClientConnectedReturned, LockFree, smVars
  <2> QED BY <2>1, <2>2, <2>3, <2>4 DEF JmInv, AllowedStep
<1>3. CASE ~(StreamOver \/ connected)
  <2>1. /\ ConnectBegins(jmCall.meta.id, CorkedRwnd, jmCall.seq)
        /\ jmCall' = [jmCall EXCEPT !.step = "connecting"]
    BY <1>3 DEF ConnectsClient
  <2>2. jmCall' \in JmCallType /\ jmCall'.step = "connecting" /\ CallArguments'
    BY <1>1, <2>1, CallMovesOn
  <2>3. JmTypeOK'
    BY <2>2 DEF ConnectsClient, JmInv, JmTypeOK, JmCallType
  <2>4. ClientDuringCall'
    BY <1>1, <2>1, <2>2 DEF ClientDuringCall
  <2>5. jmCall.meta.id \in StreamIds /\ CorkedRwnd \in RwndSizes /\ jmCall.seq \in 0..MaxBytes
    BY <1>1, MetasAreTyped, JobManagerAssumption DEF JmInv, CallArguments, CorkedRwnd
  <2>6. AllowedStep
    BY <2>1, <2>5 DEF AllowedStep, SMNext, Callers
  <2> QED BY <2>2, <2>3, <2>4, <2>6 DEF JmInv
<1> QED BY <1>2, <1>3

LEMMA ConnectReturnsInv ==
    ASSUME JmInv, ConnectReturns
    PROVE  JmInv' /\ AllowedStep
<1>1. UNCHANGED smVars /\ AllowedStep
  BY DEF ConnectReturns, AllowedStep
<1>2. ~JmFree /\ connectedStreamClient = NoConn /\ jmCall.conn \in Conns
      /\ jmCall.meta \in Metas
  BY DEF ConnectReturns, JmInv, ClientDuringCall, CallArguments, JmFree
<1>3. CASE connected /\ jmCall.start
  <2>1. jmCall' \in JmCallType /\ jmCall'.step = "attach" /\ CallArguments'
    BY <1>2, <1>3, CallMovesOn DEF ConnectReturns
  <2>2. writers' \in [Conns -> SUBSET StreamIds]
    BY <1>2, <1>3, MetasAreTyped DEF ConnectReturns, JmInv, JmTypeOK
  <2>3. JmTypeOK'
    BY <1>2, <1>3, <2>1, <2>2 DEF ConnectReturns, JmInv, JmTypeOK, JmCallType
  <2>4. ClientDuringCall'
    BY <1>1, <1>2, <1>3, <2>1, JobManagerAssumption
    DEF ConnectReturns, ClientDuringCall, ClientConnectedReturned, smVars
  <2> QED BY <1>1, <2>1, <2>3, <2>4 DEF JmInv
<1>4. CASE connected /\ ~jmCall.start
  <2>1. jmCall' \in JmCallType /\ jmCall'.step = "none" /\ CallArguments'
    BY <1>4, CallReturns DEF ConnectReturns
  <2>2. JmTypeOK'
    BY <1>2, <1>4, <2>1 DEF ConnectReturns, JmInv, JmTypeOK, JmCallType
  <2>3. ClientDuringCall'
    BY <1>1, <1>2, <1>4, <2>1, JobManagerAssumption
    DEF ConnectReturns, ClientDuringCall, ClientConnectedReturned, smVars
  <2> QED BY <1>1, <2>1, <2>2, <2>3 DEF JmInv
<1>5. CASE ~connected
  <2>1. jmCall' \in JmCallType /\ jmCall'.step = "none" /\ CallArguments'
    BY <1>5, CallReturns DEF ConnectReturns
  <2>2. JmTypeOK'
    BY <1>5, <2>1 DEF ConnectReturns, JmInv, JmTypeOK, JmCallType
  <2>3. ClientDuringCall'
    BY <1>1, <1>2, <1>5, <2>1
    DEF ConnectReturns, ClientDuringCall, ClientConnectedReturned, smVars
  <2> QED BY <1>1, <2>1, <2>2, <2>3 DEF JmInv
<1> QED BY <1>3, <1>4, <1>5

LEMMA StartJobAttachesReaderInv ==
    ASSUME JmInv, StartJobAttachesReader
    PROVE  JmInv' /\ AllowedStep
<1>1. jmCall' \in JmCallType /\ jmCall'.step = "none" /\ CallArguments'
  BY CallReturns DEF StartJobAttachesReader
<1>2. AttachReader /\ UNCHANGED <<connected, call>>
  BY DEF StartJobAttachesReader, AttachReader
<1>3. JmTypeOK'
  BY <1>1 DEF StartJobAttachesReader, JmInv, JmTypeOK, JmCallType
<1>4. ClientDuringCall'
  BY <1>1, <1>2
  DEF StartJobAttachesReader, JmInv, ClientDuringCall, ClientConnectedReturned,
      AttachReader, LockFree
<1> QED BY <1>1, <1>2, <1>3, <1>4 DEF JmInv, AllowedStep, SMNext, Callers

-----------------------------------------------------------------------------
(* Uncorking the stream, and ACKs. *)

LEMMA StartStreamInv ==
    ASSUME JmInv, NEW c \in Conns, StartStream(c)
    PROVE  JmInv' /\ AllowedStep
<1>1. pendingStreamMeta \in Metas
  BY DEF StartStream, JmInv, JmTypeOK
<1>2. UNCHANGED <<connected, call, jmCall, connectedStreamClient>>
  BY DEF StartStream, SetRwndSize, smVars
<1>3. AllowedStep
  BY <1>1, MetasAreTyped DEF StartStream, AllowedStep, SMNext, Callers
<1>4. JmTypeOK'
  BY <1>1, MetasAreTyped DEF StartStream, JmInv, JmTypeOK
<1>5. CallArguments' /\ ClientDuringCall'
  BY <1>2 DEF JmInv, CallArguments, JmFree, ClientDuringCall, ClientConnectedReturned
<1> QED BY <1>3, <1>4, <1>5 DEF JmInv

LEMMA AckArrivesInv ==
    ASSUME JmInv, NEW c \in Conns, NEW kind \in {"data", "fin", "cancel"},
           NEW id \in StreamIds, NEW seq \in 0..MaxBytes, NEW rwnd \in RwndSizes,
           AckArrives(c, kind, id, seq, rwnd)
    PROVE  JmInv' /\ AllowedStep
<1>1. UNCHANGED smVars \/ RecvFinAck(id) \/ RecvDataAck(id, seq, rwnd)
  BY DEF AckArrives
<1>2. AllowedStep
  BY <1>1 DEF AllowedStep, SMNext, Callers
<1>3. UNCHANGED connected /\ (call'.step = "ack" \/ UNCHANGED call)
  BY <1>1 DEF smVars, RecvFinAck, RecvDataAck, NoCall
<1>4. UNCHANGED <<jmCall, connectedStreamClient>>
  BY DEF AckArrives
<1>5. JmTypeOK'
  BY DEF AckArrives, JmInv, JmTypeOK
<1>6. CallArguments' /\ ClientDuringCall'
  BY <1>3, <1>4 DEF JmInv, CallArguments, JmFree, ClientDuringCall, ClientConnectedReturned
<1> QED BY <1>2, <1>5, <1>6 DEF JmInv

-----------------------------------------------------------------------------

(* Every step keeps the invariant and is one the stream manager allows. *)
LEMMA JmStep == JmInv /\ [JmNext]_allVars => JmInv' /\ AllowedStep
<1> SUFFICES ASSUME JmInv, [JmNext]_allVars PROVE JmInv' /\ AllowedStep
  OBVIOUS
<1>1. CASE UNCHANGED allVars
  BY <1>1 DEF allVars, jmVars, smVars, AllowedStep, JmInv, JmTypeOK, CallArguments,
              ClientDuringCall, ClientConnectedReturned, JmFree
<1>2. CASE JmCallInProgress
  BY <1>2, DetachesOldClientInv, ConnectsClientInv, ConnectReturnsInv,
     StartJobAttachesReaderInv DEF JmCallInProgress
<1>3. ASSUME NEW c \in Conns,
             Accept(c) \/ HandlerReturns(c) \/ Authenticate(c) \/ ConnectionDrops(c)
                \/ Drained(c) \/ StartStream(c)
      PROVE  JmInv' /\ AllowedStep
  BY <1>3, AcceptInv, HandlerReturnsInv, AuthenticateInv, ConnectionDropsInv, StartStreamInv
<1>4. ASSUME NEW c \in Conns, NEW meta \in Metas,
             StartJob(c, meta) \/ \E seq \in 0..MaxBytes : PrepareConnect(c, meta, seq)
      PROVE  JmInv' /\ AllowedStep
  BY <1>4, StartJobInv, PrepareConnectInv
<1>5. ASSUME NEW c \in Conns, NEW kind \in {"data", "fin", "cancel"},
             NEW id \in StreamIds, NEW seq \in 0..MaxBytes, NEW rwnd \in RwndSizes,
             AckArrives(c, kind, id, seq, rwnd)
      PROVE  JmInv' /\ AllowedStep
  BY <1>5, AckArrivesInv
<1> QED BY <1>1, <1>2, <1>3, <1>4, <1>5, StreamStepsInv DEF JmNext

-----------------------------------------------------------------------------
(* The theorems. *)

(* The invariant is inductive. *)
THEOREM JobManagerCorrect == JmSpec => []JmInv
BY JmInit, JmStep, PTL DEF JmSpec

(* Every variable of the job manager keeps its type. *)
THEOREM JmTypeCorrect == JmSpec => []JmTypeOK
<1>1. JmInv => JmTypeOK
  BY DEF JmInv
<1> QED BY <1>1, JobManagerCorrect, PTL

(* The job manager and the stream manager agree on whether there is a client. *)
THEOREM ClientsAgree == JmSpec => []ClientAgrees
<1>1. JmInv => ClientAgrees
  BY DEF JmInv, ClientDuringCall, ClientAgrees, JmFree
<1> QED BY <1>1, JobManagerCorrect, PTL

(* The job manager is a user the stream manager's specification allows: every
   step of it is a step of StreamManager or leaves the stream manager alone. *)
THEOREM JobManagerUsesStreamManager == JmSpec => UsesStreamManager
<1>1. SetupJobManager => MakeStreamManager
  BY DEF SetupJobManager
<1>2. AllowedStep => [SMNext]_smVars
  BY DEF AllowedStep
<1> QED BY <1>1, <1>2, JmStep, JobManagerCorrect, PTL DEF JmSpec, UsesStreamManager, SMSpec

(* So the stream manager's invariant holds inside the job manager. *)
THEOREM StreamSafeInJob == JmSpec => []SMInv
BY JobManagerUsesStreamManager, StreamManagerCorrect, PTL DEF UsesStreamManager

(* And so does what it guarantees of every step: however connections replace each
   other, no byte leaves the window while a client is connected but one sent to it. *)
THEOREM SentBytesOnlyInJob == JmSpec => OnlySentBytesLeave
BY JobManagerUsesStreamManager, SentBytesOnly, PTL DEF UsesStreamManager

-----------------------------------------------------------------------------
(* The cork.  The stream manager's own invariant is used of one thing only: what
   is in flight is not negative, so that a window of 0 leaves nothing to send. *)

LEMMA CorkInit == SetupJobManager => CorkInv
BY DEF SetupJobManager, MakeStreamManager, NoJmCall, NoCall, CorkInv, CallIsNew,
       CallConnects, StartHasNoPending, PendingIsCorked, JmFree, Started,
       ClientConnectedReturned

LEMMA CorkedSendsNothing ==
    ASSUME SMInv, rwndSize = 0
    PROVE  ~DataReady
<1>1. EffectiveWindow(rwndSize) = 0
  BY ManagerAssumption DEF EffectiveWindow, MinOf
<1>2. sentNotAcked \in Nat
  BY DEF SMInv, SMTypeOK
<1> QED BY <1>1, <1>2 DEF DataReady, AvailableToSend

(* What a step of the stream manager alone may do to the packet under way. *)
LEMMA PacketChanges ==
    ASSUME SMInv, SenderLoop
    PROVE  /\ UNCHANGED <<clientVars, call>>
           /\ packet'.id # packet.id => packet'.id = NoStream \/ (connected /\ packet'.id = streamId)
           /\ packet'.kind = "data" /\ rwndSize = 0 => packet' = packet
<1>1. CASE SenderSizes \/ SenderStops \/ SenderParks
  BY <1>1 DEF SenderSizes, SenderStops, SenderParks
<1>2. CASE SenderPreparesData
  BY <1>2, CorkedSendsNothing DEF SenderPreparesData, DataReady
<1>3. CASE SenderPreparesTerminal
  <2>1. packet'.id = streamId /\ packet'.kind # "data" /\ connected
    BY <1>3 DEF SenderPreparesTerminal, TerminalReady, SMInv, SMTypeOK
  <2> QED BY <1>3, <2>1 DEF SenderPreparesTerminal
<1>4. CASE SenderSends
  BY <1>4 DEF SenderSends, NoPacket
<1> QED BY <1>1, <1>2, <1>3, <1>4 DEF SenderLoop

(* A step after which nothing new is connected, uncorked, pending or acknowledged
   and no new data is under way to a corked client. *)
LEMMA CorkUntouched ==
    ASSUME JmInv, CorkInv,
           UNCHANGED <<jmCall, pendingStreamMeta, connected, streamId, rwndSize>>,
           Started' = Started,
           packet'.id # packet.id =>
               packet'.id = NoStream \/ (connected /\ packet'.id = streamId),
           packet'.kind = "data" /\ rwndSize = 0 => packet' = packet,
           ~ClientConnectedReturned' =>
               ~ClientConnectedReturned /\ call'.id = call.id /\ call'.rwnd = call.rwnd,
           call'.step = "ack" => call.step = "ack",
           \A c \in Conns : writers'[c] \subseteq writers[c]
    PROVE  CorkInv'
<1>1. jmCall.meta \in Metas \/ JmFree
  BY DEF JmInv, CallArguments
<1>2. ~JmFree => jmCall.meta.id \in StreamIds /\ jmCall.meta.id # NoStream
  BY <1>1, MetasAreTyped, ManagerAssumption
<1>3. \A id : Corked(id) => Corked(id)'
  BY DEF Corked
<1>4. UNION {writers'[c] : c \in Conns} \subseteq UNION {writers[c] : c \in Conns}
  OBVIOUS
<1>5. CallIsNew'
  <2>1. ASSUME ~JmFree, FreshId(jmCall.meta.id),
               jmCall.step \in {"detach", "connect"} \/ ~connected
        PROVE  FreshId(jmCall.meta.id)'
    BY <1>2, <1>4, <2>1 DEF FreshId
  <2> QED BY <2>1 DEF CorkInv, CallIsNew, JmFree
<1>6. CallConnects'
  BY <1>3 DEF CorkInv, CallConnects, CorkedRwnd
<1>7. StartHasNoPending' /\ PendingIsCorked'
  BY <1>3 DEF CorkInv, StartHasNoPending, PendingIsCorked, JmFree
<1> QED BY <1>5, <1>6, <1>7 DEF CorkInv

LEMMA ReadLoopKeepsCork ==
    ASSUME SMInv, ReadLoop
    PROVE  UNCHANGED <<clientVars, call, packet>> /\ Started' = Started
<1>1. CASE ReadLoopChecksClosed \/ ReadDataWritten \/ ReadDataBlocked \/ ReadLoopEnds
  BY <1>1 DEF ReadLoopChecksClosed, ReadDataWritten, ReadDataBlocked, ReadLoopEnds, Started
<1>2. CASE \E n \in 0..MaxPacketSize, err \in {"none", "eof", "error"} : PtyRead(n, err)
  BY <1>2 DEF PtyRead, Started
<1>3. CASE ReadLoopResumes
  BY <1>3 DEF ReadLoopResumes, Started
<1>4. CASE ReadDataSignals
  BY <1>4 DEF ReadDataSignals, AfterWrite, Started
<1> QED BY <1>1, <1>2, <1>3, <1>4 DEF ReadLoop

LEMMA StreamStepsCork ==
    ASSUME JmInv, SMInv, CorkInv, StreamSteps
    PROVE  CorkInv'
<1>1. CASE ReadLoopSteps
  BY <1>1, ReadLoopKeepsCork, CorkUntouched
  DEF ReadLoopSteps, jmVars, ClientConnectedReturned
<1>2. CASE SenderSteps
  <2>1. UNCHANGED <<readPc, jmVars>> /\ SenderLoop
    BY <1>2 DEF SenderSteps, SenderLoop, SenderSizes, SenderStops, SenderParks,
                SenderPreparesData, SenderPreparesTerminal, SenderSends
  <2> QED BY <2>1, PacketChanges, CorkUntouched DEF jmVars, Started, ClientConnectedReturned
<1>3. CASE CallSteps /\ (ConnectConsumes \/ ConnectRereads)
  <2>1. UNCHANGED <<readPc, clientVars, packet, jmVars>>
    BY <1>3 DEF CallSteps, ConnectConsumes, ConnectRereads
  <2>2. call \in CallType
    BY DEF SMInv, SMTypeOK, CallType
  <2>3. CASE call' = NoCall
    <3>1. call'.step = "none"
      BY <2>3 DEF NoCall
    <3> QED BY <2>1, <3>1, CorkUntouched DEF jmVars, Started, ClientConnectedReturned
  <2>4. CASE call' = [call EXCEPT !.step = "reread"] /\ call.step = "consume"
    <3>1. call'.step = "reread" /\ call'.id = call.id /\ call'.rwnd = call.rwnd
      BY <2>2, <2>4 DEF CallType
    <3> QED BY <2>1, <2>4, <3>1, CorkUntouched DEF jmVars, Started, ClientConnectedReturned
  <2>5. CASE call' = [call EXCEPT !.step = "commit", !.headPos = head] /\ call.step = "reread"
    <3>1. call'.step = "commit" /\ call'.id = call.id /\ call'.rwnd = call.rwnd
      BY <2>2, <2>5 DEF CallType
    <3> QED BY <2>1, <2>5, <3>1, CorkUntouched DEF jmVars, Started, ClientConnectedReturned
  <2> QED BY <1>3, <2>3, <2>4, <2>5 DEF ConnectConsumes, ConnectRereads
<1>4. CASE CallSteps /\ ConnectCommits
  <2>1. /\ streamId' = call.id /\ connected' /\ rwndSize' = call.rwnd
        /\ call'.step = "none"
        /\ UNCHANGED <<readPc, packet, jmVars>>
    BY <1>4 DEF CallSteps, ConnectCommits, NoCall
  <2>2. ~ClientConnectedReturned /\ jmCall.step = "connecting" /\ ~connected
    BY <1>4 DEF ConnectCommits, ClientConnectedReturned, JmInv, ClientDuringCall,
                SMInv, LockDiscipline
  <2>3. call.id = jmCall.meta.id /\ call.rwnd = CorkedRwnd /\ FreshId(jmCall.meta.id)
        /\ jmCall.meta.id # pendingStreamMeta.id
    BY <2>2 DEF CorkInv, CallConnects, CallIsNew, JmFree
  <2>4. jmCall.meta.id # NoStream
    BY <2>2, MetasAreTyped, ManagerAssumption DEF JmInv, CallArguments, JmFree
  <2>5. ~jmCall.start => Corked(jmCall.meta.id)'
    BY <2>1, <2>2, <2>3 DEF Corked, CorkedRwnd, FreshId, jmVars
  <2>6. CallIsNew' /\ CallConnects' /\ StartHasNoPending'
    BY <2>1, <2>2, <2>3, <2>5
    DEF CorkInv, CallIsNew, CallConnects, StartHasNoPending, JmFree, Started,
        ClientConnectedReturned, CorkedRwnd, jmVars
  <2>7. PendingIsCorked'
    BY <2>1, <2>2, <2>3, <2>4 DEF PendingIsCorked, jmVars
  <2> QED BY <2>6, <2>7 DEF CorkInv
<1>5. CASE CallSteps /\ RecvAckResizes
  <2>1. /\ UNCHANGED <<readPc, streamId, connected, packet, jmVars>>
        /\ call'.step = "none" /\ call.step = "ack"
    BY <1>5 DEF CallSteps, RecvAckResizes, NoCall
  <2>2. connected /\ \A id : ~Corked(id)
    BY <2>1 DEF Corked, SMInv, LockDiscipline
  <2> QED BY <2>1, <2>2
          DEF CorkInv, CallIsNew, CallConnects, StartHasNoPending, PendingIsCorked,
              JmFree, Started, ClientConnectedReturned, FreshId, jmVars
<1> QED BY <1>1, <1>2, <1>3, <1>4, <1>5 DEF StreamSteps, CallSteps, CallInProgress

LEMMA ConnectionsCork ==
    ASSUME JmInv, CorkInv, NEW c \in Conns,
           Accept(c) \/ Authenticate(c) \/ ConnectionDrops(c) \/ Drained(c)
    PROVE  CorkInv'
<1>1. UNCHANGED <<smVars, writers, pendingStreamMeta, jmCall>>
  BY DEF Accept, Authenticate, ConnectionDrops, Drained
<1>2. UNCHANGED <<connected, streamId, rwndSize, packet, call, readPc>>
  BY <1>1 DEF smVars
<1> QED BY <1>1, <1>2, CorkUntouched DEF Started, ClientConnectedReturned

(* Without a client there is no cork; a client may leave in the middle of a call
   only before the call's own stream is connected. *)
LEMMA DisconnectCork ==
    ASSUME JmInv, CorkInv, ClientDisconnected,
           jmCall.step \in {"none", "detach"},
           UNCHANGED pendingStreamMeta,
           \A d \in Conns : writers'[d] \subseteq writers[d],
           \/ jmCall' = jmCall
           \/ jmCall.step = "detach" /\ jmCall' = [jmCall EXCEPT !.step = "connect"]
    PROVE  CorkInv'
<1>1. /\ ~connected' /\ LockFree
      /\ UNCHANGED <<streamId, rwndSize, call, packet, readPc>>
  BY DEF ClientDisconnected
<1>2. ClientConnectedReturned
  BY <1>1 DEF LockFree, ClientConnectedReturned
<1>3. /\ jmCall'.meta = jmCall.meta /\ jmCall'.start = jmCall.start
      /\ jmCall'.step \in {"none", "detach", "connect"} /\ (JmFree' <=> JmFree)
  BY DEF JmInv, JmTypeOK, JmFree
<1>4. UNION {writers'[d] : d \in Conns} \subseteq UNION {writers[d] : d \in Conns}
  OBVIOUS
<1>5. ~JmFree => FreshId(jmCall.meta.id)'
  <2> SUFFICES ASSUME ~JmFree PROVE FreshId(jmCall.meta.id)'
    OBVIOUS
  <2>1. FreshId(jmCall.meta.id)
    BY DEF CorkInv, CallIsNew, JmFree
  <2> QED BY <1>1, <1>3, <1>4, <2>1 DEF FreshId
<1> QED BY <1>1, <1>2, <1>3, <1>5
        DEF CorkInv, CallIsNew, CallConnects, StartHasNoPending, PendingIsCorked, JmFree,
            Started, ClientConnectedReturned

LEMMA HandlerReturnsCork ==
    ASSUME JmInv, CorkInv, NEW c \in Conns, HandlerReturns(c)
    PROVE  CorkInv'
<1>1. JmFree /\ UNCHANGED <<writers, pendingStreamMeta, jmCall>>
  BY DEF HandlerReturns
<1>2. CASE connectedStreamClient = c
  <2>1. ClientDisconnected
    BY <1>2 DEF HandlerReturns
  <2> QED BY <1>1, <2>1, DisconnectCork DEF JmFree
<1>3. CASE connectedStreamClient # c
  <2>1. UNCHANGED <<connected, streamId, rwndSize, packet, call, readPc>>
    BY <1>3 DEF HandlerReturns, smVars
  <2> QED BY <1>1, <2>1, CorkUntouched DEF Started, ClientConnectedReturned
<1> QED BY <1>2, <1>3

LEMMA CallBeginsCork ==
    ASSUME JmInv, CorkInv, NEW c \in Conns, NEW meta \in Metas,
           StartJob(c, meta) \/ \E seq \in 0..MaxBytes : PrepareConnect(c, meta, seq)
    PROVE  CorkInv'
<1>1. /\ JmFree /\ jmCall'.step = "detach" /\ jmCall'.meta = meta
      /\ (jmCall'.start <=> ~Started)
      /\ FreshId(meta.id)
      /\ UNCHANGED <<smVars, writers, pendingStreamMeta>>
  <2>1. CASE StartJob(c, meta)
    BY <2>1 DEF StartJob
  <2>2. CASE \E seq \in 0..MaxBytes : PrepareConnect(c, meta, seq)
    BY <2>2 DEF PrepareConnect
  <2> QED BY <2>1, <2>2
<1>2. UNCHANGED <<connected, streamId, rwndSize, packet, call, readPc>>
  BY <1>1 DEF smVars
<1>3. FreshId(meta.id)' /\ meta.id # pendingStreamMeta.id
  BY <1>1, <1>2 DEF FreshId
<1>4. ClientConnectedReturned
  BY <1>1 DEF JmInv, ClientDuringCall, JmFree
<1> QED BY <1>1, <1>2, <1>3, <1>4
        DEF CorkInv, CallIsNew, CallConnects, StartHasNoPending, PendingIsCorked, JmFree,
            Started, Corked, ClientConnectedReturned

LEMMA DetachesOldClientCork ==
    ASSUME JmInv, CorkInv, DetachesOldClient
    PROVE  CorkInv'
<1>1. /\ ~JmFree /\ jmCall.step = "detach" /\ UNCHANGED pendingStreamMeta
      /\ jmCall' = [jmCall EXCEPT !.step = "connect"]
  BY DEF DetachesOldClient, JmFree
<1>2. CASE connectedStreamClient # NoConn
  <2>1. ClientDisconnected
        /\ writers' = [writers EXCEPT ![jmCall.conn] = @ \ {streamId}]
    BY <1>2 DEF DetachesOldClient
  <2>2. \A d \in Conns : writers'[d] \subseteq writers[d]
    BY <2>1 DEF JmInv, JmTypeOK
  <2> QED BY <1>1, <2>1, <2>2, DisconnectCork
<1>3. CASE connectedStreamClient = NoConn
  <2>1. UNCHANGED <<smVars, writers>> /\ ~connected
    BY <1>1, <1>3 DEF DetachesOldClient, JmInv, ClientDuringCall
  <2>2. UNCHANGED <<connected, streamId, rwndSize, packet, call, readPc>>
    BY <2>1 DEF smVars
  <2>3. jmCall'.meta = jmCall.meta /\ jmCall'.start = jmCall.start /\ jmCall'.step = "connect"
    BY <1>1 DEF JmInv, JmTypeOK
  <2>4. ClientConnectedReturned
    BY <1>1 DEF JmInv, ClientDuringCall
  <2> QED BY <1>1, <2>1, <2>2, <2>3, <2>4
          DEF CorkInv, CallIsNew, CallConnects, StartHasNoPending, PendingIsCorked, JmFree,
              Started, FreshId, ClientConnectedReturned
<1> QED BY <1>2, <1>3

LEMMA ConnectsClientCork ==
    ASSUME JmInv, CorkInv, ConnectsClient
    PROVE  CorkInv'
<1>1. /\ ~JmFree /\ jmCall.step = "connect" /\ ~connected /\ LockFree
      /\ UNCHANGED <<writers, pendingStreamMeta>>
  BY DEF ConnectsClient, JmInv, ClientDuringCall, JmFree
<1>2. CASE jmCall' = NoJmCall /\ UNCHANGED smVars
  <2>1. UNCHANGED <<connected, streamId, rwndSize, packet, call, readPc>>
    BY <1>2 DEF smVars
  <2>2. JmFree' /\ ClientConnectedReturned'
    BY <1>1, <1>2, <2>1 DEF NoJmCall, JmFree, LockFree, ClientConnectedReturned
  <2> QED BY <1>1, <1>2, <2>1, <2>2
          DEF CorkInv, CallIsNew, CallConnects, StartHasNoPending, PendingIsCorked, JmFree,
              Started
<1>3. CASE /\ ConnectBegins(jmCall.meta.id, CorkedRwnd, jmCall.seq)
           /\ jmCall' = [jmCall EXCEPT !.step = "connecting"]
  <2>1. /\ UNCHANGED <<connected, streamId, rwndSize, packet, readPc>>
        /\ call'.id = jmCall.meta.id /\ call'.rwnd = CorkedRwnd
    BY <1>3 DEF ConnectBegins
  <2>2. jmCall'.meta = jmCall.meta /\ jmCall'.start = jmCall.start
        /\ jmCall'.step = "connecting"
    BY <1>3 DEF JmInv, JmTypeOK
  <2>3. FreshId(jmCall.meta.id)'
    BY <1>1, <2>1, <2>2 DEF CorkInv, CallIsNew, FreshId
  <2> QED BY <1>1, <2>1, <2>2, <2>3
          DEF CorkInv, CallIsNew, CallConnects, StartHasNoPending, PendingIsCorked, JmFree,
              Started, CorkedRwnd
<1> QED BY <1>2, <1>3 DEF ConnectsClient

LEMMA ConnectReturnsCork ==
    ASSUME JmInv, CorkInv, ConnectReturns
    PROVE  CorkInv'
<1>1. /\ UNCHANGED <<connected, streamId, rwndSize, packet, call, readPc>>
      /\ ~JmFree /\ jmCall.step = "connecting" /\ ClientConnectedReturned
  BY DEF ConnectReturns, smVars, JmFree
<1>2. CASE connected /\ jmCall.start
  <2>1. jmCall'.meta = jmCall.meta /\ jmCall'.start = jmCall.start /\ jmCall'.step = "attach"
        /\ UNCHANGED pendingStreamMeta
    BY <1>2 DEF ConnectReturns, JmInv, JmTypeOK
  <2>2. pendingStreamMeta = NoMeta /\ streamId # NoStream
    BY <1>1, <1>2 DEF CorkInv, StartHasNoPending, PendingIsCorked
  <2> QED BY <1>1, <1>2, <2>1, <2>2
          DEF CorkInv, CallIsNew, CallConnects, StartHasNoPending, PendingIsCorked, JmFree,
              Started, ClientConnectedReturned, NoMeta
<1>3. CASE connected /\ ~jmCall.start
  <2>1. JmFree' /\ pendingStreamMeta' = jmCall.meta /\ UNCHANGED writers
    BY <1>1, <1>3 DEF ConnectReturns, NoJmCall, JmFree
  <2>2. Corked(streamId)' /\ streamId = jmCall.meta.id
    BY <1>1, <1>3, <2>1 DEF CorkInv, CallConnects, Corked
  <2>3. Started
    BY <1>1, <1>3 DEF CorkInv, StartHasNoPending
  <2> QED BY <1>1, <2>1, <2>2, <2>3
          DEF CorkInv, CallIsNew, CallConnects, StartHasNoPending, PendingIsCorked, JmFree,
              Started, ClientConnectedReturned
<1>4. CASE ~connected
  <2>1. JmFree' /\ UNCHANGED <<pendingStreamMeta, writers>>
    BY <1>4 DEF ConnectReturns, NoJmCall, JmFree
  <2> QED BY <1>1, <1>4, <2>1
          DEF CorkInv, CallIsNew, CallConnects, StartHasNoPending, PendingIsCorked, JmFree,
              Started, ClientConnectedReturned
<1> QED BY <1>2, <1>3, <1>4

LEMMA StartJobAttachesReaderCork ==
    ASSUME JmInv, CorkInv, StartJobAttachesReader
    PROVE  CorkInv'
<1>1. /\ UNCHANGED <<connected, streamId, rwndSize, packet, call, writers, pendingStreamMeta>>
      /\ jmCall.step = "attach" /\ ~JmFree /\ JmFree' /\ Started'
      /\ LockFree
  BY DEF StartJobAttachesReader, AttachReader, NoJmCall, JmFree, Started
<1>2. pendingStreamMeta = NoMeta
  BY <1>1 DEF CorkInv, StartHasNoPending, Started, StartJobAttachesReader, AttachReader
<1> QED BY <1>1, <1>2
        DEF CorkInv, CallIsNew, CallConnects, StartHasNoPending, PendingIsCorked, JmFree,
            ClientConnectedReturned, LockFree, NoMeta

(* StartStream lets the one stream that is corked go, or finds no client. *)
LEMMA StartStreamCork ==
    ASSUME JmInv, CorkInv, NEW c \in Conns, StartStream(c)
    PROVE  CorkInv'
<1>1. JmFree /\ LockFree /\ UNCHANGED <<jmCall, connected, streamId, packet, call, readPc>>
  BY DEF StartStream, SetRwndSize, smVars
<1>2. ClientConnectedReturned'
  BY <1>1 DEF LockFree, ClientConnectedReturned
<1>3. pendingStreamMeta' = NoMeta \/ (~connected /\ UNCHANGED pendingStreamMeta)
  BY DEF StartStream
<1>4. NoMeta.id = NoStream
  BY DEF NoMeta
<1> QED BY <1>1, <1>2, <1>3, <1>4
        DEF CorkInv, CallIsNew, CallConnects, StartHasNoPending, PendingIsCorked, JmFree,
            Started

(* No ACK reaches a stream that is corked: no broker has it. *)
LEMMA AckArrivesCork ==
    ASSUME JmInv, CorkInv, NEW c \in Conns, NEW kind \in {"data", "fin", "cancel"},
           NEW id \in StreamIds, NEW seq \in 0..MaxBytes, NEW rwnd \in RwndSizes,
           AckArrives(c, kind, id, seq, rwnd)
    PROVE  CorkInv'
<1>1. /\ UNCHANGED <<jmCall, pendingStreamMeta>> /\ LockFree /\ id \in writers[c]
      /\ UNCHANGED smVars \/ RecvFinAck(id) \/ RecvDataAck(id, seq, rwnd)
  BY DEF AckArrives
<1>2. UNCHANGED <<connected, streamId, rwndSize, packet, readPc>>
  BY <1>1 DEF smVars, RecvFinAck, RecvDataAck
<1>3. \A d \in Conns : writers'[d] \subseteq writers[d]
  BY DEF AckArrives, JmInv, JmTypeOK
<1>4. CASE UNCHANGED call
  BY <1>1, <1>2, <1>3, <1>4, CorkUntouched DEF Started, ClientConnectedReturned
<1>5. CASE RecvDataAck(id, seq, rwnd) /\ call'.step = "ack"
  <2>1. connected /\ streamId = id /\ ~Corked(streamId)
    BY <1>1, <1>5 DEF RecvDataAck, AckIsFor, Corked
  <2>2. UNION {writers'[d] : d \in Conns} \subseteq UNION {writers[d] : d \in Conns}
    BY <1>3
  <2> QED BY <1>1, <1>2, <1>5, <2>1, <2>2
          DEF CorkInv, CallIsNew, CallConnects, StartHasNoPending, PendingIsCorked, JmFree,
              Started, ClientConnectedReturned, FreshId
<1>6. UNCHANGED call \/ (RecvDataAck(id, seq, rwnd) /\ call'.step = "ack")
  BY <1>1 DEF smVars, RecvFinAck, RecvDataAck, NoCall
<1> QED BY <1>4, <1>5, <1>6

LEMMA CorkStep == JmInv /\ SMInv /\ CorkInv /\ [JmNext]_allVars => CorkInv'
<1> SUFFICES ASSUME JmInv, SMInv, CorkInv, [JmNext]_allVars PROVE CorkInv'
  OBVIOUS
<1>1. CASE UNCHANGED allVars
  <2>1. UNCHANGED <<connected, streamId, rwndSize, packet, call, readPc, writers,
                    pendingStreamMeta, jmCall>>
    BY <1>1 DEF allVars, smVars, jmVars
  <2> QED BY <2>1, CorkUntouched DEF Started, ClientConnectedReturned
<1>2. CASE JmCallInProgress
  BY <1>2, DetachesOldClientCork, ConnectsClientCork, ConnectReturnsCork,
     StartJobAttachesReaderCork DEF JmCallInProgress
<1>3. ASSUME NEW c \in Conns,
             Accept(c) \/ HandlerReturns(c) \/ Authenticate(c) \/ ConnectionDrops(c)
                \/ Drained(c) \/ StartStream(c)
      PROVE  CorkInv'
  BY <1>3, ConnectionsCork, HandlerReturnsCork, StartStreamCork
<1>4. ASSUME NEW c \in Conns, NEW meta \in Metas,
             StartJob(c, meta) \/ \E seq \in 0..MaxBytes : PrepareConnect(c, meta, seq)
      PROVE  CorkInv'
  BY <1>4, CallBeginsCork
<1>5. ASSUME NEW c \in Conns, NEW kind \in {"data", "fin", "cancel"},
             NEW id \in StreamIds, NEW seq \in 0..MaxBytes, NEW rwnd \in RwndSizes,
             AckArrives(c, kind, id, seq, rwnd)
      PROVE  CorkInv'
  BY <1>5, AckArrivesCork
<1> QED BY <1>1, <1>2, <1>3, <1>4, <1>5, StreamStepsCork DEF JmNext

(* Only the stream connected last can be uncorked. *)
THEOREM PendingCurrent == JmSpec => []PendingIsCurrent
<1>1. CorkInv => PendingIsCurrent
  BY DEF CorkInv, PendingIsCorked, PendingIsCurrent, JmFree
<1> QED BY <1>1, CorkInit, CorkStep, JobManagerCorrect, StreamSafeInJob, PTL DEF JmSpec

(* No data is under way to a client between PrepareConnect and StartStream. *)
THEOREM CorkIsTight == JmSpec => []CorkHolds
<1>1. CorkInv => CorkHolds
  BY DEF CorkInv, PendingIsCorked, CorkHolds, Corked
<1> QED BY <1>1, CorkInit, CorkStep, JobManagerCorrect, StreamSafeInJob, PTL DEF JmSpec

-----------------------------------------------------------------------------
(* Neither lock blocks the other.  CallsGoOn says so with ENABLED, which is out of
   the provers' reach; here the enabling conditions are written out.  They are the
   guards of JmCallInProgress, CallInProgress and SenderLoop: what the actions do
   beyond them is defined in every state. *)

(* Some step of the call that holds jm.lock is possible. *)
JobCallCanStep ==
    \/ jmCall.step = "detach" /\ (connectedStreamClient # NoConn => LockFree /\ connected)
    \/ jmCall.step = "connect" /\ LockFree
    \/ jmCall.step = "connecting" /\ ClientConnectedReturned
    \/ jmCall.step = "attach" /\ LockFree /\ readPc = "idle"

(* Some step of the stream manager's call that holds sm.lock is possible. *)
StreamCallCanStep == call.step \in {"consume", "reread", "commit", "ack"}

(* prepareNextPacket holds sm.lock.  Its four outcomes are SenderStops,
   SenderPreparesData, SenderPreparesTerminal and SenderParks, in this order. *)
SenderCanStep ==
    /\ sendPc = "sized"
    /\ \/ StreamOver
       \/ ~StreamOver /\ DataReady
       \/ ~StreamOver /\ TerminalReady
       \/ ~StreamOver /\ ~DataReady /\ ~TerminalReady

NeverStuck == ~JmFree => JobCallCanStep \/ StreamCallCanStep \/ (~LockFree /\ SenderCanStep)

(* PrepareConnect has no reader to attach. *)
AttachIsStart == jmCall.step = "attach" => jmCall.start

LEMMA AttachStep == JmInv /\ AttachIsStart /\ [JmNext]_allVars => AttachIsStart'
<1> SUFFICES ASSUME JmInv, AttachIsStart, [JmNext]_allVars PROVE AttachIsStart'
  OBVIOUS
<1>1. CASE UNCHANGED jmCall
  BY <1>1 DEF AttachIsStart
<1>2. CASE DetachesOldClient \/ ConnectsClient
  <2>1. jmCall'.step # "attach"
    BY <1>2 DEF DetachesOldClient, ConnectsClient, NoJmCall, JmInv, JmTypeOK
  <2> QED BY <2>1 DEF AttachIsStart
<1>3. CASE ConnectReturns
  BY <1>3 DEF ConnectReturns, NoJmCall, JmInv, JmTypeOK, AttachIsStart
<1>4. CASE StartJobAttachesReader
  BY <1>4 DEF StartJobAttachesReader, NoJmCall, AttachIsStart
<1>5. ASSUME NEW c \in Conns, NEW meta \in Metas,
             StartJob(c, meta) \/ \E seq \in 0..MaxBytes : PrepareConnect(c, meta, seq)
      PROVE  AttachIsStart'
  BY <1>5 DEF StartJob, PrepareConnect, AttachIsStart
<1>6. ASSUME NEW c \in Conns,
             Accept(c) \/ HandlerReturns(c) \/ Authenticate(c) \/ ConnectionDrops(c)
                \/ Drained(c) \/ StartStream(c)
      PROVE  UNCHANGED jmCall
  BY <1>6 DEF Accept, HandlerReturns, Authenticate, ConnectionDrops, Drained, StartStream
<1>7. ASSUME NEW c \in Conns, NEW kind, NEW id, NEW seq, NEW rwnd,
             AckArrives(c, kind, id, seq, rwnd)
      PROVE  UNCHANGED jmCall
  BY <1>7 DEF AckArrives
<1>8. StreamSteps \/ UNCHANGED allVars => UNCHANGED jmCall
  BY DEF StreamSteps, ReadLoopSteps, SenderSteps, CallSteps, jmVars, allVars
<1> QED BY <1>1, <1>2, <1>3, <1>4, <1>5, <1>6, <1>7, <1>8 DEF JmNext, JmCallInProgress

LEMMA GoesOn == JmInv /\ SMInv /\ CorkInv /\ AttachIsStart => NeverStuck
<1> SUFFICES ASSUME JmInv, SMInv, CorkInv, AttachIsStart, ~JmFree
             PROVE  JobCallCanStep \/ StreamCallCanStep \/ (~LockFree /\ SenderCanStep)
  BY DEF NeverStuck
<1>1. CASE ~LockFree
  <2>1. call.step # "none" => StreamCallCanStep
    BY DEF SMInv, SMTypeOK, StreamCallCanStep
  <2>2. sendPc = "sized" => SenderCanStep
    BY DEF SenderCanStep
  <2> QED BY <1>1, <2>1, <2>2 DEF LockFree
<1>2. CASE LockFree
  <2>1. jmCall.step = "attach" => readPc = "idle"
    BY DEF AttachIsStart, CorkInv, StartHasNoPending, Started
  <2>2. jmCall.step = "connecting" => ClientConnectedReturned
    BY <1>2 DEF LockFree, ClientConnectedReturned
  <2>3. jmCall.step = "detach" => (connectedStreamClient # NoConn => connected)
    BY DEF JmInv, ClientDuringCall
  <2>4. jmCall.step \in {"detach", "connect", "connecting", "attach"}
    BY DEF JmInv, JmTypeOK, JmFree
  <2> QED BY <1>2, <2>1, <2>2, <2>3, <2>4 DEF JobCallCanStep
<1> QED BY <1>1, <1>2

(* jm.lock and sm.lock cannot block each other: whatever the call that holds jm.lock
   waits for, the call itself or who holds sm.lock has a step whose guard is true. *)
THEOREM LocksGoOn == JmSpec => []NeverStuck
<1>1. SetupJobManager => AttachIsStart
  BY DEF SetupJobManager, NoJmCall, AttachIsStart
<1> QED BY <1>1, AttachStep, GoesOn, CorkInit, CorkStep, JobManagerCorrect, StreamSafeInJob,
           PTL DEF JmSpec
=============================================================================
