---------------------------- MODULE JobManager ----------------------------
(***************************************************************************)
(* The remote job manager process (pkg/jobmanager/jobmanager.go): how the  *)
(* connections of the main server come and go around the one stream        *)
(* manager of the job.  A connection is accepted on the job's domain       *)
(* socket, authenticates and becomes the attached client (kicking out the  *)
(* one before), then starts the job or takes the stream over in two steps: *)
(* PrepareConnect connects it with a receive window of 0 (corked) and      *)
(* answers from which position the stream continues, StartStream opens the *)
(* window.  The job manager's own lock is held over the whole of           *)
(* PrepareConnect, but not against the readLoop, the sender or ACKs.       *)
(***************************************************************************)
EXTENDS StreamManager

CONSTANTS
    Conns,  (* connections of the main server, over the life of the job *)
    NoConn

(* 0 is the window PrepareConnect corks a stream with. *)
ASSUME JobManagerAssumption == NoConn \notin Conns /\ 0 \in RwndSizes

VARIABLES
    connState,     (* of each connection: "idle", "open", "authed", "closing"
                      (closed, requests received before still run), "closed"    *)
    handlerDone,   (* has handleJobDomainSocketClient returned?                 *)
    writers,       (* StreamBroker.writers of each connection                   *)
    attachedClient, connectedStreamClient, pendingStreamMeta,
    jmCall         (* the call that holds jm.lock                               *)

jmVars == <<connState, handlerDone, writers, attachedClient,
            connectedStreamClient, pendingStreamMeta, jmCall>>

allVars == <<smVars, jmVars>>

NoMeta   == [id |-> NoStream, rwnd |-> 0]
NoJmCall == [step |-> "none", start |-> FALSE, conn |-> NoConn, meta |-> NoMeta, seq |-> 0]

JmFree == jmCall.step = "none"

(* jm.Cmd # nil, for a caller that holds jm.lock: StartJob sets it and attaches
   the reader under one hold of the lock. *)
Started == readPc # "idle"

SetupJobManager ==
    /\ MakeStreamManager
    /\ connState = [c \in Conns |-> "idle"]
    /\ handlerDone = [c \in Conns |-> FALSE]
    /\ writers = [c \in Conns |-> {}]
    /\ attachedClient = NoConn /\ connectedStreamClient = NoConn
    /\ pendingStreamMeta = NoMeta
    /\ jmCall = NoJmCall

-----------------------------------------------------------------------------
(* Connections *)

Accept(c) ==
    /\ connState[c] = "idle"
    /\ connState' = [connState EXCEPT ![c] = "open"]
    /\ UNCHANGED <<smVars, handlerDone, writers, attachedClient,
                   connectedStreamClient, pendingStreamMeta, jmCall>>

(* Mutation of HandlerReturns: disconnects the stream, keeps the client. *)
HandlerReturnsKeepsClient(c) ==
    /\ JmFree /\ connState[c] # "idle" /\ ~handlerDone[c]
    /\ handlerDone' = [handlerDone EXCEPT ![c] = TRUE]
    /\ IF connectedStreamClient = c THEN ClientDisconnected ELSE UNCHANGED smVars
    /\ UNCHANGED <<connState, writers, attachedClient, connectedStreamClient,
                   pendingStreamMeta, jmCall>>

(* handleJobDomainSocketClient starts the connection's goroutines and returns;
   its deferred disconnectFromStreamHelper runs then, and never again. *)
HandlerReturns(c) ==
    /\ JmFree /\ connState[c] # "idle" /\ ~handlerDone[c]
    /\ handlerDone' = [handlerDone EXCEPT ![c] = TRUE]
    /\ IF connectedStreamClient = c
       THEN ClientDisconnected /\ connectedStreamClient' = NoConn
       ELSE UNCHANGED <<smVars, connectedStreamClient>>
    /\ UNCHANGED <<connState, writers, attachedClient, pendingStreamMeta, jmCall>>

(* Requests run in goroutines of their own and ACKs are queued, so those of an
   authenticated connection may still run when its socket is closed. *)
Handles(c) == connState[c] \in {"authed", "closing"}

AfterClose(state) == CASE state = "authed" -> "closing"
                       [] state = "open"   -> "closed"
                       [] OTHER            -> state

(* SetAttachedClient closes the socket of the client it kicks out. *)
Authenticate(c) ==
    /\ JmFree /\ connState[c] = "open"
    /\ connState' = [d \in Conns |-> IF d = c THEN "authed"
                                     ELSE IF d = attachedClient THEN AfterClose(connState[d])
                                     ELSE connState[d]]
    /\ attachedClient' = c
    /\ UNCHANGED <<smVars, handlerDone, writers, connectedStreamClient,
                   pendingStreamMeta, jmCall>>

(* The socket breaks or the main server goes away: MainServerConn.Close. *)
ConnectionDrops(c) ==
    /\ connState[c] \in {"open", "authed"}
    /\ connState' = [connState EXCEPT ![c] = AfterClose(@)]
    /\ UNCHANGED <<smVars, handlerDone, writers, attachedClient,
                   connectedStreamClient, pendingStreamMeta, jmCall>>

(* The last request of a closed connection is done. *)
Drained(c) ==
    /\ connState[c] = "closing" /\ jmCall.conn # c
    /\ connState' = [connState EXCEPT ![c] = "closed"]
    /\ UNCHANGED <<smVars, handlerDone, writers, attachedClient,
                   connectedStreamClient, pendingStreamMeta, jmCall>>

-----------------------------------------------------------------------------
(* StartJob and PrepareConnect *)

(* Stream ids are uuids: an id is used for one stream. *)
FreshId(id) ==
    id \notin {streamId, packet.id, pendingStreamMeta.id} \cup UNION {writers[c] : c \in Conns}

StartJob(c, meta) ==
    /\ JmFree /\ Handles(c) /\ ~Started /\ FreshId(meta.id)
    /\ jmCall' = [step |-> "detach", start |-> TRUE, conn |-> c, meta |-> meta, seq |-> 0]
    /\ UNCHANGED <<smVars, connState, handlerDone, writers, attachedClient,
                   connectedStreamClient, pendingStreamMeta>>

(* PrepareConnect of a stream that is done answers so and changes nothing. *)
PrepareConnect(c, meta, seq) ==
    /\ JmFree /\ Handles(c) /\ Started /\ FreshId(meta.id)
    /\ LockFree /\ ~terminalEventAcked
    /\ jmCall' = [step |-> "detach", start |-> FALSE, conn |-> c, meta |-> meta, seq |-> seq]
    /\ UNCHANGED <<smVars, connState, handlerDone, writers, attachedClient,
                   connectedStreamClient, pendingStreamMeta>>

(* connectToStreamHelper_withlock, first half.  The old stream is detached from
   the broker of the NEW connection. *)
DetachesOldClient ==
    /\ jmCall.step = "detach"
    /\ IF connectedStreamClient # NoConn
       THEN /\ ClientDisconnected
            /\ writers' = [writers EXCEPT ![jmCall.conn] = @ \ {streamId}]
       ELSE UNCHANGED <<smVars, writers>>
    /\ connectedStreamClient' = NoConn
    /\ jmCall' = [jmCall EXCEPT !.step = "connect"]
    /\ UNCHANGED <<connState, handlerDone, attachedClient, pendingStreamMeta>>

(* Mutation of CorkedRwnd: the announced window is used at once. *)
UncorkedRwnd == jmCall.meta.rwnd

(* Second half: ClientConnected.  PrepareConnect asks for a window of 0. *)
CorkedRwnd == IF jmCall.start THEN jmCall.meta.rwnd ELSE 0

ConnectsClient ==
    /\ jmCall.step = "connect" /\ LockFree
    /\ IF StreamOver \/ connected
       THEN jmCall' = NoJmCall /\ UNCHANGED smVars
       ELSE /\ ConnectBegins(jmCall.meta.id, CorkedRwnd, jmCall.seq)
            /\ jmCall' = [jmCall EXCEPT !.step = "connecting"]
    /\ UNCHANGED <<connState, handlerDone, writers, attachedClient,
                   connectedStreamClient, pendingStreamMeta>>

ClientConnectedReturned == call.step \notin {"consume", "reread", "commit"}

(* Mutations of ConnectReturns: an older pending stream is kept; jm.lock is not
   released when the client is refused. *)
ConnectReturnsKeepsPending ==
    /\ jmCall.step = "connecting" /\ ClientConnectedReturned
    /\ connected
    /\ connectedStreamClient' = jmCall.conn
    /\ pendingStreamMeta' = IF pendingStreamMeta = NoMeta THEN jmCall.meta
                                                          ELSE pendingStreamMeta
    /\ jmCall' = IF jmCall.start THEN [jmCall EXCEPT !.step = "attach"] ELSE NoJmCall
    /\ UNCHANGED <<smVars, writers, connState, handlerDone, attachedClient>>

ConnectReturnsOnlyOnSuccess ==
    /\ jmCall.step = "connecting" /\ ClientConnectedReturned
    /\ connected
    /\ connectedStreamClient' = jmCall.conn
    /\ pendingStreamMeta' = IF jmCall.start THEN pendingStreamMeta ELSE jmCall.meta
    /\ jmCall' = IF jmCall.start THEN [jmCall EXCEPT !.step = "attach"] ELSE NoJmCall
    /\ UNCHANGED <<smVars, writers, connState, handlerDone, attachedClient>>

ConnectReturns ==
    /\ jmCall.step = "connecting" /\ ClientConnectedReturned
    /\ IF connected
       THEN /\ connectedStreamClient' = jmCall.conn
            /\ IF jmCall.start
               THEN /\ jmCall' = [jmCall EXCEPT !.step = "attach"]
                    /\ writers' = [writers EXCEPT ![jmCall.conn] = @ \cup {jmCall.meta.id}]
                    /\ UNCHANGED pendingStreamMeta
               ELSE /\ jmCall' = NoJmCall
                    /\ pendingStreamMeta' = jmCall.meta
                    /\ UNCHANGED writers
       ELSE /\ jmCall' = NoJmCall
            /\ UNCHANGED <<connectedStreamClient, writers, pendingStreamMeta>>
    /\ UNCHANGED <<smVars, connState, handlerDone, attachedClient>>

(* Mutation of StartJobAttachesReader: the stream manager's lock is not taken. *)
StartJobAttachesUnlocked ==
    /\ jmCall.step = "attach"
    /\ readPc' = "check"
    /\ jmCall' = NoJmCall
    /\ UNCHANGED <<windowVars, clientVars, ackVars, terminalVars, eventVars, call,
                   readLeft, readErr, sendPc, packetVars, connState, handlerDone,
                   writers, attachedClient, connectedStreamClient, pendingStreamMeta>>

StartJobAttachesReader ==
    /\ jmCall.step = "attach"
    /\ AttachReader
    /\ jmCall' = NoJmCall
    /\ UNCHANGED <<connState, handlerDone, writers, attachedClient,
                   connectedStreamClient, pendingStreamMeta>>

-----------------------------------------------------------------------------
(* Mutation of StartStream: only the id of the pending stream is cleared. *)
StartStreamClearsId(c) ==
    /\ JmFree /\ LockFree /\ Handles(c) /\ connected
    /\ pendingStreamMeta.id # NoStream /\ pendingStreamMeta.id \notin writers[c]
    /\ writers' = [writers EXCEPT ![c] = @ \cup {pendingStreamMeta.id}]
    /\ SetRwndSize(pendingStreamMeta.rwnd)
    /\ pendingStreamMeta' = [pendingStreamMeta EXCEPT !.id = NoStream]
    /\ UNCHANGED <<connState, handlerDone, attachedClient, connectedStreamClient, jmCall>>

(* StartStream registers the stream with the broker of the connection that asks,
   then uncorks it; an error leaves the pending meta for another try. *)
StartStream(c) ==
    /\ JmFree /\ LockFree /\ Handles(c)
    /\ pendingStreamMeta # NoMeta /\ pendingStreamMeta.id \notin writers[c]
    /\ writers' = [writers EXCEPT ![c] = @ \cup {pendingStreamMeta.id}]
    /\ IF connected
       THEN SetRwndSize(pendingStreamMeta.rwnd) /\ pendingStreamMeta' = NoMeta
       ELSE UNCHANGED <<smVars, pendingStreamMeta>>
    /\ UNCHANGED <<connState, handlerDone, attachedClient, connectedStreamClient, jmCall>>

(* processRecvAck: the broker of the connection the ACK arrived on hands it to
   the writer registered for the stream.  Fin and Cancel then unregister it, but
   the stream manager reads a Cancel as an ordinary ACK. *)
AckArrives(c, kind, id, seq, rwnd) ==
    /\ Handles(c) /\ id \in writers[c] /\ LockFree
    /\ CASE ~AckIsFor(id)                       -> UNCHANGED smVars
         [] AckIsFor(id) /\ kind = "fin"        -> RecvFinAck(id)
         [] AckIsFor(id) /\ kind # "fin" /\ Stale(seq, rwnd) -> UNCHANGED smVars
         [] OTHER                               -> RecvDataAck(id, seq, rwnd)
    /\ writers' = IF kind = "data" THEN writers
                                   ELSE [writers EXCEPT ![c] = @ \ {id}]
    /\ UNCHANGED <<connState, handlerDone, attachedClient, connectedStreamClient,
                   pendingStreamMeta, jmCall>>

-----------------------------------------------------------------------------

(* The stream manager's own goroutines, and the calls into it under way. *)
ReadLoopSteps == ReadLoop /\ UNCHANGED jmVars
SenderSteps   == SenderLoop /\ UNCHANGED jmVars
CallSteps     == CallInProgress /\ UNCHANGED jmVars

StreamSteps == ReadLoopSteps \/ SenderSteps \/ CallSteps

JmCallInProgress ==
    DetachesOldClient \/ ConnectsClient \/ ConnectReturns \/ StartJobAttachesReader

(* What clients acknowledge: of the stream they are being sent, only what was
   sent.  An ACK of an older stream may say anything. *)
Sensible(kind, id, seq) ==
    AckIsFor(id) => seq <= head + sentNotAcked /\ (kind = "fin" => terminalEventSent)

Metas == [id : StreamIds, rwnd : RwndSizes \ {0}]

JmNext ==
    \/ StreamSteps
    \/ JmCallInProgress
    \/ \E c \in Conns :
         \/ Accept(c) \/ HandlerReturns(c) \/ Authenticate(c)
         \/ ConnectionDrops(c) \/ Drained(c)
         \/ \E meta \in Metas :
              StartJob(c, meta) \/ \E seq \in 0..MaxBytes : PrepareConnect(c, meta, seq)
         \/ StartStream(c)
         \/ \E kind \in {"data", "fin", "cancel"}, id \in StreamIds,
              seq \in 0..MaxBytes, rwnd \in RwndSizes :
              Sensible(kind, id, seq) /\ AckArrives(c, kind, id, seq, rwnd)

JmSpec == SetupJobManager /\ [][JmNext]_allVars

(* Goroutines that can run do run, and a goroutine that waits for a mutex gets
   it in the end (Go's mutexes are starvation free).  Nothing is assumed of the
   PTY, of the clients, or of the network. *)
FairJmSpec ==
    /\ JmSpec
    /\ SF_allVars(readPc # "read" /\ ReadLoopSteps)
    /\ SF_allVars(SenderSteps)
    /\ WF_allVars(CallSteps)
    /\ SF_allVars(JmCallInProgress)
    /\ \A c \in Conns : SF_allVars(HandlerReturns(c))

-----------------------------------------------------------------------------

(* The values every variable may take. *)
JmTypeOK ==
    /\ connState \in [Conns -> {"idle", "open", "authed", "closing", "closed"}]
    /\ handlerDone \in [Conns -> BOOLEAN]
    /\ writers \in [Conns -> SUBSET StreamIds]
    /\ attachedClient \in Conns \cup {NoConn}
    /\ connectedStreamClient \in Conns \cup {NoConn}
    /\ pendingStreamMeta \in Metas \cup {NoMeta}
    /\ jmCall \in [step : {"none", "detach", "connect", "connecting", "attach"},
                   start : BOOLEAN, conn : Conns \cup {NoConn},
                   meta : Metas \cup {NoMeta}, seq : Nat]

(* The job manager and its stream manager agree on whether there is a client,
   whichever of the calls that connect and disconnect it failed half way. *)
ClientAgrees == JmFree => (connectedStreamClient # NoConn <=> connected)

(* StartStream can uncork no other stream than the one connected last: a later
   PrepareConnect, even one that fails, leaves no older stream to be uncorked. *)
PendingIsCurrent ==
    JmFree /\ connected /\ pendingStreamMeta # NoMeta => pendingStreamMeta.id = streamId

(* Between PrepareConnect and StartStream no data is sent, so the client can
   settle from which position it reads before the first byte arrives. *)
CorkHolds ==
    connected /\ pendingStreamMeta.id = streamId =>
        ~(packet.kind = "data" /\ packet.id = streamId)

(* What ClientAgrees rests on: where in a call the client's record and the stream
   manager's flag may differ, and that a ClientConnected under way belongs to the
   call that holds jm.lock. *)
ClientDuringCall ==
    /\ ~ClientConnectedReturned => jmCall.step = "connecting"
    /\ jmCall.step \in {"none", "detach", "attach"} =>
         (connectedStreamClient # NoConn <=> connected)
    /\ jmCall.step = "connect" => ~connected
    /\ jmCall.step \in {"connect", "connecting"} => connectedStreamClient = NoConn

(* The arguments of the call that holds jm.lock. *)
CallArguments ==
    ~JmFree => jmCall.conn \in Conns /\ jmCall.meta \in Metas /\ jmCall.seq \in 0..MaxBytes

(* The inductive invariant of the job manager. *)
JmInv == JmTypeOK /\ CallArguments /\ ClientDuringCall

(* What CorkHolds rests on.  A stream that is corked: its window is 0 and will
   stay so, since no ACK of it can arrive, and no packet of it is under way. *)
Corked(id) ==
    /\ rwndSize = 0 /\ call.step # "ack"
    /\ ~(packet.kind = "data" /\ packet.id = id)
    /\ \A c \in Conns : id \notin writers[c]

(* The stream a call is about to connect is new to everyone. *)
CallIsNew ==
    ~JmFree =>
        /\ jmCall.meta.id # pendingStreamMeta.id
        /\ jmCall.step \in {"detach", "connect"} \/ ~connected =>
             FreshId(jmCall.meta.id)

(* The ClientConnected under way connects the stream of the call, corked if the
   call is a PrepareConnect. *)
CallConnects ==
    /\ ~ClientConnectedReturned =>
         call.id = jmCall.meta.id /\ call.rwnd = CorkedRwnd
    /\ jmCall.step = "connecting" /\ connected =>
         /\ streamId = jmCall.meta.id
         /\ ~jmCall.start => Corked(streamId)

(* StartJob comes before any PrepareConnect, so it finds no pending stream. *)
StartHasNoPending ==
    /\ ~Started => pendingStreamMeta = NoMeta
    /\ ~JmFree => (jmCall.start <=> ~Started)

PendingIsCorked ==
    /\ jmCall.step \in {"none", "detach"} /\ connected /\ pendingStreamMeta # NoMeta =>
         pendingStreamMeta.id = streamId
    /\ connected /\ pendingStreamMeta.id = streamId => Corked(streamId)
    /\ connected => streamId # NoStream

CorkInv == CallIsNew /\ CallConnects /\ StartHasNoPending /\ PendingIsCorked

(* The job manager uses its stream manager only as module StreamManager allows,
   so what is proved of SMSpec holds of it inside the job manager. *)
UsesStreamManager == SMSpec

(* jm.lock and sm.lock cannot block each other: the call that holds jm.lock, or
   who holds the stream manager's lock it waits for, can always go on.  None of
   them has a loop, so under the fairness of FairJmSpec the call returns. *)
CallsGoOn ==
    ~JmFree => ENABLED (JmCallInProgress \/ CallSteps \/ (~LockFree /\ SenderSteps))

NoClient == \A c \in Conns : connState[c] \in {"idle", "closed"}

(* The documentation's "buffers terminal output while disconnected" and "any
   commands you ran continue executing": without any client left, the readLoop
   does not stay blocked on the window, so the program can go on writing. *)
RunsWhileDisconnected == (NoClient /\ readPc = "write") ~> (~NoClient \/ readPc # "write")
=============================================================================
