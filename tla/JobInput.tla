------------------------------ MODULE JobInput ------------------------------
(***************************************************************************)
(* What the user types into a durable shell, on its way to the PTY: the    *)
(* block's controller numbers each input (durableshellcontroller.go), an   *)
(* RPC carries it to the job manager, which handles every request in a     *)
(* goroutine of its own, so in any order (wshrpc.go), and puts it into the *)
(* reorder queue (mainserverconn.go); processInputQueue writes what comes  *)
(* out to the PTY (jobmanager.go).                                         *)
(***************************************************************************)
EXTENDS ReorderQueue, SequencesExt

CONSTANT MaxInputs   (* bound: inputs of each controller *)

ASSUME InputAssumption ==
    /\ MaxInputs \in [Sessions -> Nat]
    /\ Items = UNION {[session : {s}, seqNum : 1..MaxInputs[s]] : s \in Sessions}

VARIABLES
    controller,    (* InputSessionId of the block's controller                *)
    inputSeqNum,   (* of each controller there was: the last number it gave   *)
    requests,      (* JobInput requests under way                             *)
    jobStarted,    (* jm.Cmd # nil                                            *)
    pty,           (* what the PTY was given                                  *)
    overtaken,     (* ticks since a later input of its session was queued     *)
    late           (* queued at least a timeout after a later input, or after
                      a later session                                         *)

inputVars == <<controller, inputSeqNum, requests, jobStarted, pty, overtaken, late>>
jiVars    == <<queueVars, inputVars>>

JIInit ==
    /\ MakeQuickReorderQueue
    /\ controller = NoSession /\ inputSeqNum = [s \in Sessions |-> 0]
    /\ requests = {} /\ jobStarted = FALSE /\ pty = <<>>
    /\ overtaken = [i \in Items |-> 0] /\ late = {}

(* MakeDurableShellController: the main server was restarted, say. *)
NewController(s) ==
    /\ inputSeqNum[s] = 0 /\ controller # s
    /\ controller' = s
    /\ UNCHANGED <<queueVars, inputSeqNum, requests, jobStarted, pty, overtaken, late>>

(* SendInput takes a number, and then finds the job connected or not. *)
SendInput ==
    /\ controller # NoSession /\ inputSeqNum[controller] < MaxInputs[controller]
    /\ inputSeqNum' = [inputSeqNum EXCEPT ![controller] = @ + 1]
    /\ \/ requests' = requests \cup {[session |-> controller, seqNum |-> inputSeqNum'[controller]]}
       \/ UNCHANGED requests
    /\ UNCHANGED <<queueVars, controller, jobStarted, pty, overtaken, late>>

(* The connection breaks under a request. *)
RequestLost(i) ==
    /\ requests' = requests \ {i}
    /\ UNCHANGED <<queueVars, controller, inputSeqNum, jobStarted, pty, overtaken, late>>

StartJob ==
    /\ ~jobStarted /\ jobStarted' = TRUE
    /\ UNCHANGED <<queueVars, controller, inputSeqNum, requests, pty, overtaken, late>>

OutOfSession(i) == ~IsNew(i) /\ i.session # currentSessionId

(* A full queue refuses an item; the error is dropped, the answer is "done". *)
JobInputCommand(i) ==
    /\ requests' = requests \ {i}
    /\ IF jobStarted /\ HasRoom
       THEN /\ QueueItem(i)
            /\ late' = IF overtaken[i] >= Timeout \/ OutOfSession(i) THEN late \cup {i} ELSE late
       ELSE UNCHANGED <<queueVars, late>>
    /\ UNCHANGED <<controller, inputSeqNum, jobStarted, pty, overtaken>>

processInputQueue ==
    /\ Receive
    /\ pty' = Append(pty, Head(outCh))
    /\ UNCHANGED <<controller, inputSeqNum, requests, jobStarted, overtaken, late>>

Queued == buffer \cup Range(outCh) \cup Range(pty)

Overtaken(i) == \E j \in Queued : j.session = i.session /\ j.seqNum > i.seqNum

TimePasses ==
    /\ Tick
    /\ overtaken' = [i \in Items |-> IF i \in requests /\ Overtaken(i) /\ overtaken[i] < Timeout
                                     THEN overtaken[i] + 1 ELSE overtaken[i]]
    /\ UNCHANGED <<controller, inputSeqNum, requests, jobStarted, pty, late>>

CallbackRuns == (TimerFires \/ StrayFires) /\ UNCHANGED inputVars

JINext ==
    \/ \E s \in Sessions : NewController(s)
    \/ SendInput \/ StartJob \/ processInputQueue \/ TimePasses \/ CallbackRuns
    \/ \E i \in requests : RequestLost(i) \/ JobInputCommand(i)

JISpec == JIInit /\ [][JINext]_jiVars

(* Goroutines of the job manager run, callbacks run, and time passes. *)
FairJISpec ==
    /\ JISpec
    /\ WF_jiVars(processInputQueue) /\ WF_jiVars(CallbackRuns) /\ WF_jiVars(TimePasses)

-----------------------------------------------------------------------------
(* Properties *)

(* Out of the queue an input comes once, and after one it should have come
   before only if it was queued a timeout later than that, or in a session
   that was over. *)
InOrderUnlessLate ==
    LET out == pty \o outCh
    IN  \A m, n \in DOMAIN out :
            m < n => /\ out[m] # out[n]
                     /\ Before(out[n], out[m]) => out[n] \in late

(* Every input the queue accepted is given to the PTY in the end. *)
QueuedReachesPty == \A i \in Items : i \in buffer ~> i \in Range(pty)

=============================================================================
