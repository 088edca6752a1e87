---------------------------- MODULE JobLifecycle ----------------------------
(***************************************************************************)
(* The jobs of one block as the server's job controller records them       *)
(* (pkg/jobcontroller/jobcontroller.go): the records in the database, the  *)
(* block that a job is attached to, the job managers on the remote host,   *)
(* and what starts, reconnects, terminates, detaches and prunes a job.     *)
(* All of it runs concurrently, over a connection that comes and goes; one *)
(* termination and one reconnect of a job run at a time (singleflight).    *)
(*                                                                         *)
(* A call to the remote host is a step of its own between the read of the  *)
(* record and the write of what came of it; it may fail although the host  *)
(* did what it was asked to.  Which events make the server reconnect a job *)
(* is left open: it may do so at any time while the host can be reached.   *)
(***************************************************************************)
EXTENDS Integers, FiniteSets

CONSTANTS
    Jobs, NoJob, Deleted,
    MaxFaults   (* bound: lost answers, signals, killed processes,
                   restarts *)

Record == [status : {"init", "running", "done"}, toRec : BOOLEAN, attached : BOOLEAN, pid : BOOLEAN]

ASSUME JobLifecycleAssumption ==
    /\ NoJob \notin Jobs \cup Record \cup {Deleted} /\ Deleted \notin Record
    /\ MaxFaults \in Nat

VARIABLES
    job,        (* db_job: NoJob, the record, or Deleted                   *)
    block,      (* open, and its JobId                                     *)
    starting,   (* how far StartJob is with a job                          *)
    closing,    (* how far TerminateAndDetachJob is with a job             *)
    blockClose, (* a blockclose event is under way                         *)
    call,       (* of each job, the one of terminateJobManagerGroup and the
                   one of reconnectGroup                                   *)
    connUp,     (* conncontroller's IsConnected                            *)
    previousCandidates, doomed,  (* of pruneUnusedJobs                     *)
    proc,       (* the job manager: "none", "alive", "ended" (its command has,
                   and the output arrived), "dead" (or killed)             *)
    spared,     (* history: the jobs whose termination the host reported
                   although it signalled no process                    *)
    faults

callVars   == <<closing, blockClose, call>>
pruneVars  == <<previousCandidates, doomed>>
jlVars     == <<job, block, starting, callVars, connUp, pruneVars, proc, spared, faults>>

Groups == {"terminate", "reconnect"}

Call   == [step : {"idle", "terminate", "terminated", "reconnect", "gone"}, pid : BOOLEAN]

NoCall  == [step |-> "idle", pid |-> FALSE]
Nothing == [j \in Jobs |-> "no"]
NoCalls == [g \in Groups |-> [j \in Jobs |-> NoCall]]

JLInit ==
    /\ job = [j \in Jobs |-> NoJob] /\ block = [open |-> TRUE, JobId |-> NoJob]
    /\ starting = Nothing /\ closing = Nothing /\ blockClose = FALSE /\ call = NoCalls
    /\ connUp = FALSE /\ previousCandidates = {} /\ doomed = {}
    /\ proc = [j \in Jobs |-> "none"] /\ spared = {} /\ faults = 0

Exists(j)  == job[j] \notin {NoJob, Deleted}
Running(j) == Exists(j) /\ job[j].status = "running"
Done(j)    == Exists(j) /\ job[j].status = "done"

Fault     == faults < MaxFaults /\ faults' = faults + 1
CallFails == (~connUp /\ UNCHANGED faults) \/ Fault

(* DBUpdateFn: fails if the record is gone *)
Update(j, record) == job' = IF Exists(j) THEN [job EXCEPT ![j] = record] ELSE job

-----------------------------------------------------------------------------
(* Starting a job *)

NewJob == [status |-> "init", toRec |-> FALSE, attached |-> TRUE, pid |-> FALSE]

(* Under the resync mutex of the block, as Stop is, but not DeleteBlock.  Start
   leaves a block alone whose job is running. *)
Start(j) ==
    /\ block.open
    /\ job[j] = NoJob
    /\ \A k \in Jobs : starting[k] = "no" /\ closing[k] = "no"
    /\ block.JobId \in Jobs => ~Running(block.JobId)
    /\ starting' = [starting EXCEPT ![j] = "insert"]
    /\ UNCHANGED <<job, block, callVars, connUp, pruneVars, proc, spared, faults>>

(* StartJob, as far as the record *)
Insert(j) ==
    /\ starting[j] = "insert"
    /\ \/ /\ connUp
          /\ job' = [job EXCEPT ![j] = NewJob]
          /\ starting' = [starting EXCEPT ![j] = "attach"]
       \/ /\ ~connUp /\ UNCHANGED job
          /\ starting' = [starting EXCEPT ![j] = "no"]
    /\ UNCHANGED <<block, callVars, connUp, pruneVars, proc, spared, faults>>

AttachJobToBlock(j) ==
    /\ starting[j] = "attach"
    /\ IF block.open
       THEN /\ starting' = [starting EXCEPT ![j] = "call"]
            /\ block' = [block EXCEPT !.JobId = j]
            /\ job' = [k \in Jobs |-> IF Exists(k) /\ k \in {j, block.JobId}
                                      THEN [job[k] EXCEPT !.attached = (k = j)] ELSE job[k]]
       ELSE starting' = [starting EXCEPT ![j] = "no"] /\ UNCHANGED <<job, block>>
    /\ UNCHANGED <<callVars, connUp, pruneVars, proc, spared, faults>>

(* RemoteStartJobCommand: one that fails may leave the process behind. *)
RemoteStartJob(j) ==
    /\ starting[j] = "call"
    /\ \/ /\ connUp /\ UNCHANGED faults
          /\ starting' = [starting EXCEPT ![j] = "started"]
          /\ proc' = [proc EXCEPT ![j] = "alive"]
       \/ /\ CallFails
          /\ starting' = [starting EXCEPT ![j] = "failed"]
          /\ UNCHANGED proc \/ (connUp /\ proc' = [proc EXCEPT ![j] = "alive"])
    /\ UNCHANGED <<job, block, callVars, connUp, pruneVars, spared>>

StartReturns(j) ==
    /\ starting[j] \in {"started", "failed"}
    /\ starting' = [starting EXCEPT ![j] = "no"]
    /\ IF starting[j] = "started"
       THEN Update(j, [job[j] EXCEPT !.status = "running", !.pid = TRUE])
       ELSE Update(j, [job[j] EXCEPT !.status = "done"])
    /\ UNCHANGED <<block, callVars, connUp, pruneVars, proc, spared, faults>>

-----------------------------------------------------------------------------
(* Terminating a job *)

Becomes(g, j, c) == call' = [call EXCEPT ![g][j] = c]
Idle(g, j)       == call[g][j].step = "idle"

CallFor(j, step) == [step |-> step, pid |-> job[j].pid]

(* Mutation of doTerminateJobManager: the record is not marked. *)
TerminateUnmarked(j) ==
    /\ IF Exists(j) /\ ~Done(j) THEN Becomes("terminate", j, CallFor(j, "terminate")) ELSE UNCHANGED call
    /\ UNCHANGED job

(* What is not done is marked first, in case the host cannot be reached. *)
doTerminateJobManager(j) ==
    IF Exists(j) /\ ~Done(j)
    THEN /\ Becomes("terminate", j, CallFor(j, "terminate"))
         /\ job' = [job EXCEPT ![j].toRec = TRUE]
    ELSE UNCHANGED <<job, call>>

Dies(j)  == proc' = [proc EXCEPT ![j] = "dead"] /\ UNCHANGED spared
Spare(j) == spared' = spared \cup {j} /\ UNCHANGED proc

(* RemoteTerminateJobManagerCommand: SIGTERM, if it is told a process and that is
   there.  That none was told, or could be signalled, is a success as well. *)
RemoteTerminate(g, j) ==
    /\ call[g][j].step = "terminate"
    /\ \/ /\ connUp /\ Becomes(g, j, [call[g][j] EXCEPT !.step = "terminated"])
          /\ \/ call[g][j].pid /\ Dies(j) /\ UNCHANGED faults
             \/ call[g][j].pid /\ proc[j] # "dead" /\ Spare(j) /\ Fault
             \/ ~call[g][j].pid /\ Spare(j) /\ UNCHANGED faults
       \/ /\ CallFails /\ Becomes(g, j, NoCall)
          /\ UNCHANGED <<proc, spared>> \/ (connUp /\ call[g][j].pid /\ Dies(j))
    /\ UNCHANGED <<job, block, starting, closing, blockClose, connUp, pruneVars>>

(* The end of remoteTerminateJobManager *)
RecordTerminated(g, j) ==
    /\ call[g][j].step = "terminated" /\ Becomes(g, j, NoCall)
    /\ Update(j, [job[j] EXCEPT !.status = "done", !.toRec = FALSE])
    /\ UNCHANGED <<block, starting, closing, blockClose, connUp, pruneVars, proc, spared, faults>>

(* TerminateAndDetachJob joins a termination that is under way. *)
CloseTerminates(j) ==
    /\ closing[j] = "terminate"
    /\ closing' = [closing EXCEPT ![j] = "detach"]
    /\ IF Idle("terminate", j) THEN doTerminateJobManager(j) ELSE UNCHANGED <<job, call>>
    /\ UNCHANGED <<block, starting, blockClose, connUp, pruneVars, proc, spared, faults>>

(* Whether it could be terminated or not, it is detached, if the context has not
   expired with the call. *)
DetachJobFromBlock(j) ==
    /\ closing[j] = "detach" /\ Idle("terminate", j)
    /\ closing' = [closing EXCEPT ![j] = "no"]
    /\ \/ /\ Exists(j) /\ job[j].attached /\ UNCHANGED faults
          /\ job' = [job EXCEPT ![j].attached = FALSE]
          /\ block' = IF block.open THEN [block EXCEPT !.JobId = NoJob] ELSE block
       \/ Exists(j) /\ job[j].attached /\ Fault /\ UNCHANGED <<job, block>>
       \/ ~(Exists(j) /\ job[j].attached) /\ UNCHANGED <<job, block, faults>>
    /\ UNCHANGED <<starting, blockClose, call, connUp, pruneVars, proc, spared>>

(* tryTerminateJobManager: the command has exited and its stream is done. *)
tryTerminateJobManager(j) ==
    /\ proc[j] = "ended" /\ Running(j) /\ Idle("terminate", j)
    /\ doTerminateJobManager(j)
    /\ UNCHANGED <<block, starting, closing, blockClose, connUp, pruneVars, proc, spared, faults>>

(* DeleteBlock, and its event: it takes no lock. *)
CloseBlock ==
    /\ block.open
    /\ block' = [open |-> FALSE, JobId |-> NoJob]
    /\ blockClose' = TRUE
    /\ UNCHANGED <<job, starting, closing, call, connUp, pruneVars, proc, spared, faults>>

handleBlockCloseEvent ==
    /\ blockClose /\ blockClose' = FALSE
    /\ closing' = [j \in Jobs |-> IF Exists(j) /\ job[j].attached THEN "terminate" ELSE closing[j]]
    /\ UNCHANGED <<job, block, starting, call, connUp, pruneVars, proc, spared, faults>>

(* A restart that is forced: Stop of the block's controller *)
Stop ==
    /\ block.JobId \in Jobs
    /\ \A j \in Jobs : starting[j] = "no" /\ closing[j] = "no"
    /\ closing' = [closing EXCEPT ![block.JobId] = "terminate"]
    /\ UNCHANGED <<job, block, starting, blockClose, call, connUp, pruneVars, proc, spared, faults>>

-----------------------------------------------------------------------------
(* Reconnecting a job *)

(* doReconnectJob: a job that is marked is terminated instead.  (A done job that
   is marked needs no call.) *)
ReconnectBegins(j) ==
    /\ Idle("reconnect", j) /\ connUp
    /\ Exists(j) /\ job[j].status # "init" /\ ~(Done(j) /\ job[j].toRec)
    /\ Becomes("reconnect", j, CallFor(j, IF job[j].toRec THEN "terminate" ELSE "reconnect"))
    /\ UNCHANGED <<job, block, starting, closing, blockClose, connUp, pruneVars, proc, spared, faults>>

Reconnecting(j) == call["reconnect"][j].step = "reconnect"

(* Mutation of RemoteReconnect: a call that fails says the job manager is gone. *)
FailureIsGone(j) ==
    /\ Reconnecting(j)
    /\ \/ /\ connUp /\ UNCHANGED faults
          /\ Becomes("reconnect", j, NoCall)
       \/ CallFails /\ Becomes("reconnect", j, [call["reconnect"][j] EXCEPT !.step = "gone"])
    /\ UNCHANGED <<job, block, starting, closing, blockClose, connUp, pruneVars, proc, spared>>

(* RemoteReconnectToJobManagerCommand: it finds the process, or says that it is
   gone. *)
RemoteReconnect(j) ==
    /\ Reconnecting(j)
    /\ \/ /\ connUp /\ UNCHANGED faults
          /\ IF call["reconnect"][j].pid /\ proc[j] # "dead"
             THEN Becomes("reconnect", j, NoCall)
             ELSE Becomes("reconnect", j, [call["reconnect"][j] EXCEPT !.step = "gone"])
       \/ CallFails /\ Becomes("reconnect", j, NoCall)
    /\ UNCHANGED <<job, block, starting, closing, blockClose, connUp, pruneVars, proc, spared>>

RecordGone(j) ==
    /\ call["reconnect"][j].step = "gone" /\ Becomes("reconnect", j, NoCall)
    /\ Update(j, [job[j] EXCEPT !.status = "done"])
    /\ UNCHANGED <<block, starting, closing, blockClose, connUp, pruneVars, proc, spared, faults>>

-----------------------------------------------------------------------------
(* The host, the pruner and the server *)

ConnChange ==
    /\ connUp' = ~connUp
    /\ UNCHANGED <<job, block, starting, callVars, pruneVars, proc, spared, faults>>

(* The command exits and its output arrives, or somebody kills the job manager. *)
JobEnds(j) ==
    /\ \/ proc[j] = "alive" /\ connUp /\ proc' = [proc EXCEPT ![j] = "ended"] /\ UNCHANGED faults
       \/ proc[j] \in {"alive", "ended"} /\ Fault /\ proc' = [proc EXCEPT ![j] = "dead"]
    /\ UNCHANGED <<job, block, starting, callVars, connUp, pruneVars, spared>>

(* Mutation of Candidates: whatever is done. *)
CandidatesAttachedToo == {j \in Jobs : Done(j)}

Candidates == {j \in Jobs : Done(j) /\ ~job[j].attached}

(* A tick of the pruner: what was a candidate at the last one is deleted. *)
pruneUnusedJobs ==
    /\ doomed = {} /\ previousCandidates \cup Candidates # {}
    /\ doomed' = previousCandidates \cap Candidates /\ previousCandidates' = Candidates
    /\ UNCHANGED <<job, block, starting, callVars, connUp, proc, spared, faults>>

DeleteJob(j) ==
    /\ j \in doomed /\ doomed' = doomed \ {j}
    /\ job' = [job EXCEPT ![j] = Deleted]
    /\ UNCHANGED <<block, starting, callVars, connUp, previousCandidates, proc, spared, faults>>

(* The server stops, in the middle of anything, and starts again. *)
ServerRestarts ==
    /\ Fault /\ UNCHANGED <<job, block, proc, spared>>
    /\ starting' = Nothing /\ closing' = Nothing /\ blockClose' = FALSE /\ call' = NoCalls
    /\ connUp' = FALSE /\ previousCandidates' = {} /\ doomed' = {}

JobSteps(j) ==
    \/ Start(j) \/ Insert(j) \/ AttachJobToBlock(j) \/ RemoteStartJob(j) \/ StartReturns(j)
    \/ CloseTerminates(j) \/ DetachJobFromBlock(j) \/ tryTerminateJobManager(j)
    \/ \E g \in Groups : RemoteTerminate(g, j) \/ RecordTerminated(g, j)
    \/ ReconnectBegins(j) \/ RemoteReconnect(j) \/ RecordGone(j)
    \/ JobEnds(j) \/ DeleteJob(j)

JLNext ==
    \/ \E j \in Jobs : JobSteps(j)
    \/ CloseBlock \/ handleBlockCloseEvent \/ Stop
    \/ ConnChange \/ pruneUnusedJobs \/ ServerRestarts

JLSpec == JLInit /\ [][JLNext]_jlVars

-----------------------------------------------------------------------------
(* Properties *)

JLTypeOK ==
    /\ job \in [Jobs -> Record \cup {NoJob, Deleted}]
    /\ block \in [open : BOOLEAN, JobId : Jobs \cup {NoJob}]
    /\ starting \in [Jobs -> {"no", "insert", "attach", "call", "started", "failed"}]
    /\ closing \in [Jobs -> {"no", "terminate", "detach"}] /\ blockClose \in BOOLEAN
    /\ call \in [Groups -> [Jobs -> Call]]
    /\ connUp \in BOOLEAN /\ previousCandidates \in SUBSET Jobs /\ doomed \in SUBSET Jobs
    /\ proc \in [Jobs -> {"none", "alive", "ended", "dead"}] /\ spared \subseteq Jobs /\ faults \in Nat

(* A started job whose record says done has no job manager left on the host: no
   reconnect would come back to it, and the pruner deletes it.  The record is
   written on the word of a call that was made before, by whoever was first.  The
   exception is a host that reported a termination without having signalled the
   process: the signal failed, or the call was made before the job had started. *)
DoneIsDead ==
    \A j \in Jobs \ spared : Done(j) /\ job[j].pid => proc[j] = "dead"

(* A block and its job name each other: nobody deletes what a block shows, and of
   the jobs that were started one at most is attached to an open block. *)
BlockHasItsJob ==
    /\ block.JobId # NoJob => Exists(block.JobId) /\ job[block.JobId].attached
    /\ block.open =>
          \A j \in Jobs : Exists(j) /\ job[j].pid /\ job[j].attached => block.JobId = j

(* What runs detached, because its host could not be reached when its block was
   closed or restarted, is marked: the next reconnect terminates it.  This is so
   across restarts of the server, with the same exception. *)
DetachedIsMarked ==
    \A j \in Jobs \ spared : Running(j) /\ ~job[j].attached => job[j].toRec

(* To close a block terminates its session, docs/docs/durable-sessions.mdx says,
   or leaves that to the next reconnect.  It does neither if it comes between
   StartJob's record of the new job and that of its process. *)
ClosedIsTerminated ==
    ~block.open /\ ~blockClose =>
        \A j \in Jobs : closing[j] = "no" /\ starting[j] = "no" /\ Running(j) => job[j].toRec
=============================================================================
