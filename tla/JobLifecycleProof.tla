------------------------- MODULE JobLifecycleProof -------------------------
(***************************************************************************)
(* What holds of the jobs of a block, for every number of jobs and of      *)
(* faults.                                                                 *)
(***************************************************************************)
EXTENDS JobLifecycle, TLAPS

(* The record of a job that starts has no process yet: what terminates it until
   then spares it. *)
Unrecorded(j) ==
    /\ ~job[j].pid /\ job[j].status # "running"
    /\ Done(j) => j \in spared
    /\ ~job[j].attached => job[j].toRec \/ j \in spared

(* Nothing else touches a job that starts as long as its block is open. *)
Undisturbed(j) ==
    /\ \A k \in Jobs : closing[k] = "no"
    /\ \A g \in Groups : call[g][j].step = "idle"
    /\ starting[j] # "insert" =>
          Exists(j) /\ job[j].status = "init" /\ job[j].attached /\ ~job[j].toRec
    /\ IF starting[j] \in {"insert", "attach"}
       THEN block.JobId \in Jobs => block.JobId # j /\ ~Running(block.JobId)
       ELSE block.JobId = j

OneStarts ==
    \A j \in Jobs : starting[j] # "no" =>
        /\ \A k \in Jobs : k # j => starting[k] = "no"
        /\ job[j] = NoJob <=> starting[j] = "insert"
        /\ Exists(j) => Unrecorded(j)
        /\ block.open => Undisturbed(j)

(* What a call was told stays true until its end is recorded, or the job is spared:
   so is one that was terminated without its process. *)
CallIsExact(c, j) ==
    /\ job[j] # NoJob
    /\ c.pid => starting[j] = "no" /\ (Exists(j) => job[j].pid)
    /\ c.pid /\ c.step \in {"terminated", "gone"} => proc[j] = "dead" \/ j \in spared
    /\ ~c.pid /\ c.step = "terminated" => j \in spared
    /\ ~c.pid /\ c.step \in {"reconnect", "gone"} =>
          \/ j \in spared
          \/ starting[j] = "no" /\ (Exists(j) => ~job[j].pid)

CallsAreExact ==
    \A j \in Jobs : \A g \in Groups : call[g][j].step # "idle" => CallIsExact(call[g][j], j)

Settled(j) == Exists(j) => Done(j) \/ job[j].toRec \/ j \in spared

(* Who terminates a job has marked it, and so has who detaches it. *)
MarkedFirst ==
    \A j \in Jobs :
        /\ call["terminate"][j].step # "idle" => Settled(j)
        /\ closing[j] = "detach" => Settled(j)

CloseIsOfTheBlock ==
    /\ blockClose => ~block.open
    /\ ~block.open => block.JobId = NoJob
    /\ \A j \in Jobs : closing[j] # "no" =>
          /\ job[j] # NoJob
          /\ block.open => block.JobId = j

DoomedIsDetached == \A j \in doomed : Exists(j) /\ ~job[j].attached

JLInv ==
    /\ JLTypeOK /\ OneStarts /\ CallsAreExact /\ MarkedFirst /\ CloseIsOfTheBlock
    /\ DoomedIsDetached /\ DoneIsDead /\ BlockHasItsJob /\ DetachedIsMarked

USE DEF Groups

(* The record of job j becomes r, or its call in group g becomes c, and the other
   ones stay. *)
JobBecomes(j, r) ==
    /\ job' \in [Jobs -> Record \cup {NoJob, Deleted}]
    /\ job'[j] = r /\ \A k \in Jobs : k # j => job'[k] = job[k]

CallBecomes(g, j, c) ==
    /\ call' \in [Groups -> [Jobs -> Call]]
    /\ call'[g][j] = c
    /\ \A h \in Groups : \A k \in Jobs : h # g \/ k # j => call'[h][k] = call[h][k]

IsRecord(r, s, m, a, p) ==
    r \in Record /\ r.status = s /\ r.toRec = m /\ r.attached = a /\ r.pid = p

IsCall(c, s, p) == c \in Call /\ c.step = s /\ c.pid = p

LEMMA RecordUpdates ==
    ASSUME NEW r \in Record, NEW s \in {"init", "running", "done"}
    PROVE  /\ IsRecord([r EXCEPT !.toRec = TRUE], r.status, TRUE, r.attached, r.pid)
           /\ \A b \in BOOLEAN : IsRecord([r EXCEPT !.attached = b], r.status, r.toRec, b, r.pid)
           /\ IsRecord([r EXCEPT !.status = s], s, r.toRec, r.attached, r.pid)
           /\ IsRecord([r EXCEPT !.status = s, !.pid = TRUE], s, r.toRec, r.attached, TRUE)
           /\ IsRecord([r EXCEPT !.status = s, !.toRec = FALSE], s, FALSE, r.attached, r.pid)
BY DEF Record, IsRecord

LEMMA NewJobIsRecord == IsRecord(NewJob, "init", FALSE, TRUE, FALSE)
BY DEF NewJob, Record, IsRecord

LEMMA CallUpdates ==
    ASSUME NEW c \in Call, NEW s \in {"idle", "terminate", "terminated", "reconnect", "gone"}, NEW b \in BOOLEAN
    PROVE  /\ IsCall([c EXCEPT !.step = s], s, c.pid)
           /\ IsCall([step |-> s, pid |-> b], s, b)
           /\ IsCall(NoCall, "idle", FALSE)
BY DEF Call, IsCall, NoCall

LEMMA CallSet ==
    ASSUME JLTypeOK, NEW g \in Groups, NEW j \in Jobs, NEW c \in Call, Becomes(g, j, c)
    PROVE  CallBecomes(g, j, c)
BY DEF JLTypeOK, Becomes, CallBecomes

LEMMA JobSet ==
    ASSUME JLTypeOK, NEW j \in Jobs, NEW r \in Record \cup {NoJob, Deleted}, job' = [job EXCEPT ![j] = r]
    PROVE  JobBecomes(j, r)
BY DEF JLTypeOK, JobBecomes

LEMMA RecordExists ==
    ASSUME JLTypeOK, NEW j \in Jobs, Exists(j)
    PROVE  job[j] \in Record
BY DEF JLTypeOK, Exists

LEMMA Init == JLInit => JLInv
<1> SUFFICES ASSUME JLInit PROVE JLInv
    OBVIOUS
<1>1. JLTypeOK
    BY DEF JLInit, JLTypeOK, NoCalls, NoCall, Nothing, Call
<1>2. /\ \A j \in Jobs : job[j] = NoJob /\ starting[j] = "no" /\ closing[j] = "no"
      /\ \A j \in Jobs : \A g \in Groups : call[g][j].step = "idle"
      /\ blockClose = FALSE /\ doomed = {} /\ block.JobId = NoJob /\ block.open
    BY DEF JLInit, NoCalls, NoCall, Nothing
<1> QED BY <1>1, <1>2
    DEF JLInv, OneStarts, Unrecorded, Undisturbed, CallsAreExact, CallIsExact, MarkedFirst,
        CloseIsOfTheBlock, DoomedIsDetached, DoneIsDead, BlockHasItsJob, DetachedIsMarked, Settled,
        Exists, Running, Done

LEMMA StartKeeps ==
    ASSUME JLInv, NEW j \in Jobs, Start(j)
    PROVE  JLInv'
<1>1. /\ block.open /\ \A k \in Jobs : starting[k] = "no" /\ closing[k] = "no"
      /\ block.JobId \in Jobs => ~Running(block.JobId)
      /\ job[j] = NoJob /\ ~Exists(j)
      /\ starting' = [starting EXCEPT ![j] = "insert"]
      /\ UNCHANGED <<job, block, closing, blockClose, call>>
      /\ UNCHANGED <<previousCandidates, doomed, proc, connUp, spared, faults>>
    BY DEF Start, callVars, pruneVars, Exists
<1>2. JLTypeOK'
    BY <1>1, JobLifecycleAssumption
    DEF JLInv, JLTypeOK
<1>3. OneStarts'
    BY <1>1, JobLifecycleAssumption
    DEF JLInv, JLTypeOK, OneStarts, Unrecorded, Undisturbed, CallsAreExact, CallIsExact, BlockHasItsJob, Exists,
        Running, Done
<1>4. CallsAreExact'
    BY <1>1, JobLifecycleAssumption
    DEF JLInv, JLTypeOK, OneStarts, Unrecorded, CallsAreExact, CallIsExact, Exists
<1>5. MarkedFirst'
    BY <1>1, JobLifecycleAssumption
    DEF JLInv, JLTypeOK, MarkedFirst, Settled, Exists, Done
<1>6. CloseIsOfTheBlock'
    BY <1>1, JobLifecycleAssumption
    DEF JLInv, JLTypeOK, CloseIsOfTheBlock, BlockHasItsJob, Exists
<1>7. DoomedIsDetached'
    BY <1>1, JobLifecycleAssumption
    DEF JLInv, JLTypeOK, DoomedIsDetached, Exists
<1>8. DoneIsDead'
    BY <1>1, JobLifecycleAssumption
    DEF JLInv, JLTypeOK, DoneIsDead, Exists, Done
<1>9. BlockHasItsJob'
    BY <1>1, JobLifecycleAssumption
    DEF JLInv, JLTypeOK, BlockHasItsJob, Exists
<1>10. DetachedIsMarked'
    BY <1>1, JobLifecycleAssumption
    DEF JLInv, JLTypeOK, DetachedIsMarked, Exists, Running
<1> QED BY <1>2, <1>3, <1>4, <1>5, <1>6, <1>7, <1>8, <1>9, <1>10 DEF JLInv

(* A start that ends without a word *)
LEMMA StartEnds ==
    ASSUME JLInv, NEW j \in Jobs, starting' = [starting EXCEPT ![j] = "no"],
           UNCHANGED <<job, block, callVars, connUp, pruneVars, proc, spared, faults>>
    PROVE  JLInv'
<1>1. /\ starting' = [starting EXCEPT ![j] = "no"]
      /\ UNCHANGED <<job, block, closing, blockClose, call>>
      /\ UNCHANGED <<previousCandidates, doomed, proc, connUp, spared, faults>>
    BY DEF callVars, pruneVars
<1>2. JLTypeOK'
    BY <1>1
    DEF JLInv, JLTypeOK
<1>3. OneStarts'
    BY <1>1
    DEF JLInv, JLTypeOK, OneStarts, Unrecorded, Undisturbed, CallsAreExact, CallIsExact, BlockHasItsJob, Exists,
        Running, Done
<1>4. CallsAreExact'
    BY <1>1
    DEF JLInv, JLTypeOK, OneStarts, Unrecorded, CallsAreExact, CallIsExact, Exists
<1>5. MarkedFirst'
    BY <1>1
    DEF JLInv, JLTypeOK, MarkedFirst, Settled, Exists, Done
<1>6. CloseIsOfTheBlock'
    BY <1>1
    DEF JLInv, JLTypeOK, CloseIsOfTheBlock, BlockHasItsJob, Exists
<1>7. DoomedIsDetached'
    BY <1>1
    DEF JLInv, JLTypeOK, DoomedIsDetached, Exists
<1>8. DoneIsDead'
    BY <1>1
    DEF JLInv, JLTypeOK, DoneIsDead, Exists, Done
<1>9. BlockHasItsJob'
    BY <1>1
    DEF JLInv, JLTypeOK, BlockHasItsJob, Exists
<1>10. DetachedIsMarked'
    BY <1>1
    DEF JLInv, JLTypeOK, DetachedIsMarked, Exists, Running
<1> QED BY <1>2, <1>3, <1>4, <1>5, <1>6, <1>7, <1>8, <1>9, <1>10 DEF JLInv

LEMMA InsertKeeps ==
    ASSUME JLInv, NEW j \in Jobs, Insert(j)
    PROVE  JLInv'
<1>0. SUFFICES ASSUME connUp
               PROVE  JLInv'
    BY StartEnds DEF Insert
<1>1. JobBecomes(j, NewJob)
    BY <1>0, JobSet, NewJobIsRecord DEF JLInv, Insert, IsRecord
<1>2. /\ starting[j] = "insert" /\ job[j] = NoJob /\ ~Exists(j)
      /\ starting' = [starting EXCEPT ![j] = "attach"]
      /\ UNCHANGED <<block, closing, blockClose, call>>
      /\ UNCHANGED <<previousCandidates, doomed, proc, connUp, spared, faults>>
    BY <1>0 DEF Insert, callVars, pruneVars, Exists, JLInv, OneStarts
<1>3. IsRecord(job'[j], "init", FALSE, TRUE, FALSE)
    BY <1>1, NewJobIsRecord DEF JobBecomes
<1>4. JLTypeOK'
    BY <1>1, <1>2, <1>3 DEF JLInv, JLTypeOK, JobBecomes, IsRecord
<1>5. OneStarts'
    BY JobLifecycleAssumption, <1>1, <1>2, <1>3, <1>4
    DEF JLInv, JLTypeOK, OneStarts, Unrecorded, Undisturbed, CallsAreExact, CallIsExact, MarkedFirst,
        CloseIsOfTheBlock, DoomedIsDetached, DoneIsDead, BlockHasItsJob, DetachedIsMarked, Settled,
        Exists, Running, Done, JobBecomes, IsRecord
<1>6. CallsAreExact'
    BY <1>1, <1>2, <1>3, <1>4
    DEF JLInv, JLTypeOK, OneStarts, Unrecorded, Undisturbed, CallsAreExact, CallIsExact, Exists,
        JobBecomes, IsRecord
<1>7. MarkedFirst'
    BY JobLifecycleAssumption, <1>1, <1>2, <1>3, <1>4
    DEF JLInv, JLTypeOK, OneStarts, Unrecorded, Undisturbed, CallsAreExact, CallIsExact, MarkedFirst,
        CloseIsOfTheBlock, DoomedIsDetached, DoneIsDead, BlockHasItsJob, DetachedIsMarked, Settled,
        Exists, Running, Done, JobBecomes, IsRecord
<1>8. CloseIsOfTheBlock'
    BY <1>1, <1>2, <1>3, <1>4
    DEF JLInv, JLTypeOK, OneStarts, Unrecorded, Undisturbed, CloseIsOfTheBlock, BlockHasItsJob, Exists,
        JobBecomes, IsRecord
<1>9. DoomedIsDetached'
    BY <1>1, <1>2, <1>3, <1>4
    DEF JLInv, JLTypeOK, OneStarts, Unrecorded, Undisturbed, DoomedIsDetached, Exists, Done, JobBecomes,
        IsRecord
<1>10. DoneIsDead'
    BY <1>1, <1>2, <1>3, <1>4
    DEF JLInv, JLTypeOK, OneStarts, Unrecorded, Undisturbed, CallsAreExact, CallIsExact, DoneIsDead,
        Exists, Done, JobBecomes, IsRecord
<1>11. BlockHasItsJob'
    BY <1>1, <1>2, <1>3, <1>4
    DEF JLInv, JLTypeOK, OneStarts, Unrecorded, Undisturbed, CloseIsOfTheBlock, BlockHasItsJob,
        DoomedIsDetached, Exists, JobBecomes, IsRecord
<1>12. DetachedIsMarked'
    BY <1>1, <1>2, <1>3, <1>4
    DEF JLInv, JLTypeOK, OneStarts, Unrecorded, Undisturbed, MarkedFirst, Settled, DetachedIsMarked,
        Exists, Running, Done, JobBecomes, IsRecord
<1> QED BY <1>4, <1>5, <1>6, <1>7, <1>8, <1>9, <1>10, <1>11, <1>12 DEF JLInv

LEMMA AttachKeeps ==
    ASSUME JLInv, NEW j \in Jobs, AttachJobToBlock(j)
    PROVE  JLInv'
<1>0. SUFFICES ASSUME block.open
               PROVE  JLInv'
    BY StartEnds DEF AttachJobToBlock
<1>1. block.open /\ Exists(j) /\ job[j] \in Record
    BY <1>0, RecordExists DEF JLInv, OneStarts, Undisturbed, AttachJobToBlock
<1>2. /\ job' \in [Jobs -> Record \cup {NoJob, Deleted}]
      /\ IsRecord(job'[j], job[j].status, job[j].toRec, TRUE, job[j].pid)
      /\ \A k \in Jobs : k # j => \/ job'[k] = job[k] /\ (Exists(k) => k # block.JobId)
                                  \/ k = block.JobId /\ Exists(k)
                                     /\ IsRecord(job'[k], job[k].status, job[k].toRec, FALSE, job[k].pid)
    <2>1. job' = [k \in Jobs |-> IF Exists(k) /\ k \in {j, block.JobId}
                                 THEN [job[k] EXCEPT !.attached = (k = j)] ELSE job[k]]
        BY <1>1 DEF AttachJobToBlock
    <2>2. ASSUME NEW k \in Jobs, Exists(k), k \in {j, block.JobId}
          PROVE  IsRecord(job'[k], job[k].status, job[k].toRec, k = j, job[k].pid)
        <3>1. job[k] \in Record
            BY <2>2, RecordExists DEF JLInv
        <3>2. job'[k] = [job[k] EXCEPT !.attached = (k = j)]
            BY <2>1, <2>2
        <3>3. (k = j) \in BOOLEAN
            OBVIOUS
        <3> QED BY <3>1, <3>2, <3>3, RecordUpdates
    <2>3. \A k \in Jobs : ~(Exists(k) /\ k \in {j, block.JobId}) => job'[k] = job[k]
        BY <2>1
    <2>4. \A k \in Jobs : job'[k] \in Record \cup {NoJob, Deleted}
        BY <2>2, <2>3 DEF JLInv, JLTypeOK, IsRecord
    <2>5. job' = [k \in Jobs |-> job'[k]]
        BY <2>1
    <2>6. job' \in [Jobs -> Record \cup {NoJob, Deleted}]
        BY <2>4, <2>5
    <2>7. IsRecord(job'[j], job[j].status, job[j].toRec, TRUE, job[j].pid)
        BY <1>1, <2>2
    <2>8. \A k \in Jobs : k # j /\ k = block.JobId /\ Exists(k)
                          => IsRecord(job'[k], job[k].status, job[k].toRec, FALSE, job[k].pid)
        BY <2>2
    <2> QED BY <2>3, <2>6, <2>7, <2>8
<1>3. /\ starting[j] = "attach" /\ starting' = [starting EXCEPT ![j] = "call"]
      /\ block' = [block EXCEPT !.JobId = j]
      /\ UNCHANGED <<closing, blockClose, call, previousCandidates, doomed, proc, connUp, spared, faults>>
    BY <1>1 DEF AttachJobToBlock, callVars, pruneVars
<1>4. \A k \in Jobs : Exists(k)' <=> Exists(k)
    BY <1>1, <1>2, JobLifecycleAssumption DEF IsRecord, Exists
<1>5. JLTypeOK'
    BY <1>1, <1>2, <1>3, <1>4 DEF JLInv, JLTypeOK, IsRecord
<1>6. OneStarts'
    BY <1>1, <1>2, <1>3, <1>4, <1>5
    DEF JLInv, JLTypeOK, OneStarts, Unrecorded, Undisturbed, Exists, Running, Done, IsRecord
<1>7. CallsAreExact'
    BY <1>1, <1>2, <1>3, <1>4, <1>5
    DEF JLInv, JLTypeOK, OneStarts, Unrecorded, Undisturbed, CallsAreExact, CallIsExact, Exists, IsRecord
<1>8. MarkedFirst'
    BY <1>1, <1>2, <1>3, <1>4, <1>5 DEF JLInv, JLTypeOK, MarkedFirst, Settled, Exists, Done, IsRecord
<1>9. CloseIsOfTheBlock'
    BY <1>1, <1>2, <1>3, <1>4, <1>5
    DEF JLInv, JLTypeOK, OneStarts, Unrecorded, Undisturbed, CloseIsOfTheBlock, BlockHasItsJob, Exists,
        IsRecord
<1>10. DoomedIsDetached'
    BY <1>1, <1>2, <1>3, <1>4, <1>5
    DEF JLInv, JLTypeOK, OneStarts, Unrecorded, Undisturbed, DoomedIsDetached, Exists, Done, IsRecord
<1>11. DoneIsDead'
    BY <1>1, <1>2, <1>3, <1>4, <1>5
    DEF JLInv, JLTypeOK, OneStarts, Unrecorded, Undisturbed, CallsAreExact, CallIsExact, DoneIsDead,
        Exists, Done, IsRecord
<1>12. BlockHasItsJob'
    BY <1>1, <1>2, <1>3, <1>4, <1>5
    DEF JLInv, JLTypeOK, OneStarts, Unrecorded, Undisturbed, CloseIsOfTheBlock, BlockHasItsJob,
        DoomedIsDetached, Exists, IsRecord
<1>13. DetachedIsMarked'
    BY <1>1, <1>2, <1>3, <1>4, <1>5
    DEF JLInv, JLTypeOK, OneStarts, Unrecorded, Undisturbed, MarkedFirst, Settled, DetachedIsMarked,
        Exists, Running, Done, IsRecord
<1> QED BY <1>5, <1>6, <1>7, <1>8, <1>9, <1>10, <1>11, <1>12, <1>13 DEF JLInv

LEMMA RemoteStartKeeps ==
    ASSUME JLInv, NEW j \in Jobs, RemoteStartJob(j)
    PROVE  JLInv'
<1>1. /\ starting[j] = "call" /\ \E s \in {"started", "failed"} : starting' = [starting EXCEPT ![j] = s]
      /\ proc' = proc \/ proc' = [proc EXCEPT ![j] = "alive"]
      /\ faults' \in Nat /\ connUp' = connUp
      /\ UNCHANGED <<job, block, closing, blockClose, call, previousCandidates, doomed, spared>>
    BY DEF RemoteStartJob, CallFails, Fault, callVars, pruneVars, JLInv, JLTypeOK
<1>2. JLTypeOK'
    BY <1>1 DEF JLInv, JLTypeOK
<1>3. OneStarts'
    BY <1>1, <1>2 DEF JLInv, JLTypeOK, OneStarts, Unrecorded, Undisturbed, Exists, Running, Done
<1>4. CallsAreExact'
    BY <1>1, <1>2
    DEF JLInv, JLTypeOK, OneStarts, Unrecorded, Undisturbed, CallsAreExact, CallIsExact, Exists
<1>5. MarkedFirst'
    BY <1>1, <1>2 DEF JLInv, JLTypeOK, MarkedFirst, Settled, Exists, Done
<1>6. CloseIsOfTheBlock'
    BY <1>1, <1>2
    DEF JLInv, JLTypeOK, OneStarts, Unrecorded, Undisturbed, CloseIsOfTheBlock, BlockHasItsJob, Exists
<1>7. DoomedIsDetached'
    BY <1>1, <1>2 DEF JLInv, JLTypeOK, OneStarts, Unrecorded, Undisturbed, DoomedIsDetached, Exists, Done
<1>8. DoneIsDead'
    BY <1>1, <1>2
    DEF JLInv, JLTypeOK, OneStarts, Unrecorded, Undisturbed, CallsAreExact, CallIsExact, DoneIsDead,
        Exists, Done
<1>9. BlockHasItsJob'
    BY <1>1, <1>2
    DEF JLInv, JLTypeOK, OneStarts, Unrecorded, Undisturbed, CloseIsOfTheBlock, BlockHasItsJob,
        DoomedIsDetached, Exists
<1>10. DetachedIsMarked'
    BY <1>1, <1>2
    DEF JLInv, JLTypeOK, OneStarts, Unrecorded, Undisturbed, MarkedFirst, Settled, DetachedIsMarked,
        Exists, Running, Done
<1> QED BY <1>2, <1>3, <1>4, <1>5, <1>6, <1>7, <1>8, <1>9, <1>10 DEF JLInv

LEMMA StartReturnsKeeps ==
    ASSUME JLInv, NEW j \in Jobs, StartReturns(j)
    PROVE  JLInv'
<1>0. SUFFICES ASSUME Exists(j)
               PROVE  JLInv'
    BY StartEnds DEF StartReturns, Update
<1>1. job[j] \in Record /\ Exists(j)
    BY <1>0, RecordExists DEF JLInv
<1>2. \E r \in Record : JobBecomes(j, r) /\
          \/ IsRecord(r, "running", job[j].toRec, job[j].attached, TRUE)
          \/ IsRecord(r, "done", job[j].toRec, job[j].attached, job[j].pid)
    <2>1. CASE starting[j] = "started"
        <3> DEFINE r == [job[j] EXCEPT !.status = "running", !.pid = TRUE]
        <3>1. IsRecord(r, "running", job[j].toRec, job[j].attached, TRUE)
            BY <1>1, RecordUpdates
        <3>2. job' = [job EXCEPT ![j] = r]
            BY <1>1, <2>1 DEF StartReturns, Update
        <3>3. JobBecomes(j, r)
            <4> HIDE DEF r
            <4> QED BY <3>1, <3>2, JobSet DEF JLInv, IsRecord
        <3> QED BY <3>1, <3>3 DEF IsRecord
    <2>2. CASE starting[j] # "started"
        <3> DEFINE r == [job[j] EXCEPT !.status = "done"]
        <3>1. IsRecord(r, "done", job[j].toRec, job[j].attached, job[j].pid)
            BY <1>1, RecordUpdates
        <3>2. job' = [job EXCEPT ![j] = r]
            BY <1>1, <2>2 DEF StartReturns, Update
        <3>3. JobBecomes(j, r)
            <4> HIDE DEF r
            <4> QED BY <3>1, <3>2, JobSet DEF JLInv, IsRecord
        <3> QED BY <3>1, <3>3 DEF IsRecord
    <2> QED BY <2>1, <2>2
<1>3. /\ starting[j] \in {"started", "failed"} /\ starting' = [starting EXCEPT ![j] = "no"]
      /\ UNCHANGED <<block, closing, blockClose, call, previousCandidates, doomed, proc, connUp, spared, faults>>
    BY DEF StartReturns, callVars, pruneVars
<1>4. \A k \in Jobs : Exists(k)' <=> Exists(k)
    BY <1>1, <1>2, JobLifecycleAssumption DEF JobBecomes, Exists
<1>5. JLTypeOK'
    BY <1>1, <1>2, <1>3, <1>4 DEF JLInv, JLTypeOK, JobBecomes, IsRecord
<1>6. OneStarts'
    BY <1>1, <1>2, <1>3, <1>4, <1>5
    DEF JLInv, JLTypeOK, OneStarts, Unrecorded, Undisturbed, Exists, Running, Done, JobBecomes, IsRecord
<1>7. CallsAreExact'
    BY <1>1, <1>2, <1>3, <1>4, <1>5
    DEF JLInv, JLTypeOK, OneStarts, Unrecorded, Undisturbed, CallsAreExact, CallIsExact, Exists,
        JobBecomes, IsRecord
<1>8. MarkedFirst'
    BY JobLifecycleAssumption, <1>1, <1>2, <1>3, <1>4, <1>5
    DEF JLInv, JLTypeOK, OneStarts, Unrecorded, Undisturbed, CallsAreExact, CallIsExact, MarkedFirst,
        CloseIsOfTheBlock, DoomedIsDetached, DoneIsDead, BlockHasItsJob, DetachedIsMarked, Settled,
        Exists, Running, Done, JobBecomes, IsRecord
<1>9. CloseIsOfTheBlock'
    BY <1>1, <1>2, <1>3, <1>4, <1>5
    DEF JLInv, JLTypeOK, OneStarts, Unrecorded, Undisturbed, CloseIsOfTheBlock, BlockHasItsJob, Exists,
        JobBecomes, IsRecord
<1>10. DoomedIsDetached'
    BY <1>1, <1>2, <1>3, <1>4, <1>5
    DEF JLInv, JLTypeOK, OneStarts, Unrecorded, Undisturbed, DoomedIsDetached, Exists, Done, JobBecomes,
        IsRecord
<1>11. DoneIsDead'
    BY <1>1, <1>2, <1>3, <1>4, <1>5
    DEF JLInv, JLTypeOK, OneStarts, Unrecorded, Undisturbed, CallsAreExact, CallIsExact, DoneIsDead,
        Exists, Done, JobBecomes, IsRecord
<1>12. BlockHasItsJob'
    BY <1>1, <1>2, <1>3, <1>4, <1>5
    DEF JLInv, JLTypeOK, OneStarts, Unrecorded, Undisturbed, CloseIsOfTheBlock, BlockHasItsJob,
        DoomedIsDetached, Exists, JobBecomes, IsRecord
<1>13. DetachedIsMarked'
    BY <1>1, <1>2, <1>3, <1>4, <1>5
    DEF JLInv, JLTypeOK, OneStarts, Unrecorded, Undisturbed, MarkedFirst, Settled, DetachedIsMarked,
        Exists, Running, Done, JobBecomes, IsRecord
<1> QED BY <1>5, <1>6, <1>7, <1>8, <1>9, <1>10, <1>11, <1>12, <1>13 DEF JLInv

(* doTerminateJobManager: either nothing happens, or the job is marked and its call
   begins. *)
LEMMA TerminateEffect ==
    ASSUME JLInv, NEW j \in Jobs, Idle("terminate", j), doTerminateJobManager(j)
    PROVE  \/ UNCHANGED <<job, call>> /\ (Exists(j) => Done(j))
           \/ /\ Exists(j) /\ ~Done(j)
              /\ \E r \in Record : /\ JobBecomes(j, r)
                                  /\ IsRecord(r, job[j].status, TRUE, job[j].attached, job[j].pid)
              /\ \E c \in Call : /\ CallBecomes("terminate", j, c)
                                /\ IsCall(c, "terminate", job[j].pid)
<1>1. CASE ~(Exists(j) /\ ~Done(j))
    BY <1>1 DEF doTerminateJobManager
<1>2. CASE Exists(j) /\ ~Done(j)
    <2>1. job[j] \in Record /\ job[j].pid \in BOOLEAN
        BY <1>2, RecordExists DEF JLInv, Record
    <2> DEFINE r == [job[j] EXCEPT !.toRec = TRUE]
               c == CallFor(j, "terminate")
    <2>2. IsRecord(r, job[j].status, TRUE, job[j].attached, job[j].pid)
        BY <2>1, RecordUpdates
    <2>3. IsCall(c, "terminate", job[j].pid)
        BY <2>1 DEF CallFor, IsCall, Call
    <2>4. job' = [job EXCEPT ![j] = r] /\ Becomes("terminate", j, c)
        BY <1>2 DEF doTerminateJobManager
    <2>5. JobBecomes(j, r) /\ CallBecomes("terminate", j, c)
        <3> HIDE DEF r, c
        <3> QED BY <2>2, <2>3, <2>4, JobSet, CallSet DEF JLInv, IsRecord, IsCall
    <2> QED BY <1>2, <2>2, <2>3, <2>5 DEF IsRecord, IsCall
<1> QED BY <1>1, <1>2

LEMMA CloseTerminatesKeeps ==
    ASSUME JLInv, NEW j \in Jobs, CloseTerminates(j)
    PROVE  JLInv'
<1>1. \/ UNCHANGED <<job, call>> /\ (Exists(j) => Done(j))
      \/ /\ Exists(j) /\ ~Done(j)
         /\ \E r \in Record : /\ JobBecomes(j, r)
                             /\ IsRecord(r, job[j].status, TRUE, job[j].attached, job[j].pid)
         /\ \E c \in Call : /\ CallBecomes("terminate", j, c)
                           /\ IsCall(c, "terminate", job[j].pid)
      \/ UNCHANGED <<job, call>> /\ call["terminate"][j].step # "idle"
    BY TerminateEffect DEF CloseTerminates, Idle
<1>2. /\ closing[j] = "terminate" /\ closing' = [closing EXCEPT ![j] = "detach"]
      /\ UNCHANGED <<block, starting, blockClose, previousCandidates, doomed, proc, connUp, spared, faults>>
    BY DEF CloseTerminates, pruneVars
<1>3. /\ \A k \in Jobs : Exists(k)' <=> Exists(k)
      /\ block.open => \A k \in Jobs : starting[k] = "no"
    BY <1>1, <1>2, JobLifecycleAssumption
    DEF JobBecomes, Exists, JLInv, OneStarts, Unrecorded, Undisturbed
<1>4. JLTypeOK'
    BY <1>1, <1>2, <1>3 DEF JLInv, JLTypeOK, JobBecomes, CallBecomes, IsRecord, IsCall
<1>5. OneStarts'
    BY <1>1, <1>2, <1>3, <1>4
    DEF JLInv, JLTypeOK, OneStarts, Unrecorded, Undisturbed, Exists, Running, Done, JobBecomes, CallBecomes,
        IsRecord, IsCall
<1>6. CallsAreExact'
    BY <1>1, <1>2, <1>3, <1>4
    DEF JLInv, JLTypeOK, OneStarts, Unrecorded, Undisturbed, CallsAreExact, CallIsExact, Exists,
        JobBecomes, CallBecomes, IsRecord, IsCall
<1>7. MarkedFirst'
    BY <1>1, <1>2, <1>3, <1>4
    DEF JLInv, JLTypeOK, MarkedFirst, Settled, Exists, Done, JobBecomes, CallBecomes, IsRecord, IsCall
<1>8. CloseIsOfTheBlock'
    BY <1>1, <1>2, <1>3, <1>4
    DEF JLInv, JLTypeOK, OneStarts, Unrecorded, Undisturbed, CloseIsOfTheBlock, BlockHasItsJob, Exists,
        JobBecomes, CallBecomes, IsRecord, IsCall
<1>9. DoomedIsDetached'
    BY <1>1, <1>2, <1>3, <1>4
    DEF JLInv, JLTypeOK, OneStarts, Unrecorded, Undisturbed, DoomedIsDetached, Exists, Done, JobBecomes,
        CallBecomes, IsRecord, IsCall
<1>10. DoneIsDead'
    BY <1>1, <1>2, <1>3, <1>4
    DEF JLInv, JLTypeOK, OneStarts, Unrecorded, Undisturbed, CallsAreExact, CallIsExact, DoneIsDead,
        Exists, Done, JobBecomes, CallBecomes, IsRecord, IsCall
<1>11. BlockHasItsJob'
    BY <1>1, <1>2, <1>3, <1>4
    DEF JLInv, JLTypeOK, OneStarts, Unrecorded, Undisturbed, CloseIsOfTheBlock, BlockHasItsJob,
        DoomedIsDetached, Exists, JobBecomes, CallBecomes, IsRecord, IsCall
<1>12. DetachedIsMarked'
    BY <1>1, <1>2, <1>3, <1>4
    DEF JLInv, JLTypeOK, OneStarts, Unrecorded, Undisturbed, MarkedFirst, Settled, DetachedIsMarked,
        Exists, Running, Done, JobBecomes, CallBecomes, IsRecord, IsCall
<1> QED BY <1>4, <1>5, <1>6, <1>7, <1>8, <1>9, <1>10, <1>11, <1>12 DEF JLInv

LEMMA DetachKeeps ==
    ASSUME JLInv, NEW j \in Jobs, DetachJobFromBlock(j)
    PROVE  JLInv'
<1>1. \/ job' = job /\ block' = block
      \/ /\ Exists(j) /\ job[j].attached
         /\ \E r \in Record : JobBecomes(j, r) /\ IsRecord(r, job[j].status, job[j].toRec, FALSE, job[j].pid)
         /\ block' = IF block.open THEN [block EXCEPT !.JobId = NoJob] ELSE block
    <2> SUFFICES ASSUME Exists(j), job[j].attached, job' = [job EXCEPT ![j].attached = FALSE]
                 PROVE  \E r \in Record : JobBecomes(j, r) /\ IsRecord(r, job[j].status, job[j].toRec, FALSE, job[j].pid)
        BY DEF DetachJobFromBlock
    <2> DEFINE r == [job[j] EXCEPT !.attached = FALSE]
    <2>1. IsRecord(r, job[j].status, job[j].toRec, FALSE, job[j].pid)
        BY RecordExists, RecordUpdates DEF JLInv
    <2>2. job' = [job EXCEPT ![j] = r]
        OBVIOUS
    <2>3. JobBecomes(j, r)
        <3> HIDE DEF r
        <3> QED BY <2>1, <2>2, JobSet DEF JLInv, IsRecord
    <2> QED BY <2>1, <2>3 DEF IsRecord
<1>2. /\ closing[j] = "detach" /\ call["terminate"][j].step = "idle"
      /\ closing' = [closing EXCEPT ![j] = "no"]
      /\ faults' \in Nat /\ connUp' = connUp
      /\ UNCHANGED <<starting, blockClose, call, previousCandidates, doomed, proc, spared>>
    BY DEF DetachJobFromBlock, Idle, Fault, pruneVars, JLInv, JLTypeOK
<1>3. /\ \A k \in Jobs : Exists(k)' <=> Exists(k)
      /\ block.open => \A k \in Jobs : starting[k] = "no"
    BY <1>1, <1>2, JobLifecycleAssumption
    DEF JobBecomes, Exists, JLInv, OneStarts, Unrecorded, Undisturbed
<1>4. JLTypeOK'
    BY <1>1, <1>2, <1>3 DEF JLInv, JLTypeOK, JobBecomes, IsRecord
<1>5. OneStarts'
    BY <1>1, <1>2, <1>3, <1>4
    DEF JLInv, JLTypeOK, OneStarts, Unrecorded, Undisturbed, MarkedFirst, Settled, Exists, Running, Done, JobBecomes, IsRecord
<1>6. CallsAreExact'
    BY <1>1, <1>2, <1>3, <1>4
    DEF JLInv, JLTypeOK, OneStarts, Unrecorded, Undisturbed, CallsAreExact, CallIsExact, Exists,
        JobBecomes, IsRecord
<1>7. MarkedFirst'
    BY <1>1, <1>2, <1>3, <1>4
    DEF JLInv, JLTypeOK, MarkedFirst, Settled, Exists, Done, JobBecomes, IsRecord
<1>8. CloseIsOfTheBlock'
    BY <1>1, <1>2, <1>3, <1>4
    DEF JLInv, JLTypeOK, OneStarts, Unrecorded, Undisturbed, CloseIsOfTheBlock, BlockHasItsJob, Exists,
        JobBecomes, IsRecord
<1>9. DoomedIsDetached'
    BY <1>1, <1>2, <1>3, <1>4
    DEF JLInv, JLTypeOK, OneStarts, Unrecorded, Undisturbed, DoomedIsDetached, Exists, Done, JobBecomes,
        IsRecord
<1>10. DoneIsDead'
    BY <1>1, <1>2, <1>3, <1>4
    DEF JLInv, JLTypeOK, OneStarts, Unrecorded, Undisturbed, CallsAreExact, CallIsExact, DoneIsDead,
        Exists, Done, JobBecomes, IsRecord
<1>11. BlockHasItsJob'
    BY <1>1, <1>2, <1>3, <1>4
    DEF JLInv, JLTypeOK, OneStarts, Unrecorded, Undisturbed, CloseIsOfTheBlock, BlockHasItsJob,
        DoomedIsDetached, Exists, JobBecomes, IsRecord
<1>12. DetachedIsMarked'
    BY <1>1, <1>2, <1>3, <1>4
    DEF JLInv, JLTypeOK, OneStarts, Unrecorded, Undisturbed, MarkedFirst, Settled, DetachedIsMarked,
        Exists, Running, Done, JobBecomes, IsRecord
<1> QED BY <1>4, <1>5, <1>6, <1>7, <1>8, <1>9, <1>10, <1>11, <1>12 DEF JLInv

LEMMA TryTerminateKeeps ==
    ASSUME JLInv, NEW j \in Jobs, tryTerminateJobManager(j)
    PROVE  JLInv'
<1>1. \/ UNCHANGED <<job, call>> /\ (Exists(j) => Done(j))
      \/ /\ Exists(j) /\ ~Done(j)
         /\ \E r \in Record : /\ JobBecomes(j, r)
                             /\ IsRecord(r, job[j].status, TRUE, job[j].attached, job[j].pid)
         /\ \E c \in Call : /\ CallBecomes("terminate", j, c)
                           /\ IsCall(c, "terminate", job[j].pid)
    BY TerminateEffect DEF tryTerminateJobManager
<1>2. UNCHANGED <<block, starting, closing, blockClose, previousCandidates, doomed, proc, connUp, spared, faults>>
    BY DEF tryTerminateJobManager, pruneVars
<1>3. \A k \in Jobs : Exists(k)' <=> Exists(k)
    BY <1>1, JobLifecycleAssumption DEF JobBecomes, Exists
<1>4. Running(j) /\ starting[j] = "no"
    BY DEF JLInv, OneStarts, Unrecorded, Undisturbed, tryTerminateJobManager, Running
<1>5. JLTypeOK'
    BY <1>1, <1>2, <1>3, <1>4 DEF JLInv, JLTypeOK, JobBecomes, CallBecomes, IsRecord, IsCall
<1>6. OneStarts'
    BY <1>1, <1>2, <1>3, <1>4, <1>5
    DEF JLInv, JLTypeOK, OneStarts, Unrecorded, Undisturbed, Exists, Running, Done, JobBecomes, CallBecomes,
        IsRecord, IsCall
<1>7. CallsAreExact'
    BY <1>1, <1>2, <1>3, <1>4, <1>5
    DEF JLInv, JLTypeOK, OneStarts, Unrecorded, Undisturbed, CallsAreExact, CallIsExact, Exists,
        JobBecomes, CallBecomes, IsRecord, IsCall
<1>8. MarkedFirst'
    BY <1>1, <1>2, <1>3, <1>4, <1>5
    DEF JLInv, JLTypeOK, MarkedFirst, Settled, Exists, Done, JobBecomes, CallBecomes, IsRecord, IsCall
<1>9. CloseIsOfTheBlock'
    BY <1>1, <1>2, <1>3, <1>4, <1>5
    DEF JLInv, JLTypeOK, OneStarts, Unrecorded, Undisturbed, CloseIsOfTheBlock, BlockHasItsJob, Exists,
        JobBecomes, CallBecomes, IsRecord, IsCall
<1>10. DoomedIsDetached'
    BY <1>1, <1>2, <1>3, <1>4, <1>5
    DEF JLInv, JLTypeOK, OneStarts, Unrecorded, Undisturbed, DoomedIsDetached, Exists, Done, JobBecomes,
        CallBecomes, IsRecord, IsCall
<1>11. DoneIsDead'
    BY <1>1, <1>2, <1>3, <1>4, <1>5
    DEF JLInv, JLTypeOK, OneStarts, Unrecorded, Undisturbed, CallsAreExact, CallIsExact, DoneIsDead,
        Exists, Done, JobBecomes, CallBecomes, IsRecord, IsCall
<1>12. BlockHasItsJob'
    BY <1>1, <1>2, <1>3, <1>4, <1>5
    DEF JLInv, JLTypeOK, OneStarts, Unrecorded, Undisturbed, CloseIsOfTheBlock, BlockHasItsJob,
        DoomedIsDetached, Exists, JobBecomes, CallBecomes, IsRecord, IsCall
<1>13. DetachedIsMarked'
    BY <1>1, <1>2, <1>3, <1>4, <1>5
    DEF JLInv, JLTypeOK, OneStarts, Unrecorded, Undisturbed, MarkedFirst, Settled, DetachedIsMarked,
        Exists, Running, Done, JobBecomes, CallBecomes, IsRecord, IsCall
<1> QED BY <1>5, <1>6, <1>7, <1>8, <1>9, <1>10, <1>11, <1>12, <1>13 DEF JLInv

LEMMA RemoteTerminateKeeps ==
    ASSUME JLInv, NEW j \in Jobs, NEW g \in Groups, RemoteTerminate(g, j)
    PROVE  JLInv'
<1>1. call[g][j] \in Call /\ call[g][j].step = "terminate"
    BY DEF JLInv, JLTypeOK, RemoteTerminate
<1>2. \E c \in Call : CallBecomes(g, j, c) /\
          \/ /\ IsCall(c, "terminated", call[g][j].pid)
             /\ \/ call[g][j].pid /\ Dies(j)
                \/ Spare(j)
          \/ /\ IsCall(c, "idle", FALSE)
             /\ \/ UNCHANGED <<proc, spared>>
                \/ call[g][j].pid /\ Dies(j)
    <2> DEFINE c == [call[g][j] EXCEPT !.step = "terminated"]
    <2>1. \/ /\ Becomes(g, j, c)
             /\ \/ call[g][j].pid /\ Dies(j)
                \/ Spare(j)
          \/ /\ Becomes(g, j, NoCall)
             /\ \/ UNCHANGED <<proc, spared>>
                \/ call[g][j].pid /\ Dies(j)
        BY DEF RemoteTerminate
    <2>2. IsCall(c, "terminated", call[g][j].pid) /\ IsCall(NoCall, "idle", FALSE)
        BY <1>1, CallUpdates
    <2> HIDE DEF c
    <2>3. (Becomes(g, j, c) => CallBecomes(g, j, c)) /\ (Becomes(g, j, NoCall) => CallBecomes(g, j, NoCall))
        BY <2>2, CallSet DEF JLInv, IsCall
    <2> QED BY <2>1, <2>2, <2>3 DEF IsCall
<1>3. /\ faults' \in Nat /\ connUp' = connUp
      /\ UNCHANGED <<job, block, starting, closing, blockClose, previousCandidates, doomed>>
    BY DEF RemoteTerminate, CallFails, Fault, pruneVars, JLInv, JLTypeOK
<1>4. block.open => starting[j] = "no"
    BY <1>1 DEF JLInv, OneStarts, Unrecorded, Undisturbed
<1>5. JLTypeOK'
    BY <1>1, <1>2, <1>3, <1>4 DEF Dies, Spare, JLInv, JLTypeOK, CallBecomes, IsCall
<1>6. OneStarts'
    BY <1>1, <1>2, <1>3, <1>4, <1>5
    DEF Dies, Spare, JLInv, JLTypeOK, OneStarts, Unrecorded, Undisturbed, Exists, Running, Done, CallBecomes, IsCall
<1>7. CallsAreExact'
    BY <1>1, <1>2, <1>3, <1>4, <1>5
    DEF Dies, Spare, JLInv, JLTypeOK, OneStarts, Unrecorded, Undisturbed, CallsAreExact, CallIsExact, Exists,
        CallBecomes, IsCall
<1>8. MarkedFirst'
    BY <1>1, <1>2, <1>3, <1>4, <1>5
    DEF Dies, Spare, JLInv, JLTypeOK, MarkedFirst, Settled, Exists, Done, CallBecomes, IsCall
<1>9. CloseIsOfTheBlock'
    BY <1>1, <1>2, <1>3, <1>4, <1>5
    DEF Dies, Spare, JLInv, JLTypeOK, OneStarts, Unrecorded, Undisturbed, CloseIsOfTheBlock, BlockHasItsJob, Exists,
        CallBecomes, IsCall
<1>10. DoomedIsDetached'
    BY <1>1, <1>2, <1>3, <1>4, <1>5
    DEF Dies, Spare, JLInv, JLTypeOK, OneStarts, Unrecorded, Undisturbed, DoomedIsDetached, Exists, Done, CallBecomes,
        IsCall
<1>11. DoneIsDead'
    BY <1>1, <1>2, <1>3, <1>4, <1>5
    DEF Dies, Spare, JLInv, JLTypeOK, OneStarts, Unrecorded, Undisturbed, CallsAreExact, CallIsExact, DoneIsDead,
        Exists, Done, CallBecomes, IsCall
<1>12. BlockHasItsJob'
    BY <1>1, <1>2, <1>3, <1>4, <1>5
    DEF Dies, Spare, JLInv, JLTypeOK, OneStarts, Unrecorded, Undisturbed, CloseIsOfTheBlock, BlockHasItsJob,
        DoomedIsDetached, Exists, CallBecomes, IsCall
<1>13. DetachedIsMarked'
    BY <1>1, <1>2, <1>3, <1>4, <1>5
    DEF Dies, Spare, JLInv, JLTypeOK, OneStarts, Unrecorded, Undisturbed, MarkedFirst, Settled, DetachedIsMarked,
        Exists, Running, Done, CallBecomes, IsCall
<1> QED BY <1>5, <1>6, <1>7, <1>8, <1>9, <1>10, <1>11, <1>12, <1>13 DEF JLInv

LEMMA RecordTerminatedKeeps ==
    ASSUME JLInv, NEW j \in Jobs, NEW g \in Groups, RecordTerminated(g, j)
    PROVE  JLInv'
<1>1. call[g][j].step = "terminated" /\ UNCHANGED <<block, starting, closing, blockClose, previousCandidates, doomed, proc, connUp, spared, faults>>
    BY DEF RecordTerminated, pruneVars
<1>2. \E c \in Call : CallBecomes(g, j, c) /\ IsCall(c, "idle", FALSE)
    <2>1. IsCall(NoCall, "idle", FALSE)
        BY DEF IsCall, Call, NoCall
    <2>2. Becomes(g, j, NoCall)
        BY DEF RecordTerminated
    <2> QED BY <2>1, <2>2, CallSet DEF JLInv, IsCall
<1>3. \/ ~Exists(j) /\ job' = job
      \/ Exists(j) /\ \E r \in Record : JobBecomes(j, r) /\ IsRecord(r, "done", FALSE, job[j].attached, job[j].pid)
    <2>1. CASE Exists(j)
        <3> DEFINE r == [job[j] EXCEPT !.status = "done", !.toRec = FALSE]
        <3>1. IsRecord(r, "done", FALSE, job[j].attached, job[j].pid)
            BY <2>1, RecordExists, RecordUpdates DEF JLInv
        <3>2. job' = [job EXCEPT ![j] = r]
            BY <2>1 DEF RecordTerminated, Update
        <3>3. JobBecomes(j, r)
            <4> HIDE DEF r
            <4> QED BY <3>1, <3>2, JobSet DEF JLInv, IsRecord
        <3> QED BY <2>1, <3>1, <3>3 DEF IsRecord
    <2> QED BY <2>1 DEF RecordTerminated, Update
<1>4. \A k \in Jobs : Exists(k)' <=> Exists(k)
    BY <1>3, JobLifecycleAssumption DEF JobBecomes, Exists
<1>5. block.open => starting[j] = "no"
    BY <1>1 DEF JLInv, OneStarts, Unrecorded, Undisturbed
<1>6. JLTypeOK'
    BY <1>1, <1>2, <1>3, <1>4, <1>5 DEF JLInv, JLTypeOK, JobBecomes, CallBecomes, IsRecord, IsCall
<1>7. OneStarts'
    BY <1>1, <1>2, <1>3, <1>4, <1>5, <1>6
    DEF JLInv, JLTypeOK, OneStarts, Unrecorded, Undisturbed, CallsAreExact, CallIsExact, Exists, Running, Done, JobBecomes, CallBecomes,
        IsRecord, IsCall
<1>8. CallsAreExact'
    BY <1>1, <1>2, <1>3, <1>4, <1>5, <1>6
    DEF JLInv, JLTypeOK, OneStarts, Unrecorded, Undisturbed, CallsAreExact, CallIsExact, Exists,
        JobBecomes, CallBecomes, IsRecord, IsCall
<1>9. MarkedFirst'
    BY <1>1, <1>2, <1>3, <1>4, <1>5, <1>6
    DEF JLInv, JLTypeOK, MarkedFirst, Settled, Exists, Done, JobBecomes, CallBecomes, IsRecord, IsCall
<1>10. CloseIsOfTheBlock'
    BY <1>1, <1>2, <1>3, <1>4, <1>5, <1>6
    DEF JLInv, JLTypeOK, OneStarts, Unrecorded, Undisturbed, CloseIsOfTheBlock, BlockHasItsJob, Exists,
        JobBecomes, CallBecomes, IsRecord, IsCall
<1>11. DoomedIsDetached'
    BY <1>1, <1>2, <1>3, <1>4, <1>5, <1>6
    DEF JLInv, JLTypeOK, OneStarts, Unrecorded, Undisturbed, DoomedIsDetached, Exists, Done, JobBecomes,
        CallBecomes, IsRecord, IsCall
<1>12. DoneIsDead'
    BY <1>1, <1>2, <1>3, <1>4, <1>5, <1>6
    DEF JLInv, JLTypeOK, OneStarts, Unrecorded, Undisturbed, CallsAreExact, CallIsExact, DoneIsDead,
        Exists, Done, JobBecomes, CallBecomes, IsRecord, IsCall
<1>13. BlockHasItsJob'
    BY <1>1, <1>2, <1>3, <1>4, <1>5, <1>6
    DEF JLInv, JLTypeOK, OneStarts, Unrecorded, Undisturbed, CloseIsOfTheBlock, BlockHasItsJob,
        DoomedIsDetached, Exists, JobBecomes, CallBecomes, IsRecord, IsCall
<1>14. DetachedIsMarked'
    BY <1>1, <1>2, <1>3, <1>4, <1>5, <1>6
    DEF JLInv, JLTypeOK, OneStarts, Unrecorded, Undisturbed, MarkedFirst, Settled, DetachedIsMarked,
        Exists, Running, Done, JobBecomes, CallBecomes, IsRecord, IsCall
<1> QED BY <1>6, <1>7, <1>8, <1>9, <1>10, <1>11, <1>12, <1>13, <1>14 DEF JLInv

LEMMA ReconnectBeginsKeeps ==
    ASSUME JLInv, NEW j \in Jobs, ReconnectBegins(j)
    PROVE  JLInv'
<1>1. /\ Exists(j) /\ job[j].status # "init" /\ call["reconnect"][j].step = "idle"
      /\ UNCHANGED <<job, block, starting, closing, blockClose, previousCandidates, doomed, proc, connUp, spared, faults>>
    BY DEF ReconnectBegins, Idle, pruneVars
<1>2. \E c \in Call : CallBecomes("reconnect", j, c) /\ c.step \in {"terminate", "reconnect"} /\ c.pid = job[j].pid
    <2> DEFINE d == CallFor(j, IF job[j].toRec THEN "terminate" ELSE "reconnect")
    <2>1. job[j].pid \in BOOLEAN
        BY <1>1, RecordExists DEF JLInv, Record
    <2>2. IsCall(d, "terminate", job[j].pid) \/ IsCall(d, "reconnect", job[j].pid)
        BY <2>1 DEF CallFor, IsCall, Call
    <2>3. Becomes("reconnect", j, d)
        BY DEF ReconnectBegins
    <2> HIDE DEF d
    <2> QED BY <2>2, <2>3, CallSet DEF JLInv, IsCall
<1>3. /\ block.open => starting[j] = "no"
      /\ starting[j] # "no" => ~job[j].pid /\ j \in spared
    <2>1. job[j].status \in {"running", "done"}
        BY <1>1, RecordExists DEF JLInv, Record
    <2> QED BY <1>1, <2>1 DEF JLInv, OneStarts, Unrecorded, Undisturbed, Exists, Done
<1>4. JLTypeOK'
    BY <1>1, <1>2, <1>3 DEF JLInv, JLTypeOK, CallBecomes, IsCall
<1>5. OneStarts'
    BY <1>1, <1>2, <1>3, <1>4
    DEF JLInv, JLTypeOK, OneStarts, Unrecorded, Undisturbed, Exists, Running, Done, CallBecomes, IsCall
<1>6. CallsAreExact'
    BY <1>1, <1>2, <1>3, <1>4
    DEF JLInv, JLTypeOK, OneStarts, Unrecorded, Undisturbed, CallsAreExact, CallIsExact, Exists,
        CallBecomes, IsCall
<1>7. MarkedFirst'
    BY <1>1, <1>2, <1>3, <1>4 DEF JLInv, JLTypeOK, MarkedFirst, Settled, Exists, Done, CallBecomes, IsCall
<1>8. CloseIsOfTheBlock'
    BY <1>1, <1>2, <1>3, <1>4
    DEF JLInv, JLTypeOK, OneStarts, Unrecorded, Undisturbed, CloseIsOfTheBlock, BlockHasItsJob, Exists,
        CallBecomes, IsCall
<1>9. DoomedIsDetached'
    BY <1>1, <1>2, <1>3, <1>4
    DEF JLInv, JLTypeOK, OneStarts, Unrecorded, Undisturbed, DoomedIsDetached, Exists, Done, CallBecomes,
        IsCall
<1>10. DoneIsDead'
    BY <1>1, <1>2, <1>3, <1>4
    DEF JLInv, JLTypeOK, OneStarts, Unrecorded, Undisturbed, CallsAreExact, CallIsExact, DoneIsDead,
        Exists, Done, CallBecomes, IsCall
<1>11. BlockHasItsJob'
    BY <1>1, <1>2, <1>3, <1>4
    DEF JLInv, JLTypeOK, OneStarts, Unrecorded, Undisturbed, CloseIsOfTheBlock, BlockHasItsJob,
        DoomedIsDetached, Exists, CallBecomes, IsCall
<1>12. DetachedIsMarked'
    BY <1>1, <1>2, <1>3, <1>4
    DEF JLInv, JLTypeOK, OneStarts, Unrecorded, Undisturbed, MarkedFirst, Settled, DetachedIsMarked,
        Exists, Running, Done, CallBecomes, IsCall
<1> QED BY <1>4, <1>5, <1>6, <1>7, <1>8, <1>9, <1>10, <1>11, <1>12 DEF JLInv

LEMMA RemoteReconnectKeeps ==
    ASSUME JLInv, NEW j \in Jobs, RemoteReconnect(j)
    PROVE  JLInv'
<1>1. call["reconnect"][j] \in Call /\ call["reconnect"][j].step = "reconnect"
    BY DEF JLInv, JLTypeOK, RemoteReconnect, Reconnecting
<1>2. \E c \in Call : CallBecomes("reconnect", j, c) /\
          \/ IsCall(c, "idle", FALSE)
          \/ IsCall(c, "gone", call["reconnect"][j].pid) /\ (call["reconnect"][j].pid => proc[j] = "dead")
    <2> DEFINE c == [call["reconnect"][j] EXCEPT !.step = "gone"]
    <2>1. \/ Becomes("reconnect", j, c) /\ (call["reconnect"][j].pid => proc[j] = "dead")
          \/ Becomes("reconnect", j, NoCall)
        BY DEF RemoteReconnect
    <2>2. IsCall(c, "gone", call["reconnect"][j].pid) /\ IsCall(NoCall, "idle", FALSE)
        BY <1>1, CallUpdates
    <2> HIDE DEF c
    <2>3. /\ Becomes("reconnect", j, c) => CallBecomes("reconnect", j, c)
          /\ Becomes("reconnect", j, NoCall) => CallBecomes("reconnect", j, NoCall)
        BY <2>2, CallSet DEF JLInv, IsCall
    <2> QED BY <2>1, <2>2, <2>3 DEF IsCall
<1>3. faults' \in Nat /\ connUp' = connUp /\ UNCHANGED <<job, block, starting, closing, blockClose, previousCandidates, doomed, proc, spared>>
    BY DEF RemoteReconnect, CallFails, Fault, pruneVars, JLInv, JLTypeOK
<1>4. block.open => starting[j] = "no"
    BY <1>1 DEF JLInv, OneStarts, Unrecorded, Undisturbed
<1>5. JLTypeOK'
    BY <1>1, <1>2, <1>3, <1>4 DEF JLInv, JLTypeOK, CallBecomes, IsCall
<1>6. OneStarts'
    BY <1>1, <1>2, <1>3, <1>4, <1>5
    DEF JLInv, JLTypeOK, OneStarts, Unrecorded, Undisturbed, Exists, Running, Done, CallBecomes, IsCall
<1>7. CallsAreExact'
    BY <1>1, <1>2, <1>3, <1>4, <1>5
    DEF JLInv, JLTypeOK, OneStarts, Unrecorded, Undisturbed, CallsAreExact, CallIsExact, Exists,
        CallBecomes, IsCall
<1>8. MarkedFirst'
    BY <1>1, <1>2, <1>3, <1>4, <1>5
    DEF JLInv, JLTypeOK, MarkedFirst, Settled, Exists, Done, CallBecomes, IsCall
<1>9. CloseIsOfTheBlock'
    BY <1>1, <1>2, <1>3, <1>4, <1>5
    DEF JLInv, JLTypeOK, OneStarts, Unrecorded, Undisturbed, CloseIsOfTheBlock, BlockHasItsJob, Exists,
        CallBecomes, IsCall
<1>10. DoomedIsDetached'
    BY <1>1, <1>2, <1>3, <1>4, <1>5
    DEF JLInv, JLTypeOK, OneStarts, Unrecorded, Undisturbed, DoomedIsDetached, Exists, Done, CallBecomes,
        IsCall
<1>11. DoneIsDead'
    BY <1>1, <1>2, <1>3, <1>4, <1>5
    DEF JLInv, JLTypeOK, OneStarts, Unrecorded, Undisturbed, CallsAreExact, CallIsExact, DoneIsDead,
        Exists, Done, CallBecomes, IsCall
<1>12. BlockHasItsJob'
    BY <1>1, <1>2, <1>3, <1>4, <1>5
    DEF JLInv, JLTypeOK, OneStarts, Unrecorded, Undisturbed, CloseIsOfTheBlock, BlockHasItsJob,
        DoomedIsDetached, Exists, CallBecomes, IsCall
<1>13. DetachedIsMarked'
    BY <1>1, <1>2, <1>3, <1>4, <1>5
    DEF JLInv, JLTypeOK, OneStarts, Unrecorded, Undisturbed, MarkedFirst, Settled, DetachedIsMarked,
        Exists, Running, Done, CallBecomes, IsCall
<1> QED BY <1>5, <1>6, <1>7, <1>8, <1>9, <1>10, <1>11, <1>12, <1>13 DEF JLInv

LEMMA RecordGoneKeeps ==
    ASSUME JLInv, NEW j \in Jobs, RecordGone(j)
    PROVE  JLInv'
<1>1. call["reconnect"][j].step = "gone" /\ UNCHANGED <<block, starting, closing, blockClose, previousCandidates, doomed, proc, connUp, spared, faults>>
    BY DEF RecordGone, pruneVars
<1>2. \E c \in Call : CallBecomes("reconnect", j, c) /\ IsCall(c, "idle", FALSE)
    <2>1. IsCall(NoCall, "idle", FALSE)
        BY DEF IsCall, Call, NoCall
    <2>2. Becomes("reconnect", j, NoCall)
        BY DEF RecordGone
    <2> QED BY <2>1, <2>2, CallSet DEF JLInv, IsCall
<1>3. \/ ~Exists(j) /\ job' = job
      \/ Exists(j) /\ \E r \in Record : JobBecomes(j, r) /\ IsRecord(r, "done", job[j].toRec, job[j].attached, job[j].pid)
    <2>1. CASE Exists(j)
        <3> DEFINE r == [job[j] EXCEPT !.status = "done"]
        <3>1. IsRecord(r, "done", job[j].toRec, job[j].attached, job[j].pid)
            BY <2>1, RecordExists, RecordUpdates DEF JLInv
        <3>2. job' = [job EXCEPT ![j] = r]
            BY <2>1 DEF RecordGone, Update
        <3>3. JobBecomes(j, r)
            <4> HIDE DEF r
            <4> QED BY <3>1, <3>2, JobSet DEF JLInv, IsRecord
        <3> QED BY <2>1, <3>1, <3>3 DEF IsRecord
    <2> QED BY <2>1 DEF RecordGone, Update
<1>4. \A k \in Jobs : Exists(k)' <=> Exists(k)
    BY <1>3, JobLifecycleAssumption DEF JobBecomes, Exists
<1>5. block.open => starting[j] = "no"
    BY <1>1 DEF JLInv, OneStarts, Unrecorded, Undisturbed
<1>6. JLTypeOK'
    BY <1>1, <1>2, <1>3, <1>4, <1>5 DEF JLInv, JLTypeOK, JobBecomes, CallBecomes, IsRecord, IsCall
<1>7. OneStarts'
    BY <1>1, <1>2, <1>3, <1>4, <1>5, <1>6
    DEF JLInv, JLTypeOK, OneStarts, Unrecorded, Undisturbed, CallsAreExact, CallIsExact, Exists, Running, Done, JobBecomes, CallBecomes,
        IsRecord, IsCall
<1>8. CallsAreExact'
    BY <1>1, <1>2, <1>3, <1>4, <1>5, <1>6
    DEF JLInv, JLTypeOK, OneStarts, Unrecorded, Undisturbed, CallsAreExact, CallIsExact, Exists,
        JobBecomes, CallBecomes, IsRecord, IsCall
<1>9. MarkedFirst'
    BY <1>1, <1>2, <1>3, <1>4, <1>5, <1>6
    DEF JLInv, JLTypeOK, MarkedFirst, Settled, Exists, Done, JobBecomes, CallBecomes, IsRecord, IsCall
<1>10. CloseIsOfTheBlock'
    BY <1>1, <1>2, <1>3, <1>4, <1>5, <1>6
    DEF JLInv, JLTypeOK, OneStarts, Unrecorded, Undisturbed, CloseIsOfTheBlock, BlockHasItsJob, Exists,
        JobBecomes, CallBecomes, IsRecord, IsCall
<1>11. DoomedIsDetached'
    BY <1>1, <1>2, <1>3, <1>4, <1>5, <1>6
    DEF JLInv, JLTypeOK, OneStarts, Unrecorded, Undisturbed, DoomedIsDetached, Exists, Done, JobBecomes,
        CallBecomes, IsRecord, IsCall
<1>12. DoneIsDead'
    BY <1>1, <1>2, <1>3, <1>4, <1>5, <1>6
    DEF JLInv, JLTypeOK, OneStarts, Unrecorded, Undisturbed, CallsAreExact, CallIsExact, DoneIsDead,
        Exists, Done, JobBecomes, CallBecomes, IsRecord, IsCall
<1>13. BlockHasItsJob'
    BY <1>1, <1>2, <1>3, <1>4, <1>5, <1>6
    DEF JLInv, JLTypeOK, OneStarts, Unrecorded, Undisturbed, CloseIsOfTheBlock, BlockHasItsJob,
        DoomedIsDetached, Exists, JobBecomes, CallBecomes, IsRecord, IsCall
<1>14. DetachedIsMarked'
    BY <1>1, <1>2, <1>3, <1>4, <1>5, <1>6
    DEF JLInv, JLTypeOK, OneStarts, Unrecorded, Undisturbed, MarkedFirst, Settled, DetachedIsMarked,
        Exists, Running, Done, JobBecomes, CallBecomes, IsRecord, IsCall
<1> QED BY <1>6, <1>7, <1>8, <1>9, <1>10, <1>11, <1>12, <1>13, <1>14 DEF JLInv

LEMMA JobEndsKeeps ==
    ASSUME JLInv, NEW j \in Jobs, JobEnds(j)
    PROVE  JLInv'
<1>1. /\ proc[j] # "dead" /\ proc' \in {[proc EXCEPT ![j] = "ended"], [proc EXCEPT ![j] = "dead"]}
      /\ faults' \in Nat /\ connUp' = connUp /\ UNCHANGED <<job, block, starting, closing, blockClose, call, previousCandidates, doomed, spared>>
    BY DEF JobEnds, Fault, callVars, pruneVars, JLInv, JLTypeOK
<1>2. JLTypeOK'
    BY <1>1 DEF JLInv, JLTypeOK
<1>3. OneStarts'
    BY <1>1, <1>2 DEF JLInv, JLTypeOK, OneStarts, Unrecorded, Undisturbed, Exists, Running, Done
<1>4. CallsAreExact'
    BY <1>1, <1>2
    DEF JLInv, JLTypeOK, OneStarts, Unrecorded, Undisturbed, CallsAreExact, CallIsExact, Exists
<1>5. MarkedFirst'
    BY <1>1, <1>2 DEF JLInv, JLTypeOK, MarkedFirst, Settled, Exists, Done
<1>6. CloseIsOfTheBlock'
    BY <1>1, <1>2
    DEF JLInv, JLTypeOK, OneStarts, Unrecorded, Undisturbed, CloseIsOfTheBlock, BlockHasItsJob, Exists
<1>7. DoomedIsDetached'
    BY <1>1, <1>2 DEF JLInv, JLTypeOK, OneStarts, Unrecorded, Undisturbed, DoomedIsDetached, Exists, Done
<1>8. DoneIsDead'
    BY <1>1, <1>2
    DEF JLInv, JLTypeOK, OneStarts, Unrecorded, Undisturbed, CallsAreExact, CallIsExact, DoneIsDead,
        Exists, Done
<1>9. BlockHasItsJob'
    BY <1>1, <1>2
    DEF JLInv, JLTypeOK, OneStarts, Unrecorded, Undisturbed, CloseIsOfTheBlock, BlockHasItsJob,
        DoomedIsDetached, Exists
<1>10. DetachedIsMarked'
    BY <1>1, <1>2
    DEF JLInv, JLTypeOK, OneStarts, Unrecorded, Undisturbed, MarkedFirst, Settled, DetachedIsMarked,
        Exists, Running, Done
<1> QED BY <1>2, <1>3, <1>4, <1>5, <1>6, <1>7, <1>8, <1>9, <1>10 DEF JLInv

LEMMA DeleteKeeps ==
    ASSUME JLInv, NEW j \in Jobs, DeleteJob(j)
    PROVE  JLInv'
<1>1. JobBecomes(j, Deleted)
    BY JobSet DEF JLInv, DeleteJob
<1>2. /\ Exists(j) /\ ~job[j].attached /\ (block.open => starting[j] = "no") /\ ~Exists(j)'
      /\ doomed' = doomed \ {j}
      /\ UNCHANGED <<block, starting, closing, blockClose, call, previousCandidates, proc, connUp, spared, faults>>
    BY <1>1
    DEF DeleteJob, callVars, JLInv, DoomedIsDetached, OneStarts, Unrecorded, Undisturbed, Done,
        JobBecomes, Exists
<1>3. JLTypeOK'
    BY <1>1, <1>2 DEF JLInv, JLTypeOK, JobBecomes
<1>4. OneStarts'
    BY JobLifecycleAssumption, <1>1, <1>2, <1>3
    DEF JLInv, JLTypeOK, OneStarts, Unrecorded, Undisturbed, Exists, Running, Done, JobBecomes
<1>5. CallsAreExact'
    BY JobLifecycleAssumption, <1>1, <1>2, <1>3
    DEF JLInv, JLTypeOK, OneStarts, Unrecorded, Undisturbed, CallsAreExact, CallIsExact, Exists,
        JobBecomes
<1>6. MarkedFirst'
    BY <1>1, <1>2, <1>3 DEF JLInv, JLTypeOK, MarkedFirst, Settled, Exists, Done, JobBecomes
<1>7. CloseIsOfTheBlock'
    BY JobLifecycleAssumption, <1>1, <1>2, <1>3
    DEF JLInv, JLTypeOK, OneStarts, Unrecorded, Undisturbed, CloseIsOfTheBlock, BlockHasItsJob, Exists,
        JobBecomes
<1>8. DoomedIsDetached'
    BY <1>1, <1>2, <1>3
    DEF JLInv, JLTypeOK, OneStarts, Unrecorded, Undisturbed, DoomedIsDetached, Exists, Done, JobBecomes
<1>9. DoneIsDead'
    BY <1>1, <1>2, <1>3
    DEF JLInv, JLTypeOK, OneStarts, Unrecorded, Undisturbed, CallsAreExact, CallIsExact, DoneIsDead,
        Exists, Done, JobBecomes
<1>10. BlockHasItsJob'
    BY <1>1, <1>2, <1>3
    DEF JLInv, JLTypeOK, OneStarts, Unrecorded, Undisturbed, CloseIsOfTheBlock, BlockHasItsJob,
        DoomedIsDetached, Exists, JobBecomes
<1>11. DetachedIsMarked'
    BY <1>1, <1>2, <1>3
    DEF JLInv, JLTypeOK, OneStarts, Unrecorded, Undisturbed, MarkedFirst, Settled, DetachedIsMarked,
        Exists, Running, Done, JobBecomes
<1> QED BY <1>3, <1>4, <1>5, <1>6, <1>7, <1>8, <1>9, <1>10, <1>11 DEF JLInv

LEMMA CloseBlockKeeps ==
    ASSUME JLInv, CloseBlock
    PROVE  JLInv'
<1>1. JLTypeOK'
    BY DEF JLInv, JLTypeOK, CloseBlock, pruneVars
<1>2. OneStarts'
    BY <1>1
    DEF JLInv, JLTypeOK, OneStarts, Unrecorded, Undisturbed, Exists, Running, Done, CloseBlock, pruneVars
<1>3. CallsAreExact'
    BY <1>1
    DEF JLInv, JLTypeOK, OneStarts, Unrecorded, Undisturbed, CallsAreExact, CallIsExact, Exists,
        CloseBlock, pruneVars
<1>4. MarkedFirst'
    BY <1>1 DEF JLInv, JLTypeOK, MarkedFirst, Settled, Exists, Done, CloseBlock, pruneVars
<1>5. CloseIsOfTheBlock'
    BY <1>1
    DEF JLInv, JLTypeOK, OneStarts, Unrecorded, Undisturbed, CloseIsOfTheBlock, BlockHasItsJob, Exists,
        CloseBlock, pruneVars
<1>6. DoomedIsDetached'
    BY <1>1
    DEF JLInv, JLTypeOK, OneStarts, Unrecorded, Undisturbed, DoomedIsDetached, Exists, Done, CloseBlock,
        pruneVars
<1>7. DoneIsDead'
    BY <1>1
    DEF JLInv, JLTypeOK, OneStarts, Unrecorded, Undisturbed, CallsAreExact, CallIsExact, DoneIsDead,
        Exists, Done, CloseBlock, pruneVars
<1>8. BlockHasItsJob'
    BY <1>1
    DEF JLInv, JLTypeOK, OneStarts, Unrecorded, Undisturbed, CloseIsOfTheBlock, BlockHasItsJob,
        DoomedIsDetached, Exists, CloseBlock, pruneVars
<1>9. DetachedIsMarked'
    BY <1>1
    DEF JLInv, JLTypeOK, OneStarts, Unrecorded, Undisturbed, MarkedFirst, Settled, DetachedIsMarked,
        Exists, Running, Done, CloseBlock, pruneVars
<1> QED BY <1>1, <1>2, <1>3, <1>4, <1>5, <1>6, <1>7, <1>8, <1>9 DEF JLInv

LEMMA CloseEventKeeps ==
    ASSUME JLInv, handleBlockCloseEvent
    PROVE  JLInv'
<1>1. JLTypeOK'
    BY DEF JLInv, JLTypeOK, handleBlockCloseEvent, pruneVars
<1>2. OneStarts'
    BY JobLifecycleAssumption, <1>1
    DEF JLInv, JLTypeOK, OneStarts, Unrecorded, Undisturbed, CallsAreExact, CallIsExact, MarkedFirst,
        CloseIsOfTheBlock, DoomedIsDetached, DoneIsDead, BlockHasItsJob, DetachedIsMarked, Settled,
        Exists, Running, Done, handleBlockCloseEvent, pruneVars
<1>3. CallsAreExact'
    BY <1>1
    DEF JLInv, JLTypeOK, OneStarts, Unrecorded, Undisturbed, CallsAreExact, CallIsExact, Exists,
        handleBlockCloseEvent, pruneVars
<1>4. MarkedFirst'
    BY <1>1 DEF JLInv, JLTypeOK, MarkedFirst, Settled, Exists, Done, handleBlockCloseEvent, pruneVars
<1>5. CloseIsOfTheBlock'
    BY <1>1
    DEF JLInv, JLTypeOK, OneStarts, Unrecorded, Undisturbed, CloseIsOfTheBlock, BlockHasItsJob, Exists,
        handleBlockCloseEvent, pruneVars
<1>6. DoomedIsDetached'
    BY <1>1
    DEF JLInv, JLTypeOK, OneStarts, Unrecorded, Undisturbed, DoomedIsDetached, Exists, Done,
        handleBlockCloseEvent, pruneVars
<1>7. DoneIsDead'
    BY <1>1
    DEF JLInv, JLTypeOK, OneStarts, Unrecorded, Undisturbed, CallsAreExact, CallIsExact, DoneIsDead,
        Exists, Done, handleBlockCloseEvent, pruneVars
<1>8. BlockHasItsJob'
    BY <1>1
    DEF JLInv, JLTypeOK, OneStarts, Unrecorded, Undisturbed, CloseIsOfTheBlock, BlockHasItsJob,
        DoomedIsDetached, Exists, handleBlockCloseEvent, pruneVars
<1>9. DetachedIsMarked'
    BY <1>1
    DEF JLInv, JLTypeOK, OneStarts, Unrecorded, Undisturbed, MarkedFirst, Settled, DetachedIsMarked,
        Exists, Running, Done, handleBlockCloseEvent, pruneVars
<1> QED BY <1>1, <1>2, <1>3, <1>4, <1>5, <1>6, <1>7, <1>8, <1>9 DEF JLInv

LEMMA StopKeeps ==
    ASSUME JLInv, Stop
    PROVE  JLInv'
<1>1. JLTypeOK'
    BY DEF JLInv, JLTypeOK, Stop, pruneVars
<1>2. OneStarts'
    BY <1>1 DEF JLInv, JLTypeOK, OneStarts, Unrecorded, Undisturbed, Exists, Running, Done, Stop, pruneVars
<1>3. CallsAreExact'
    BY <1>1
    DEF JLInv, JLTypeOK, OneStarts, Unrecorded, Undisturbed, CallsAreExact, CallIsExact, Exists, Stop,
        pruneVars
<1>4. MarkedFirst'
    BY <1>1 DEF JLInv, JLTypeOK, MarkedFirst, Settled, Exists, Done, Stop, pruneVars
<1>5. CloseIsOfTheBlock'
    BY JobLifecycleAssumption, <1>1
    DEF JLInv, JLTypeOK, OneStarts, Unrecorded, Undisturbed, CloseIsOfTheBlock, BlockHasItsJob, Exists,
        Stop, pruneVars
<1>6. DoomedIsDetached'
    BY <1>1
    DEF JLInv, JLTypeOK, OneStarts, Unrecorded, Undisturbed, DoomedIsDetached, Exists, Done, Stop,
        pruneVars
<1>7. DoneIsDead'
    BY <1>1
    DEF JLInv, JLTypeOK, OneStarts, Unrecorded, Undisturbed, CallsAreExact, CallIsExact, DoneIsDead,
        Exists, Done, Stop, pruneVars
<1>8. BlockHasItsJob'
    BY <1>1
    DEF JLInv, JLTypeOK, OneStarts, Unrecorded, Undisturbed, CloseIsOfTheBlock, BlockHasItsJob,
        DoomedIsDetached, Exists, Stop, pruneVars
<1>9. DetachedIsMarked'
    BY <1>1
    DEF JLInv, JLTypeOK, OneStarts, Unrecorded, Undisturbed, MarkedFirst, Settled, DetachedIsMarked,
        Exists, Running, Done, Stop, pruneVars
<1> QED BY <1>1, <1>2, <1>3, <1>4, <1>5, <1>6, <1>7, <1>8, <1>9 DEF JLInv

LEMMA ConnKeeps ==
    ASSUME JLInv, ConnChange
    PROVE  JLInv'
<1>1. JLTypeOK'
    BY DEF JLInv, JLTypeOK, ConnChange, callVars, pruneVars
<1>2. OneStarts'
    BY <1>1
    DEF JLInv, JLTypeOK, OneStarts, Unrecorded, Undisturbed, Exists, Running, Done, ConnChange, callVars,
        pruneVars
<1>3. CallsAreExact'
    BY <1>1
    DEF JLInv, JLTypeOK, OneStarts, Unrecorded, Undisturbed, CallsAreExact, CallIsExact, Exists,
        ConnChange, callVars, pruneVars
<1>4. MarkedFirst'
    BY <1>1 DEF JLInv, JLTypeOK, MarkedFirst, Settled, Exists, Done, ConnChange, callVars, pruneVars
<1>5. CloseIsOfTheBlock'
    BY <1>1
    DEF JLInv, JLTypeOK, OneStarts, Unrecorded, Undisturbed, CloseIsOfTheBlock, BlockHasItsJob, Exists,
        ConnChange, callVars, pruneVars
<1>6. DoomedIsDetached'
    BY <1>1
    DEF JLInv, JLTypeOK, OneStarts, Unrecorded, Undisturbed, DoomedIsDetached, Exists, Done, ConnChange,
        callVars, pruneVars
<1>7. DoneIsDead'
    BY <1>1
    DEF JLInv, JLTypeOK, OneStarts, Unrecorded, Undisturbed, CallsAreExact, CallIsExact, DoneIsDead,
        Exists, Done, ConnChange, callVars, pruneVars
<1>8. BlockHasItsJob'
    BY <1>1
    DEF JLInv, JLTypeOK, OneStarts, Unrecorded, Undisturbed, CloseIsOfTheBlock, BlockHasItsJob,
        DoomedIsDetached, Exists, ConnChange, callVars, pruneVars
<1>9. DetachedIsMarked'
    BY <1>1
    DEF JLInv, JLTypeOK, OneStarts, Unrecorded, Undisturbed, MarkedFirst, Settled, DetachedIsMarked,
        Exists, Running, Done, ConnChange, callVars, pruneVars
<1> QED BY <1>1, <1>2, <1>3, <1>4, <1>5, <1>6, <1>7, <1>8, <1>9 DEF JLInv

LEMMA PruneKeeps ==
    ASSUME JLInv, pruneUnusedJobs
    PROVE  JLInv'
<1>1. JLTypeOK'
    BY DEF JLInv, JLTypeOK, pruneUnusedJobs, Candidates, callVars
<1>2. OneStarts'
    BY <1>1
    DEF JLInv, JLTypeOK, OneStarts, Unrecorded, Undisturbed, Exists, Running, Done, pruneUnusedJobs, Candidates,
        callVars
<1>3. CallsAreExact'
    BY <1>1
    DEF JLInv, JLTypeOK, OneStarts, Unrecorded, Undisturbed, CallsAreExact, CallIsExact, Exists,
        pruneUnusedJobs, Candidates, callVars
<1>4. MarkedFirst'
    BY <1>1 DEF JLInv, JLTypeOK, MarkedFirst, Settled, Exists, Done, pruneUnusedJobs, Candidates, callVars
<1>5. CloseIsOfTheBlock'
    BY <1>1
    DEF JLInv, JLTypeOK, OneStarts, Unrecorded, Undisturbed, CloseIsOfTheBlock, BlockHasItsJob, Exists,
        pruneUnusedJobs, Candidates, callVars
<1>6. DoomedIsDetached'
    BY <1>1
    DEF JLInv, JLTypeOK, OneStarts, Unrecorded, Undisturbed, DoomedIsDetached, Exists, Done,
        pruneUnusedJobs, Candidates, callVars
<1>7. DoneIsDead'
    BY <1>1
    DEF JLInv, JLTypeOK, OneStarts, Unrecorded, Undisturbed, CallsAreExact, CallIsExact, DoneIsDead,
        Exists, Done, pruneUnusedJobs, Candidates, callVars
<1>8. BlockHasItsJob'
    BY <1>1
    DEF JLInv, JLTypeOK, OneStarts, Unrecorded, Undisturbed, CloseIsOfTheBlock, BlockHasItsJob,
        DoomedIsDetached, Exists, pruneUnusedJobs, Candidates, callVars
<1>9. DetachedIsMarked'
    BY <1>1
    DEF JLInv, JLTypeOK, OneStarts, Unrecorded, Undisturbed, MarkedFirst, Settled, DetachedIsMarked,
        Exists, Running, Done, pruneUnusedJobs, Candidates, callVars
<1> QED BY <1>1, <1>2, <1>3, <1>4, <1>5, <1>6, <1>7, <1>8, <1>9 DEF JLInv

LEMMA RestartKeeps ==
    ASSUME JLInv, ServerRestarts
    PROVE  JLInv'
<1>1. /\ call' = NoCalls /\ call' \in [Groups -> [Jobs -> Call]]
      /\ \A g \in Groups : \A j \in Jobs : call'[g][j].step = "idle"
    BY DEF ServerRestarts, NoCalls, NoCall, Call
<1>2. /\ \A j \in Jobs : starting'[j] = "no" /\ closing'[j] = "no"
      /\ starting' = Nothing /\ closing' = Nothing /\ faults' \in Nat
      /\ blockClose' = FALSE /\ connUp' = FALSE /\ previousCandidates' = {} /\ doomed' = {}
      /\ UNCHANGED <<job, block, proc, spared>>
    BY DEF ServerRestarts, Nothing, Fault, JLInv, JLTypeOK
<1>3. JLTypeOK'
    BY <1>1, <1>2 DEF JLInv, JLTypeOK, Nothing
<1>4. OneStarts'
    BY <1>1, <1>2, <1>3 DEF JLInv, JLTypeOK, OneStarts, Unrecorded, Undisturbed, Exists, Running, Done, Nothing
<1>5. CallsAreExact'
    BY <1>1, <1>2, <1>3
    DEF JLInv, JLTypeOK, OneStarts, Unrecorded, Undisturbed, CallsAreExact, CallIsExact, Exists, Nothing
<1>6. MarkedFirst'
    BY <1>1, <1>2, <1>3 DEF JLInv, JLTypeOK, MarkedFirst, Settled, Exists, Done, Nothing
<1>7. CloseIsOfTheBlock'
    BY <1>1, <1>2, <1>3
    DEF JLInv, JLTypeOK, OneStarts, Unrecorded, Undisturbed, CloseIsOfTheBlock, BlockHasItsJob, Exists,
        Nothing
<1>8. DoomedIsDetached'
    BY <1>1, <1>2, <1>3
    DEF JLInv, JLTypeOK, OneStarts, Unrecorded, Undisturbed, DoomedIsDetached, Exists, Done, Nothing
<1>9. DoneIsDead'
    BY <1>1, <1>2, <1>3
    DEF JLInv, JLTypeOK, OneStarts, Unrecorded, Undisturbed, CallsAreExact, CallIsExact, DoneIsDead,
        Exists, Done, Nothing
<1>10. BlockHasItsJob'
    BY <1>1, <1>2, <1>3
    DEF JLInv, JLTypeOK, OneStarts, Unrecorded, Undisturbed, CloseIsOfTheBlock, BlockHasItsJob,
        DoomedIsDetached, Exists, Nothing
<1>11. DetachedIsMarked'
    BY <1>1, <1>2, <1>3
    DEF JLInv, JLTypeOK, OneStarts, Unrecorded, Undisturbed, MarkedFirst, Settled, DetachedIsMarked,
        Exists, Running, Done, Nothing
<1> QED BY <1>3, <1>4, <1>5, <1>6, <1>7, <1>8, <1>9, <1>10, <1>11 DEF JLInv

LEMMA Step ==
    ASSUME JLInv, [JLNext]_jlVars
    PROVE  JLInv'
<1>1. CASE UNCHANGED jlVars
    BY <1>1
    DEF jlVars, callVars, pruneVars, JLInv, JLTypeOK, OneStarts, Unrecorded, Undisturbed, CallsAreExact,
        CallIsExact, MarkedFirst, CloseIsOfTheBlock, DoomedIsDetached, DoneIsDead, BlockHasItsJob,
        DetachedIsMarked, Settled, Exists, Running, Done
<1>2. ASSUME NEW j \in Jobs, JobSteps(j)
      PROVE  JLInv'
    BY <1>2, StartKeeps, InsertKeeps, AttachKeeps, RemoteStartKeeps, StartReturnsKeeps, CloseTerminatesKeeps, DetachKeeps,
       TryTerminateKeeps, RemoteTerminateKeeps, RecordTerminatedKeeps, ReconnectBeginsKeeps,
       RemoteReconnectKeeps, RecordGoneKeeps, JobEndsKeeps, DeleteKeeps
    DEF JobSteps
<1> QED BY <1>1, <1>2, CloseBlockKeeps, CloseEventKeeps, StopKeeps, ConnKeeps, PruneKeeps, RestartKeeps
    DEF JLNext

(* JLInv is an invariant, whatever the number of jobs, faults and restarts, and
   whenever the block is closed. *)
THEOREM JobsAreKept == JLSpec => []JLInv
<1>1. JLInv /\ [JLNext]_jlVars => JLInv'
    BY Step
<1> QED BY Init, <1>1, PTL DEF JLSpec

(* The record of a job that was started says done only when its job manager is
   dead, but for a job whose termination the host reported without a signal. *)
THEOREM DoneMeansDead == JLSpec => []DoneIsDead
<1>1. JLInv => DoneIsDead
    BY DEF JLInv
<1> QED BY <1>1, JobsAreKept, PTL

(* An open block shows the one started job that is attached to it, and the pruner
   never deletes it. *)
THEOREM BlockKeepsItsJob == JLSpec => []BlockHasItsJob
<1>1. JLInv => BlockHasItsJob
    BY DEF JLInv
<1> QED BY <1>1, JobsAreKept, PTL

(* What still runs after its block let go of it is marked to be terminated by the
   next reconnect, with the same exception. *)
THEOREM DetachedIsNotForgotten == JLSpec => []DetachedIsMarked
<1>1. JLInv => DetachedIsMarked
    BY DEF JLInv
<1> QED BY <1>1, JobsAreKept, PTL

=============================================================================
