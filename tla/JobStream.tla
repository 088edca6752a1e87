------------------------------ MODULE JobStream ------------------------------
(***************************************************************************)
(* The durable stream of one job from end to end: the job manager that     *)
(* holds the output, the connections between it and the server, and the    *)
(* server's job controller (pkg/jobcontroller/jobcontroller.go), which     *)
(* reads the stream, stores it in the job's output file, and after a lost  *)
(* connection or a restart takes it up again where the file ends.          *)
(*                                                                         *)
(* The job manager is the one of modules StreamManager and JobManager, one *)
(* step per request or ACK: how those interleave with its goroutines is    *)
(* examined there.  A connection delivers in order and loses what is under *)
(* way when it drops.  A byte is its position in the stream.               *)
(***************************************************************************)
EXTENDS Integers, SequencesExt

CONSTANTS
    RWnd,        (* receive window, and congestion window                   *)
    CirBufSize,  (* bytes the job manager holds when no client is connected *)
    ChunkSize,   (* longest packet, and the longest Read of the output loop *)
    MaxBytes,    (* bound: the bytes the program writes                     *)
    MaxConns,    (* bound: connections, each with one stream                *)
    MaxCrashes,  (* bound: crashes of the server                            *)
    Terminals,   (* how the PTY may end: "eof", "error"                     *)
    LoopPace     (* how output loops keep up with a restart: "any" way; "drained":
                    none has anything to read or append at Stat              *)

ASSUME JobStreamAssumption ==
    /\ RWnd \in Nat \ {0} /\ ChunkSize \in Nat \ {0}
    /\ CirBufSize \in Nat /\ CirBufSize >= RWnd
    /\ MaxBytes \in Nat /\ MaxConns \in Nat \ {0} /\ MaxCrashes \in Nat
    /\ Terminals \subseteq {"eof", "error"}
    /\ LoopPace \in {"any", "drained"}

VARIABLES
    (* job manager *)
    head, total,        (* it holds the bytes head .. total - 1             *)
    terminalEvent, terminalEventSent, terminalEventAcked,
    source,             (* the stream connected: [id, conn, sent, rwnd]; id 0: none *)
    maxAcked, pending, writers,
    (* connection *)
    conn, up, data, acks,
    (* server *)
    jobStreamId, readers, loops, restart, crashes,
    (* the job's record and output file; disk: the file as last flushed     *)
    streamDone, file, totalGap, disk,
    (* history: has an output loop appended once its check no longer held?  *)
    lateAppend

jobVars    == <<head, total, terminalEvent, terminalEventSent, terminalEventAcked,
                source, maxAcked, pending, writers>>
connVars   == <<conn, up, data, acks>>
serverVars == <<jobStreamId, readers, loops, restart, crashes>>
storeVars  == <<streamDone, file, totalGap, disk, lateAppend>>

jsVars == <<jobVars, connVars, serverVars, storeVars>>

(* Each connection is used for one stream: id n is opened on connection n. *)
Streams == 1..MaxConns

Smaller(a, b) == IF a <= b THEN a ELSE b
Larger(a, b)  == IF a >= b THEN a ELSE b

NoSource  == [id |-> 0, conn |-> 0, sent |-> 0, rwnd |-> 0]
NoRestart == [step |-> "none", id |-> 0, seq |-> 0, gap |-> 0, answer |-> 0]

(* The Reader of a stream; `known' while the broker has it, `routed' once it had. *)
NoReader == [known |-> FALSE, routed |-> FALSE, next |-> 0, buffer |-> <<>>,
             early |-> {}, eof |-> FALSE, err |-> FALSE, closed |-> FALSE, rwndSent |-> 0]
ReaderFrom(seq) ==
    [NoReader EXCEPT !.known = TRUE, !.routed = TRUE, !.next = seq, !.rwndSent = RWnd]

(* An output loop: the bytes and the error its last Read returned. *)
NoLoop   == [step |-> "none", chunk |-> <<>>, ended |-> FALSE]
AtRead   == [NoLoop EXCEPT !.step = "read"]

-----------------------------------------------------------------------------

(* StartJob: stream 1 is connected on connection 1 and read from the start. *)
JobStarted ==
    /\ head = 0 /\ total = 0
    /\ terminalEvent = "none" /\ terminalEventSent = FALSE /\ terminalEventAcked = FALSE
    /\ source = [id |-> 1, conn |-> 1, sent |-> 0, rwnd |-> RWnd]
    /\ maxAcked = <<0, 0>> /\ pending = 0 /\ writers = {1}
    /\ conn = 1 /\ up = TRUE /\ data = <<>> /\ acks = <<>>
    /\ jobStreamId = 1
    /\ readers = [s \in Streams |-> IF s = 1 THEN ReaderFrom(0) ELSE NoReader]
    /\ loops = [s \in Streams |-> IF s = 1 THEN AtRead ELSE NoLoop]
    /\ restart = NoRestart /\ crashes = 0
    /\ streamDone = "no" /\ file = <<>> /\ totalGap = 0 /\ disk = [file |-> <<>>, gap |-> 0]
    /\ lateAppend = FALSE

-----------------------------------------------------------------------------
(* Job manager *)

Connected == source.id # 0

(* Mutation of Window: the receiver's room is ignored. *)
CongestionWindow == RWnd

Window == Smaller(RWnd, source.rwnd)

(* Connected, a full window blocks the program; otherwise the oldest byte goes. *)
ProgramWrites ==
    /\ terminalEvent = "none" /\ total < MaxBytes
    /\ Connected => total - head < Window
    /\ total' = total + 1
    /\ head' = IF Connected THEN head ELSE Larger(head, total + 1 - CirBufSize)
    /\ UNCHANGED <<terminalEvent, terminalEventSent, terminalEventAcked, source,
                   maxAcked, pending, writers, connVars, serverVars, storeVars>>

ProgramEnds(kind) ==
    /\ terminalEvent = "none"
    /\ terminalEvent' = kind
    /\ UNCHANGED <<head, total, terminalEventSent, terminalEventAcked, source,
                   maxAcked, pending, writers, connVars, serverVars, storeVars>>

(* A packet goes out on the connection its stream was connected on. *)
Transmit(packet) == data' = IF up /\ source.conn = conn THEN Append(data, packet) ELSE data

SendData ==
    LET room == Window - (source.sent - head)
        n == Smaller(Smaller(room, ChunkSize), total - source.sent)
    IN  /\ Connected /\ ~terminalEventAcked /\ n > 0
        /\ Transmit([id |-> source.id, seq |-> source.sent, len |-> n, kind |-> "data"])
        /\ source' = [source EXCEPT !.sent = @ + n]
        /\ UNCHANGED <<head, total, terminalEvent, terminalEventSent, terminalEventAcked,
                       maxAcked, pending, writers, conn, up, acks, serverVars, storeVars>>

SendTerminal ==
    /\ Connected /\ head = total
    /\ terminalEvent # "none" /\ ~terminalEventSent /\ ~terminalEventAcked
    /\ Transmit([id |-> source.id, seq |-> total, len |-> 0, kind |-> terminalEvent])
    /\ terminalEventSent' = TRUE
    /\ UNCHANGED <<head, total, terminalEvent, terminalEventAcked, source, maxAcked,
                   pending, writers, conn, up, acks, serverVars, storeVars>>

Stale(ack) ==
    ack.seq < maxAcked[1] \/ (ack.seq = maxAcked[1] /\ ack.rwnd <= maxAcked[2])

(* StreamManager.RecvAck; a Cancel is read as an ordinary ACK. *)
RecvAck(ack) ==
    CASE ack.id # source.id -> UNCHANGED <<head, source, maxAcked, terminalEventAcked>>
      [] ack.id = source.id /\ ack.kind = "fin" ->
           terminalEventAcked' = TRUE /\ UNCHANGED <<head, source, maxAcked>>
      [] ack.id = source.id /\ ack.kind # "fin" /\ Stale(ack) ->
           UNCHANGED <<head, source, maxAcked, terminalEventAcked>>
      [] OTHER ->
           /\ maxAcked' = <<ack.seq, ack.rwnd>>
           /\ IF ack.seq \in head..source.sent
              THEN head' = ack.seq /\ source' = [source EXCEPT !.rwnd = ack.rwnd]
              ELSE UNCHANGED <<head, source>>
           /\ UNCHANGED terminalEventAcked

(* processRecvAck of the job manager's broker for the connection. *)
AckArrives ==
    /\ acks # <<>>
    /\ LET ack == Head(acks)
       IN  IF ack.id \in writers
           THEN /\ RecvAck(ack)
                /\ writers' = IF ack.kind = "data" THEN writers ELSE writers \ {ack.id}
           ELSE UNCHANGED <<head, source, maxAcked, terminalEventAcked, writers>>
    /\ acks' = Tail(acks)
    /\ UNCHANGED <<total, terminalEvent, terminalEventSent, pending, conn, up, data,
                   serverVars, storeVars>>

(* Mutation of StartSeq: what is held is skipped. *)
StartAtEnd(seq) == total

(* ClientConnected: the stream goes on where the client is, or with the oldest byte. *)
StartSeq(seq) == Larger(head, seq)

(* PrepareConnect(id, seq): the stream before is detached; then the client is
   refused if it claims bytes never written, else its stream is connected corked,
   and what it has is dropped.  The answer is where the stream goes on; -1: it is
   done, -2: refused. *)
PrepareConnect ==
    /\ restart.step = "prepare" /\ up
    /\ IF terminalEventAcked
       THEN restart' = [restart EXCEPT !.step = "prepared", !.answer = -1]
            /\ UNCHANGED jobVars
       ELSE /\ writers' = writers \ {source.id}
            /\ maxAcked' = <<0, 0>>
            /\ terminalEventSent' = FALSE
            /\ IF restart.seq > total
               THEN /\ source' = NoSource
                    /\ restart' = [restart EXCEPT !.step = "prepared", !.answer = -2]
                    /\ UNCHANGED <<head, pending>>
               ELSE LET start == StartSeq(restart.seq)
                    IN  /\ head' = start
                        /\ source' = [id |-> restart.id, conn |-> conn, sent |-> start,
                                      rwnd |-> 0]
                        /\ pending' = restart.id
                        /\ restart' = [restart EXCEPT !.step = "prepared", !.answer = start]
            /\ UNCHANGED <<total, terminalEvent, terminalEventAcked>>
    /\ UNCHANGED <<connVars, jobStreamId, readers, loops, crashes, storeVars>>

StartStream ==
    /\ restart.step = "start" /\ up
    /\ pending # 0 /\ pending \notin writers /\ Connected
    /\ writers' = writers \cup {pending}
    /\ source' = [source EXCEPT !.rwnd = RWnd]
    /\ pending' = 0
    /\ restart' = [restart EXCEPT !.step = "started"]
    /\ UNCHANGED <<head, total, terminalEvent, terminalEventSent, terminalEventAcked,
                   maxAcked, connVars, jobStreamId, readers, loops, crashes, storeVars>>

-----------------------------------------------------------------------------
(* Readers *)

Rwnd(r) == RWnd - Len(r.buffer)

Ack(s, r, kind) == [id |-> s, seq |-> r.next, rwnd |-> Rwnd(r), kind |-> kind]

Answer(some) == acks' = IF up THEN acks \o some ELSE acks

(* The Reader once it has told its sender; the broker forgets it after a Fin or
   a Cancel, but not where its ACKs go. *)
Told(r, kind) == [r EXCEPT !.rwndSent = Rwnd(r), !.known = @ /\ kind = "data"]

Ordered(r, p) ==
    [r EXCEPT !.next = @ + p.len,
              !.buffer = @ \o [i \in 1..p.len |-> p.seq + i - 1],
              !.eof = (p.kind = "eof")]

(* On a connection that delivers in order no more than the terminal packet can
   come early: processOOOPacketsLocked has at most one packet to take. *)
WithEarly(r) ==
    IF \E p \in r.early : p.seq = r.next
    THEN [Ordered(r, CHOOSE p \in r.early : p.seq = r.next) EXCEPT !.early = {}]
    ELSE r

(* Reader.RecvData by way of the broker.  Data for a reader that is gone is
   answered with a Cancel, unless one was sent within the last second. *)
DataArrives ==
    /\ data # <<>>
    /\ LET p == Head(data)
           r == readers[p.id]
           Receiving == ~r.closed /\ ~r.eof /\ ~r.err
           in == WithEarly(Ordered(r, p))
           kind == IF in.eof THEN "fin" ELSE "data"
       IN  CASE ~r.known ->
                  /\ UNCHANGED readers
                  /\ \/ UNCHANGED acks
                     \/ r.routed /\ Answer(<<[id |-> p.id, seq |-> p.seq, rwnd |-> 0,
                                              kind |-> "cancel"]>>)
             [] r.known /\ Receiving /\ p.kind = "error" ->
                  /\ readers' = [readers EXCEPT ![p.id] = Told([r EXCEPT !.err = TRUE], "fin")]
                  /\ Answer(<<Ack(p.id, r, "fin")>>)
             [] r.known /\ Receiving /\ p.kind # "error" /\ p.seq > r.next ->
                  /\ readers' = [readers EXCEPT ![p.id].early = @ \cup {p}]
                  /\ UNCHANGED acks
             [] r.known /\ Receiving /\ p.kind # "error" /\ p.seq = r.next ->
                  /\ readers' = [readers EXCEPT ![p.id] = Told(in, kind)]
                  /\ Answer(<<Ack(p.id, in, kind)>>)
             [] OTHER -> UNCHANGED <<readers, acks>>
    /\ data' = Tail(data)
    /\ UNCHANGED <<jobVars, conn, up, jobStreamId, loops, restart, crashes, storeVars>>

(* Reader.Close *)
CloseReader(s) ==
    IF readers[s].closed
    THEN UNCHANGED <<readers, acks>>
    ELSE /\ readers' = [readers EXCEPT ![s] = Told([@ EXCEPT !.closed = TRUE], "cancel")]
         /\ Answer(<<Ack(s, readers[s], "cancel")>>)

-----------------------------------------------------------------------------
(* runOutputLoop: Read, check that the stream is still the job's, append, end. *)

(* Mutation of ReadEnds: the EOF drops the buffer too. *)
EofEndsRead(r) == r.err \/ r.eof

(* An error is returned before what is buffered, the EOF after it. *)
ReadEnds(r) == r.err \/ (r.buffer = <<>> /\ r.eof)

LoopReads(s) ==
    LET r == readers[s]
        n == Smaller(ChunkSize, Len(r.buffer))
        rest == [r EXCEPT !.buffer = SubSeq(@, n + 1, Len(@))]
    IN  /\ loops[s].step = "read"
        /\ IF ReadEnds(r)
           THEN /\ loops' = [loops EXCEPT ![s] = [@ EXCEPT !.step = "check", !.ended = TRUE]]
                /\ UNCHANGED <<readers, acks>>
           ELSE /\ n > 0
                /\ loops' = [loops EXCEPT ![s] = [@ EXCEPT !.step = "check",
                                                  !.chunk = SubSeq(r.buffer, 1, n)]]
                /\ IF rest.buffer = <<>> \/ Rwnd(rest) - r.rwndSent >= RWnd \div 5
                   THEN /\ Answer(<<Ack(s, rest, "data")>>)
                        /\ readers' = [readers EXCEPT ![s] = Told(rest, "data")]
                   ELSE readers' = [readers EXCEPT ![s] = rest] /\ UNCHANGED acks
        /\ UNCHANGED <<jobVars, conn, up, data, jobStreamId, restart, crashes, storeVars>>

(* The pace assumed of the loops at Stat. *)
MayStat ==
    LoopPace = "drained" =>
        \A s \in Streams :
            loops[s].step = "none" \/ (loops[s].step = "read" /\ readers[s].buffer = <<>>)

(* Mutation of IsJobStream: a superseded loop goes on. *)
AnyStream(s) == TRUE

IsJobStream(s) == jobStreamId = s

LoopChecks(s) ==
    /\ loops[s].step = "check"
    /\ IF ~IsJobStream(s)
       THEN CloseReader(s) /\ loops' = [loops EXCEPT ![s] = NoLoop]
       ELSE /\ loops' = [loops EXCEPT ![s] =
                           [@ EXCEPT !.step = IF loops[s].ended THEN "end" ELSE "append"]]
            /\ UNCHANGED <<readers, acks>>
    /\ UNCHANGED <<jobVars, conn, up, data, jobStreamId, restart, crashes, storeVars>>

(* After its check the loop was overtaken by restartStreaming: another stream is
   the job's, or the size of the file has been taken that it is to start at. *)
Overtaken(s) == ~IsJobStream(s) \/ restart.step = "create"

LoopAppends(s) ==
    /\ loops[s].step = "append"
    /\ file' = file \o loops[s].chunk
    /\ lateAppend' = (lateAppend \/ Overtaken(s))
    /\ loops' = [loops EXCEPT ![s] = AtRead]
    /\ UNCHANGED <<jobVars, connVars, jobStreamId, readers, restart, crashes,
                   streamDone, totalGap, disk>>

LoopEnds(s) ==
    /\ loops[s].step = "end"
    /\ streamDone' = "read"
    /\ CloseReader(s)
    /\ loops' = [loops EXCEPT ![s] = NoLoop]
    /\ UNCHANGED <<jobVars, conn, up, data, jobStreamId, restart, crashes,
                   file, totalGap, disk, lateAppend>>

-----------------------------------------------------------------------------
(* restartStreaming, on a connection just made: Stat, a new reader, the two
   requests to the job manager, and a new output loop. *)

RestartStats ==
    /\ restart.step = "stat"
    /\ MayStat
    /\ restart' = [restart EXCEPT !.step = "create", !.seq = Len(file) + totalGap,
                                  !.gap = totalGap]
    /\ UNCHANGED <<jobVars, connVars, jobStreamId, readers, loops, crashes, storeVars>>

RestartCreatesReader ==
    /\ restart.step = "create"
    /\ readers' = [readers EXCEPT ![restart.id] = ReaderFrom(restart.seq)]
    /\ jobStreamId' = restart.id
    /\ restart' = [restart EXCEPT !.step = "prepare"]
    /\ UNCHANGED <<jobVars, connVars, loops, crashes, storeVars>>

(* Mutation of GapRecorded: the reader moves over the gap, the file knows nothing. *)
GapForgotten(gap) == totalGap

GapRecorded(gap) == IF gap > 0 THEN restart.gap + gap ELSE totalGap

(* The answer to PrepareConnect.  A gap is recorded with the file before the new
   reader moves over it. *)
RestartPrepared ==
    LET gap == Larger(0, restart.answer - restart.seq)
    IN  /\ restart.step = "prepared" /\ restart.answer # -2
        /\ IF restart.answer = -1
           THEN /\ streamDone' = IF streamDone = "no" THEN "told" ELSE streamDone
                /\ CloseReader(restart.id)
                /\ restart' = NoRestart
                /\ UNCHANGED totalGap
           ELSE /\ totalGap' = GapRecorded(gap)
                /\ readers' = [readers EXCEPT ![restart.id].next = @ + gap]
                /\ restart' = [restart EXCEPT !.step = "start"]
                /\ UNCHANGED <<streamDone, acks>>
        /\ UNCHANGED <<jobVars, conn, up, data, jobStreamId, loops, crashes, file, disk,
                       lateAppend>>

RestartStarted ==
    /\ restart.step = "started"
    /\ loops' = [loops EXCEPT ![restart.id] = AtRead]
    /\ restart' = NoRestart
    /\ UNCHANGED <<jobVars, connVars, jobStreamId, readers, crashes, storeVars>>

(* A request is refused, its connection is gone, or its answer comes too late. *)
RestartFails ==
    /\ \/ restart.step \in {"prepared", "started"}
       \/ restart.step \in {"prepare", "start"} /\ ~up
    /\ CloseReader(restart.id)
    /\ restart' = NoRestart
    /\ UNCHANGED <<jobVars, conn, up, data, jobStreamId, loops, crashes, storeVars>>

-----------------------------------------------------------------------------
(* Connections, the file store, and crashes *)

ConnectionDrops ==
    /\ up
    /\ up' = FALSE /\ data' = <<>> /\ acks' = <<>>
    /\ UNCHANGED <<jobVars, conn, serverVars, storeVars>>

(* doReconnectJob: one at a time; the new connection has a broker of its own. *)
Reconnect ==
    /\ ~up /\ conn < MaxConns /\ restart = NoRestart
    /\ conn' = conn + 1 /\ up' = TRUE
    /\ writers' = {}
    /\ restart' = [NoRestart EXCEPT !.step = "stat", !.id = conn + 1]
    /\ UNCHANGED <<head, total, terminalEvent, terminalEventSent, terminalEventAcked,
                   source, maxAcked, pending, data, acks, jobStreamId, readers, loops,
                   crashes, storeVars>>

(* Mutation of Flushed: the data is written without its metadata. *)
FlushedData == [file |-> file, gap |-> disk.gap]

(* The file store writes the file and its metadata in one transaction. *)
Flushed == [file |-> file, gap |-> totalGap]

Flush ==
    /\ disk' = Flushed
    /\ UNCHANGED <<jobVars, connVars, serverVars, streamDone, file, totalGap, lateAppend>>

(* The server is killed: its memory goes, with what was not flushed. *)
Crash ==
    /\ crashes < MaxCrashes
    /\ crashes' = crashes + 1
    /\ up' = FALSE /\ data' = <<>> /\ acks' = <<>>
    /\ jobStreamId' = 0
    /\ readers' = [s \in Streams |-> NoReader]
    /\ loops' = [s \in Streams |-> NoLoop]
    /\ restart' = NoRestart
    /\ file' = disk.file /\ totalGap' = disk.gap
    /\ UNCHANGED <<jobVars, conn, streamDone, disk, lateAppend>>

-----------------------------------------------------------------------------

JobManagerSteps ==
    \/ ProgramWrites \/ SendData \/ SendTerminal
    \/ \E kind \in Terminals : ProgramEnds(kind)
    \/ AckArrives \/ PrepareConnect \/ StartStream

OutputLoop(s) == LoopReads(s) \/ LoopChecks(s) \/ LoopAppends(s) \/ LoopEnds(s)

RestartStreaming ==
    \/ RestartStats \/ RestartCreatesReader \/ RestartPrepared \/ RestartStarted
    \/ RestartFails

JSNext ==
    \/ JobManagerSteps \/ DataArrives
    \/ \E s \in Streams : OutputLoop(s)
    \/ RestartStreaming
    \/ ConnectionDrops \/ Reconnect \/ Flush \/ Crash

JSSpec == JobStarted /\ [][JSNext]_jsVars

-----------------------------------------------------------------------------

(* The windows and the positions in the stream *)
WithinBounds ==
    /\ source.rwnd \in 0..RWnd /\ maxAcked \in (0..MaxBytes) \X (0..RWnd)
    /\ \A s \in Streams : readers[s].next <= total /\ Len(readers[s].buffer) <= RWnd
    /\ Len(file) + totalGap <= total

(* The values every variable may take; the Readers and the file stay within what
   was written, and what is sent within the window, unless an append came late. *)
JSTypeOK ==
    /\ head \in 0..total /\ total \in 0..MaxBytes
    /\ terminalEvent \in {"none"} \cup Terminals
    /\ terminalEventSent \in BOOLEAN /\ terminalEventAcked \in BOOLEAN
    /\ source \in [id : 0..MaxConns, conn : 0..MaxConns, sent : 0..MaxBytes, rwnd : Int]
    /\ pending \in 0..MaxConns /\ writers \subseteq Streams
    /\ conn \in Streams /\ up \in BOOLEAN
    /\ jobStreamId \in 0..MaxConns
    /\ \A s \in Streams :
         /\ readers[s].next \in Nat
         /\ loops[s].step \in {"none", "read", "check", "append", "end"}
    /\ restart.step \in {"none", "stat", "create", "prepare", "prepared", "start", "started"}
    /\ streamDone \in {"no", "read", "told"}
    /\ totalGap \in Nat /\ lateAppend \in BOOLEAN
    /\ ~lateAppend => WithinBounds

(* The output file is the program's output in order, each byte at most once. *)
FileInOrder == \A i \in 1..(Len(file) - 1) : file[i] < file[i + 1]

(* Nothing else puts it out of order than an append that comes late: not takeovers,
   refused and unanswered requests, superseded loops that read on, nor crashes that
   take the file back to what was flushed. *)
FileInOrderUntilLate == ~lateAppend => FileInOrder

(* Every byte missing from the file is accounted for in totalgap, so that size +
   totalgap, from which the next restart asks, is never before the end of what the
   file has: also where bytes were appended twice. *)
GapAccountsForLoss == file # <<>> => Last(file) < Len(file) + totalGap

(* What the loop of the job's stream has in hand, then what its Reader holds, go on
   exactly where size + totalgap says; a late append moves that place on. *)
InHand(s) == loops[s].chunk \o readers[s].buffer

SeqTracksStream ==
    LET s == jobStreamId
    IN  ~lateAppend /\ s # 0 /\ loops[s].step # "none" =>
            \A i \in 1..Len(InHand(s)) : InHand(s)[i] = Len(file) + totalGap + i - 1

(* The job manager drops no byte but those a Reader has received, or the file has;
   after a late append, size + totalgap no longer says what the file has. *)
HeadWasReceived ==
    ~lateAppend /\ crashes = 0 => \A p \in 0..(head - 1) :
        \/ \E s \in Streams : p < readers[s].next
        \/ p < Len(file) + totalGap

(* When an output loop is about to report the EOF, the file has the whole output
   but for the gaps accounted for, unless an append came late. *)
EofIsComplete ==
    \A s \in Streams :
        ~lateAppend /\ loops[s].step = "end" /\ readers[s].eof => Len(file) + totalGap = total

(* The documentation's "Full scrollback buffer preserved": the same of any end. *)
EndIsComplete ==
    \A s \in Streams : loops[s].step = "end" => Len(file) + totalGap = total
=============================================================================
