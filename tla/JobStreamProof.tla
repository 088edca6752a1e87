--------------------------- MODULE JobStreamProof ---------------------------
(***************************************************************************)
(* What the output file of a job is, for every window, buffer, number of   *)
(* bytes, connections and crashes, and at any pace of the output loops.    *)
(*                                                                         *)
(* Until an output loop appends after a restart has overtaken it, JSInv    *)
(* says where the bytes are, and FlowInv how far the stream has gone: what *)
(* was sent fits the Reader's window, and the job manager lets go of       *)
(* nothing a Reader has not received.  Both are inductive for as long as   *)
(* ~lateAppend, and only such an append can end them.                      *)
(*                                                                         *)
(* GapInv holds also after it: no byte that a loop, a Reader or the file   *)
(* has is past where the file ends when its turn comes, so that a restart  *)
(* never asks for what the file has at Stat.                               *)
(***************************************************************************)
EXTENDS JobStream, TLAPS

(* q holds n, n + 1, ... *)
Contiguous(q, n) == q \in Seq(Int) /\ \A i \in 1..Len(q) : q[i] = n + i - 1

Packet == [id : Streams, seq : Nat, len : Nat, kind : {"data", "eof", "error"}]

AckRecord == [id : Streams, seq : Nat, rwnd : Int, kind : {"data", "fin", "cancel"}]

Reader == [known : BOOLEAN, routed : BOOLEAN, next : Nat, buffer : Seq(Int),
           early : SUBSET Packet, eof : BOOLEAN, err : BOOLEAN, closed : BOOLEAN,
           rwndSent : Int]

Loop == [step : {"none", "read", "check", "append", "end"}, chunk : Seq(Int), ended : BOOLEAN]

Corked  == {"stat", "create", "prepare", "prepared", "start"}
Adopted == {"prepare", "prepared", "start", "started"}

Restart == [step : {"none"} \cup Corked \cup {"started"}, id : 0..MaxConns,
            seq : Nat, gap : Nat, answer : Int]

(* What the job manager sent is what was written; the EOF comes last. *)
SentPackets ==
    {p \in Packet : /\ p.seq + p.len <= total
                    /\ p.kind # "data" => p.len = 0
                    /\ p.kind = "eof" => p.seq = total /\ terminalEvent # "none"}

EmptyPackets == {p \in SentPackets : p.len = 0}

ManagerOK ==
    /\ total \in Nat /\ head \in 0..total
    /\ terminalEvent \in {"none", "eof", "error"}
    /\ source \in [id : Streams, conn : Streams, sent : Nat, rwnd : Int]
    /\ source.id = source.conn /\ source.id <= conn
    /\ head <= source.sent /\ source.sent <= total
    /\ writers \subseteq Streams /\ pending \in 0..MaxConns

WireOK ==
    /\ conn \in Streams /\ up \in BOOLEAN
    /\ data \in Seq(SentPackets) /\ acks \in Seq(AckRecord)
    /\ ~up => data = <<>>

(* A Reader's buffer ends where it goes on. *)
ReaderOK(r) ==
    /\ r \in Reader /\ r.early \subseteq SentPackets
    /\ Contiguous(r.buffer, r.next - Len(r.buffer))
    /\ r.next <= total
    /\ r.eof => r.next = total /\ terminalEvent # "none" /\ ~r.err

(* What a loop has in hand comes just before what its Reader holds. *)
Place(l, r) == r.next - Len(r.buffer) - Len(l.chunk)

LoopOK(l, r) ==
    /\ l \in Loop
    /\ Contiguous(l.chunk, Place(l, r))
    /\ l.step \in {"none", "read"} => l.chunk = <<>> /\ ~l.ended
    /\ l.ended => l.chunk = <<>> /\ (r.err \/ (r.eof /\ r.buffer = <<>>))
    /\ l.step = "end" => l.ended

ServerOK ==
    /\ readers \in [Streams -> Reader] /\ loops \in [Streams -> Loop]
    /\ \A s \in Streams : ReaderOK(readers[s]) /\ LoopOK(loops[s], readers[s])
    /\ \A s \in Streams : s > conn => loops[s].step = "none"
    /\ jobStreamId \in 0..conn

Stored == Len(file) + totalGap

(* Until the new stream is uncorked, it sends nothing that has bytes. *)
CorkOK ==
    /\ restart.step \in Corked =>
          /\ writers = {} /\ data \in Seq(EmptyPackets)
          /\ source.id = conn => source.rwnd <= 0
    /\ restart.step \in {"stat", "create", "prepare"} => source.id # conn /\ data = <<>>

(* The new Reader begins where the file ends, gaps included. *)
RestartOK ==
    /\ restart \in Restart
    /\ restart.step # "none" => restart.id = conn /\ loops[conn].step = "none"
    /\ restart.step \in {"create", "prepare", "prepared"} =>
          restart.seq = Stored /\ restart.gap = totalGap
    /\ restart.step \in Adopted => jobStreamId = conn
    /\ restart.step \in {"prepare", "prepared"} =>
          /\ readers[conn].next = restart.seq /\ readers[conn].buffer = <<>>
          /\ readers[conn].early \subseteq EmptyPackets
    /\ restart.step = "prepared" => restart.answer <= total
    /\ restart.step \in {"start", "started"} =>
          readers[conn].next - Len(readers[conn].buffer) = Stored

(* A file with gap g: in order, and what is missing is accounted for. *)
FileOK(f, g) ==
    /\ f \in Seq(Int) /\ g \in Nat
    /\ \A i \in 1..(Len(f) - 1) : f[i] < f[i + 1]
    /\ f # <<>> => f[Len(f)] < Len(f) + g
    /\ Len(f) + g <= total

StoreOK ==
    /\ FileOK(file, totalGap)
    /\ disk = [file |-> disk.file, gap |-> disk.gap] /\ FileOK(disk.file, disk.gap)
    /\ jobStreamId # 0 /\ loops[jobStreamId].step # "none" =>
          Place(loops[jobStreamId], readers[jobStreamId]) = Stored
    /\ \A s \in Streams : loops[s].step = "end" /\ readers[s].eof => Stored = total

JSInv == ManagerOK /\ WireOK /\ ServerOK /\ CorkOK /\ RestartOK /\ StoreOK

USE DEF jobVars, connVars, serverVars, storeVars

-----------------------------------------------------------------------------
(* Lemmas about contiguous sequences *)

LEMMA EmptyContiguous == \A n \in Int : Contiguous(<<>>, n)
BY DEF Contiguous

LEMMA ContiguousRun ==
    ASSUME NEW n \in Int, NEW len \in Nat
    PROVE  /\ Contiguous([i \in 1..len |-> n + i - 1], n)
           /\ Len([i \in 1..len |-> n + i - 1]) = len
BY DEF Contiguous

LEMMA ContiguousJoin ==
    ASSUME NEW q, NEW t, NEW n \in Int, Contiguous(q, n), Contiguous(t, n + Len(q))
    PROVE  Contiguous(q \o t, n) /\ Len(q \o t) = Len(q) + Len(t)
<1>1. q \in Seq(Int) /\ t \in Seq(Int) /\ Len(q) \in Nat /\ Len(t) \in Nat
  BY DEF Contiguous
<1>2. q \o t \in Seq(Int) /\ Len(q \o t) = Len(q) + Len(t)
  BY <1>1
<1>3. ASSUME NEW i \in 1..Len(q \o t)
      PROVE  (q \o t)[i] = n + i - 1
  <2>1. CASE i <= Len(q)
    BY <1>1, <1>2, <2>1 DEF Contiguous
  <2>2. CASE i > Len(q)
    <3>1. (q \o t)[i] = t[i - Len(q)] /\ i - Len(q) \in 1..Len(t)
      BY <1>1, <1>2, <2>2
    <3> QED BY <1>1, <3>1 DEF Contiguous
  <2> QED BY <1>1, <1>2, <2>1, <2>2
<1> QED BY <1>2, <1>3 DEF Contiguous

LEMMA ContiguousParts ==
    ASSUME NEW q, NEW n \in Int, Contiguous(q, n), NEW k \in 0..Len(q)
    PROVE  /\ Contiguous(SubSeq(q, 1, k), n) /\ Len(SubSeq(q, 1, k)) = k
           /\ Contiguous(SubSeq(q, k + 1, Len(q)), n + k)
           /\ Len(SubSeq(q, k + 1, Len(q))) = Len(q) - k
<1>1. q \in Seq(Int) /\ Len(q) \in Nat /\ k \in Nat
  BY DEF Contiguous
<1>2. SubSeq(q, 1, k) \in Seq(Int) /\ Len(SubSeq(q, 1, k)) = k
  BY <1>1
<1>3. SubSeq(q, k + 1, Len(q)) \in Seq(Int) /\ Len(SubSeq(q, k + 1, Len(q))) = Len(q) - k
  BY <1>1
<1>4. \A i \in 1..k : SubSeq(q, 1, k)[i] = q[i]
  BY <1>1
<1>5. \A i \in 1..(Len(q) - k) : SubSeq(q, k + 1, Len(q))[i] = q[i + k]
  BY <1>1
<1> QED BY <1>1, <1>2, <1>3, <1>4, <1>5 DEF Contiguous

LEMMA TailTyped ==
    ASSUME NEW S, NEW q \in Seq(S), q # <<>>
    PROVE  Head(q) \in S /\ Tail(q) \in Seq(S)
OBVIOUS

-----------------------------------------------------------------------------
(* Lemmas about readers *)

(* The same reader, as far as the stream is concerned *)
SameReader(r, q) ==
    /\ q \in Reader /\ q.next = r.next /\ q.buffer = r.buffer /\ q.early = r.early
    /\ q.eof = r.eof /\ q.err = r.err

LEMMA ReaderFields ==
    ASSUME NEW r \in Reader
    PROVE  /\ r.next \in Nat /\ r.buffer \in Seq(Int) /\ Len(r.buffer) \in Nat
           /\ r.early \subseteq Packet /\ r.eof \in BOOLEAN /\ r.err \in BOOLEAN
           /\ r.known \in BOOLEAN /\ r.rwndSent \in Int
BY DEF Reader

LEMMA ToldIsSame ==
    ASSUME NEW r \in Reader, NEW kind
    PROVE  SameReader(r, Told(r, kind))
<1>1. Rwnd(r) \in Int
  BY ReaderFields, JobStreamAssumption DEF Rwnd
<1> QED BY <1>1 DEF Told, SameReader, Reader

LEMMA SameIsOK ==
    ASSUME NEW r, NEW q, SameReader(r, q)
    PROVE  ReaderOK(r) => ReaderOK(q)
BY DEF SameReader, ReaderOK

LEMMA CloseReaderEffect ==
    ASSUME acks \in Seq(AckRecord), readers \in [Streams -> Reader], NEW s \in Streams,
           CloseReader(s)
    PROVE  /\ readers' \in [Streams -> Reader] /\ acks' \in Seq(AckRecord)
           /\ \A x \in Streams : SameReader(readers[x], readers'[x])
<1>1. CASE readers[s].closed
  BY <1>1 DEF CloseReader, SameReader
<1>2. CASE ~readers[s].closed
  <2> DEFINE r == [readers[s] EXCEPT !.closed = TRUE]
  <2>1. r \in Reader /\ SameReader(readers[s], r)
    BY DEF Reader, SameReader
  <2>2. SameReader(readers[s], Told(r, "cancel"))
    BY <2>1, ToldIsSame DEF SameReader
  <2>3. readers' = [readers EXCEPT ![s] = Told(r, "cancel")] /\ Answer(<<Ack(s, readers[s], "cancel")>>)
    BY <1>2 DEF CloseReader
  <2>4. Ack(s, readers[s], "cancel") \in AckRecord
    BY ReaderFields, JobStreamAssumption DEF Ack, AckRecord, Rwnd
  <2>5. acks' \in Seq(AckRecord)
    BY <2>3, <2>4 DEF Answer
  <2>6. \A x \in Streams : SameReader(readers[x], readers[x])
    BY DEF SameReader
  <2> QED BY <2>2, <2>3, <2>5, <2>6 DEF SameReader
<1> QED BY <1>1, <1>2

MovedReader(r, q, next, buffer, eof) ==
    /\ q \in Reader /\ q.next = next /\ q.buffer = buffer /\ q.eof = eof
    /\ q.early = r.early /\ q.err = r.err

LEMMA ReaderMoves ==
    ASSUME NEW r \in Reader, NEW n \in Nat, NEW b \in Seq(Int), NEW e \in BOOLEAN
    PROVE  MovedReader(r, [r EXCEPT !.next = n, !.buffer = b, !.eof = e], n, b, e)
BY DEF Reader, MovedReader

LEMMA OrderedIsOK ==
    ASSUME total \in Nat, NEW r, ReaderOK(r), ~r.err, NEW p \in SentPackets, p.seq = r.next
    PROVE  /\ ReaderOK(Ordered(r, p)) /\ ~Ordered(r, p).err
           /\ Ordered(r, p).next - Len(Ordered(r, p).buffer) = r.next - Len(r.buffer)
           /\ Ordered(r, p).early = r.early
           /\ p.len = 0 => Ordered(r, p).next = r.next /\ Len(Ordered(r, p).buffer) = Len(r.buffer)
<1> DEFINE run == [i \in 1..p.len |-> p.seq + i - 1]
           q == Ordered(r, p)
<1>1. r \in Reader /\ p.seq \in Nat /\ p.len \in Nat /\ p.seq + p.len <= total
  BY DEF ReaderOK, SentPackets, Packet
<1>2. r.next \in Nat /\ r.buffer \in Seq(Int) /\ Len(r.buffer) \in Nat
  BY <1>1, ReaderFields
<1>3. Contiguous(run, r.next) /\ Len(run) = p.len
  BY <1>1, ContiguousRun
<1>4. Contiguous(r.buffer, r.next - Len(r.buffer))
  BY DEF ReaderOK
<1>5. Contiguous(r.buffer \o run, r.next - Len(r.buffer)) /\ Len(r.buffer \o run) = Len(r.buffer) + p.len
  <2> HIDE DEF run
  <2>1. (r.next - Len(r.buffer)) + Len(r.buffer) = r.next /\ r.next - Len(r.buffer) \in Int
    BY <1>2
  <2> QED BY <1>3, <1>4, <2>1, ContiguousJoin
<1>6. r.buffer \o run \in Seq(Int)
  BY <1>5 DEF Contiguous
<1>7. /\ q \in Reader /\ q.next = r.next + p.len /\ q.buffer = r.buffer \o run
      /\ q.early = r.early /\ q.err = r.err /\ (q.eof <=> p.kind = "eof")
  <2> HIDE DEF run
  <2> DEFINE next == r.next + p.len
             all  == r.buffer \o run
  <2>1. q = [r EXCEPT !.next = next, !.buffer = all, !.eof = (p.kind = "eof")]
    BY DEF Ordered, run
  <2>2. next \in Nat /\ all \in Seq(Int)
    BY <1>1, <1>2, <1>6
  <2> HIDE DEF q, next, all
  <2>3. MovedReader(r, q, next, all, p.kind = "eof")
    BY <1>1, <2>1, <2>2, ReaderMoves
  <2> QED BY <2>3 DEF MovedReader, next, all
<1> HIDE DEF q, run
<1>8. q.next - Len(q.buffer) = r.next - Len(r.buffer)
  BY <1>1, <1>2, <1>5, <1>7
<1>9. q.eof => q.next = total /\ terminalEvent # "none"
  BY <1>1, <1>2, <1>7 DEF SentPackets
<1>10. ReaderOK(q)
  BY <1>1, <1>2, <1>5, <1>7, <1>8, <1>9 DEF ReaderOK
<1>11. p.len = 0 => q.next = r.next /\ Len(q.buffer) = Len(r.buffer)
  BY <1>1, <1>2, <1>5, <1>7
<1> QED BY <1>7, <1>8, <1>10, <1>11 DEF q

LEMMA WithEarlyIsOK ==
    ASSUME total \in Nat, NEW r, ReaderOK(r), ~r.err
    PROVE  /\ ReaderOK(WithEarly(r)) /\ ~WithEarly(r).err
           /\ WithEarly(r).next - Len(WithEarly(r).buffer) = r.next - Len(r.buffer)
           /\ WithEarly(r).early \subseteq r.early
           /\ r.early \subseteq EmptyPackets =>
                 WithEarly(r).next = r.next /\ Len(WithEarly(r).buffer) = Len(r.buffer)
<1>1. CASE \E p \in r.early : p.seq = r.next
  <2>1. PICK p \in r.early : p.seq = r.next /\ p = CHOOSE x \in r.early : x.seq = r.next
    BY <1>1
  <2> DEFINE q == Ordered(r, p)
  <2>2. p \in SentPackets
    BY DEF ReaderOK
  <2>3. WithEarly(r) = [q EXCEPT !.early = {}]
    BY <1>1, <2>1 DEF WithEarly
  <2>4. /\ ReaderOK(q) /\ ~q.err /\ q.next - Len(q.buffer) = r.next - Len(r.buffer)
        /\ p.len = 0 => q.next = r.next /\ Len(q.buffer) = Len(r.buffer)
    BY <2>1, <2>2, OrderedIsOK
  <2> HIDE DEF q
  <2>5. /\ WithEarly(r) \in Reader /\ WithEarly(r).next = q.next /\ WithEarly(r).buffer = q.buffer
        /\ WithEarly(r).early = {} /\ WithEarly(r).eof = q.eof /\ WithEarly(r).err = q.err
    BY <2>3, <2>4 DEF ReaderOK, Reader
  <2>6. ReaderOK(WithEarly(r))
    BY <2>4, <2>5 DEF ReaderOK
  <2> QED BY <2>1, <2>4, <2>5, <2>6 DEF EmptyPackets
<1>2. CASE ~\E p \in r.early : p.seq = r.next
  BY <1>2 DEF WithEarly
<1> QED BY <1>1, <1>2

-----------------------------------------------------------------------------
(* What holds however readers change *)

LEMMA SamePackets ==
    ASSUME UNCHANGED <<total, terminalEvent>>
    PROVE  SentPackets' = SentPackets /\ EmptyPackets' = EmptyPackets
BY DEF SentPackets, EmptyPackets

LEMMA PacketFields ==
    ASSUME NEW p \in SentPackets
    PROVE  /\ p \in Packet /\ p.id \in Streams /\ p.seq \in Nat /\ p.len \in Nat
           /\ p.seq + p.len <= total /\ (p.kind # "data" => p.len = 0)
BY DEF SentPackets, Packet

LEMMA StoreTyped ==
    ASSUME StoreOK
    PROVE  file \in Seq(Int) /\ Len(file) \in Nat /\ totalGap \in Nat /\ Stored \in Nat
BY DEF StoreOK, FileOK, Stored

(* q is r after a packet, or the same. *)
Grown(r, q) ==
    /\ ReaderOK(q) /\ q.next - Len(q.buffer) = r.next - Len(r.buffer)
    /\ r.err \/ r.eof => SameReader(r, q)

(* ... with no bytes *)
StillEmpty(r, q) ==
    /\ q.next = r.next /\ (r.buffer = <<>> => q.buffer = <<>>)
    /\ r.early \subseteq EmptyPackets => q.early \subseteq EmptyPackets

LEMMA SameIsGrown ==
    ASSUME NEW r, NEW q, SameReader(r, q), ReaderOK(r)
    PROVE  Grown(r, q) /\ StillEmpty(r, q)
BY SameIsOK DEF Grown, StillEmpty, SameReader

LEMMA LoopStaysOK ==
    ASSUME NEW l, NEW r, NEW q, LoopOK(l, r), Grown(r, q)
    PROVE  LoopOK(l, q) /\ Place(l, q) = Place(l, r)
<1>1. Place(l, q) = Place(l, r)
  BY DEF Grown, Place
<1> QED BY <1>1 DEF LoopOK, Grown, SameReader

LEMMA ReadersChange ==
    ASSUME JSInv,
           UNCHANGED <<jobVars, conn, up, jobStreamId, loops, restart, storeVars>>,
           readers' \in [Streams -> Reader],
           \A s \in Streams : Grown(readers[s], readers'[s]),
           restart.step \in {"prepare", "prepared"} => StillEmpty(readers[conn], readers'[conn]),
           data' = data \/ (data # <<>> /\ data' = Tail(data)),
           acks' \in Seq(AckRecord)
    PROVE  JSInv'
<1>1. SentPackets' = SentPackets /\ EmptyPackets' = EmptyPackets
  BY SamePackets
<1>2. ManagerOK'
  BY DEF JSInv, ManagerOK
<1>3. WireOK'
  BY <1>1, TailTyped DEF JSInv, WireOK
<1>4. \A r : ReaderOK(r)' <=> ReaderOK(r)
  BY <1>1 DEF ReaderOK
<1>5. ASSUME NEW s \in Streams
      PROVE  ReaderOK(readers'[s]) /\ LoopOK(loops[s], readers'[s])
             /\ Place(loops[s], readers'[s]) = Place(loops[s], readers[s])
  BY LoopStaysOK DEF JSInv, ServerOK, Grown
<1>6. ServerOK'
  BY <1>1, <1>5 DEF JSInv, ServerOK, ReaderOK
<1>7. CorkOK'
  BY <1>1, TailTyped DEF JSInv, CorkOK
<1>8. RestartOK'
  <2>1. conn \in Streams
    BY DEF JSInv, WireOK
  <2>2. readers'[conn].next - Len(readers'[conn].buffer) = readers[conn].next - Len(readers[conn].buffer)
    BY <2>1 DEF Grown
  <2>3. restart.step \in {"prepare", "prepared"} =>
          /\ readers'[conn].next = restart.seq /\ readers'[conn].buffer = <<>>
          /\ readers'[conn].early \subseteq EmptyPackets
    BY DEF JSInv, RestartOK, StillEmpty, Corked
  <2>4. UNCHANGED <<restart, conn, loops, jobStreamId, total, Stored>>
    BY DEF Stored
  <2> QED BY <1>1, <2>2, <2>3, <2>4 DEF JSInv, RestartOK
<1>9. StoreOK'
  <2>1. jobStreamId # 0 => jobStreamId \in Streams
    BY JobStreamAssumption DEF JSInv, ServerOK, WireOK, Streams
  <2>2. \A s \in Streams : loops[s].step = "end" => readers'[s].eof = readers[s].eof
    BY DEF JSInv, ServerOK, LoopOK, Grown, SameReader
  <2> QED BY <1>5, <2>1, <2>2 DEF JSInv, StoreOK, FileOK, Stored
<1> QED BY <1>2, <1>3, <1>6, <1>7, <1>8, <1>9 DEF JSInv

-----------------------------------------------------------------------------
(* The job manager *)

LEMMA Bounds ==
    ASSUME JSInv
    PROVE  /\ total \in Nat /\ head \in Nat /\ head <= total
           /\ source.id \in Streams /\ source.conn = source.id /\ source.sent \in Nat
           /\ source.rwnd \in Int /\ head <= source.sent /\ source.sent <= total
           /\ Connected /\ conn \in Streams /\ conn \in Nat
BY JobStreamAssumption DEF JSInv, ManagerOK, WireOK, Connected, Streams

LEMMA ProgramWritesKeeps ==
    ASSUME JSInv, ProgramWrites
    PROVE  JSInv'
<1>1. /\ total' = total + 1 /\ terminalEvent' = "none" /\ terminalEvent = "none" /\ head' = head
      /\ UNCHANGED <<source, pending, writers, connVars, serverVars, storeVars>>
  BY Bounds DEF ProgramWrites
<1>2. SentPackets \subseteq SentPackets' /\ EmptyPackets \subseteq EmptyPackets'
  BY <1>1, Bounds DEF SentPackets, EmptyPackets, Packet
<1>3. ManagerOK'
  BY <1>1, Bounds DEF JSInv, ManagerOK
<1>4. \A q : (q \in Seq(SentPackets) => q \in Seq(SentPackets'))
             /\ (q \in Seq(EmptyPackets) => q \in Seq(EmptyPackets'))
  BY <1>2
<1>5. WireOK'
  BY <1>1, <1>4 DEF JSInv, WireOK
<1>6. \A s \in Streams : ~readers[s].eof
  BY <1>1 DEF JSInv, ServerOK, ReaderOK
<1>7. ASSUME NEW s \in Streams
      PROVE  ReaderOK(readers[s])'
  <2>1. ReaderOK(readers[s]) /\ readers[s] \in Reader
    BY DEF JSInv, ServerOK
  <2>2. readers[s].next <= total + 1
    BY <2>1, ReaderFields, Bounds DEF ReaderOK
  <2> QED BY <1>1, <1>2, <1>6, <2>1, <2>2 DEF ReaderOK
<1>8. ServerOK'
  BY <1>1, <1>7 DEF JSInv, ServerOK, LoopOK, Place
<1>9. CorkOK'
  BY <1>1, <1>4 DEF JSInv, CorkOK
<1>10. RestartOK'
  <2>1. restart.step = "prepared" => restart.answer <= total + 1
    BY Bounds DEF JSInv, RestartOK, Restart
  <2>2. UNCHANGED <<restart, conn, loops, jobStreamId, readers, Stored, totalGap>>
    BY <1>1 DEF Stored
  <2> QED BY <1>1, <1>2, <2>1, <2>2 DEF JSInv, RestartOK
<1>11. StoreOK'
  <2>1. \A f, g : FileOK(f, g) => FileOK(f, g)'
    BY <1>1, Bounds DEF FileOK
  <2>2. UNCHANGED <<file, totalGap, disk, loops, readers, jobStreamId, Stored>>
    BY <1>1 DEF Stored
  <2> QED BY <1>1, <1>6, <2>1, <2>2 DEF JSInv, StoreOK, Place
<1> QED BY <1>3, <1>5, <1>8, <1>9, <1>10, <1>11 DEF JSInv

LEMMA ProgramEndsKeeps ==
    ASSUME JSInv, NEW kind \in Terminals, ProgramEnds(kind)
    PROVE  JSInv'
<1>1. /\ terminalEvent = "none" /\ terminalEvent' \in {"eof", "error"}
      /\ UNCHANGED <<head, total, source, pending, writers, connVars, serverVars, storeVars>>
  BY JobStreamAssumption DEF ProgramEnds
<1>2. SentPackets \subseteq SentPackets' /\ EmptyPackets \subseteq EmptyPackets'
  BY <1>1 DEF SentPackets, EmptyPackets
<1>3. ManagerOK'
  BY <1>1 DEF JSInv, ManagerOK
<1>4. \A q : (q \in Seq(SentPackets) => q \in Seq(SentPackets'))
             /\ (q \in Seq(EmptyPackets) => q \in Seq(EmptyPackets'))
  BY <1>2
<1>5. WireOK'
  BY <1>1, <1>4 DEF JSInv, WireOK
<1>6. \A r : ReaderOK(r) => ReaderOK(r)'
  BY <1>1, <1>2 DEF ReaderOK
<1>7. ServerOK'
  BY <1>1, <1>6 DEF JSInv, ServerOK, LoopOK, Place
<1>8. CorkOK'
  BY <1>1, <1>4 DEF JSInv, CorkOK
<1>9. UNCHANGED <<restart, conn, loops, jobStreamId, readers, Stored, totalGap, file, disk, total>>
  BY <1>1 DEF Stored
<1>10. RestartOK'
  BY <1>2, <1>9 DEF JSInv, RestartOK
<1>11. StoreOK'
  BY <1>9 DEF JSInv, StoreOK, FileOK, Place
<1> QED BY <1>3, <1>5, <1>7, <1>8, <1>10, <1>11 DEF JSInv

LEMMA ServerUntouched ==
    ASSUME JSInv,
           UNCHANGED <<total, terminalEvent, conn, jobStreamId, readers, loops, storeVars>>
    PROVE  ServerOK' /\ StoreOK' /\ (restart' = restart => RestartOK')
<1>1. SentPackets' = SentPackets /\ EmptyPackets' = EmptyPackets
  BY SamePackets
<1>2. Stored' = Stored
  BY DEF Stored
<1>3. ServerOK'
  BY <1>1 DEF JSInv, ServerOK, ReaderOK, LoopOK, Place
<1>4. StoreOK'
  BY <1>2 DEF JSInv, StoreOK, FileOK, Place
<1>5. restart' = restart => RestartOK'
  BY <1>1, <1>2 DEF JSInv, RestartOK
<1> QED BY <1>3, <1>4, <1>5

(* The stream is corked: nothing with bytes goes out on this connection. *)
LEMMA TransmitKeeps ==
    ASSUME JSInv, NEW p \in SentPackets, Transmit(p),
           UNCHANGED <<total, terminalEvent, conn, up, acks, writers, restart, source.id>>,
           source'.id = source.id, restart.step \in Corked /\ source.id = conn => p.len = 0,
           source'.rwnd = source.rwnd
    PROVE  WireOK' /\ CorkOK'
<1>1. SentPackets' = SentPackets /\ EmptyPackets' = EmptyPackets
  BY SamePackets
<1>2. data \in Seq(SentPackets) /\ (restart.step \in Corked => data \in Seq(EmptyPackets))
  BY DEF JSInv, WireOK, CorkOK
<1>3. data' = data \/ (up /\ source.id = conn /\ data' = Append(data, p))
  BY Bounds DEF Transmit
<1>4. data' \in Seq(SentPackets) /\ (~up => data' = <<>>)
  BY <1>2, <1>3 DEF JSInv, WireOK
<1>5. WireOK'
  BY <1>1, <1>4 DEF JSInv, WireOK
<1>6. restart.step \in Corked => data' \in Seq(EmptyPackets)
  BY <1>2, <1>3 DEF EmptyPackets
<1>7. CorkOK'
  BY <1>1, <1>3, <1>6 DEF JSInv, CorkOK
<1> QED BY <1>5, <1>7

LEMMA SendDataKeeps ==
    ASSUME JSInv, SendData
    PROVE  JSInv'
<1> DEFINE room == Window - (source.sent - head)
           n == Smaller(Smaller(room, ChunkSize), total - source.sent)
           p == [id |-> source.id, seq |-> source.sent, len |-> n, kind |-> "data"]
<1>1. /\ n > 0 /\ Transmit(p) /\ source' = [source EXCEPT !.sent = @ + n]
      /\ UNCHANGED <<head, total, terminalEvent, pending, writers, conn, up, acks, serverVars, storeVars>>
  BY DEF SendData
<1>2. Window \in Int /\ Window <= source.rwnd
  BY Bounds, JobStreamAssumption DEF Window, Smaller
<1>3. n \in Nat /\ n <= total - source.sent /\ n <= room
  BY <1>1, <1>2, Bounds, JobStreamAssumption DEF Smaller
<1> HIDE DEF n
<1>4. p \in SentPackets
  BY <1>1, <1>3, Bounds DEF SentPackets, Packet
<1>5. ~(restart.step \in Corked /\ source.id = conn)
  BY <1>1, <1>2, <1>3, Bounds DEF JSInv, CorkOK
<1>6. source'.id = source.id /\ source'.conn = source.conn /\ source'.rwnd = source.rwnd
      /\ source'.sent = source.sent + n
      /\ source' \in [id : Streams, conn : Streams, sent : Nat, rwnd : Int]
  BY <1>1, <1>3, Bounds DEF JSInv, ManagerOK
<1> HIDE DEF p
<1>7. WireOK' /\ CorkOK'
  BY <1>1, <1>4, <1>5, <1>6, TransmitKeeps
<1>8. ManagerOK'
  BY <1>1, <1>3, <1>6, Bounds DEF JSInv, ManagerOK
<1> QED BY <1>1, <1>7, <1>8, ServerUntouched DEF JSInv

LEMMA SendTerminalKeeps ==
    ASSUME JSInv, SendTerminal
    PROVE  JSInv'
<1> DEFINE p == [id |-> source.id, seq |-> total, len |-> 0, kind |-> terminalEvent]
<1>1. /\ terminalEvent # "none" /\ Transmit(p)
      /\ UNCHANGED <<head, total, terminalEvent, source, pending, writers, conn, up, acks, serverVars, storeVars>>
  BY DEF SendTerminal
<1>2. p \in SentPackets /\ p.len = 0
  BY <1>1, Bounds DEF JSInv, ManagerOK, SentPackets, Packet
<1> HIDE DEF p
<1>3. WireOK' /\ CorkOK'
  BY <1>1, <1>2, TransmitKeeps
<1>4. ManagerOK'
  BY <1>1 DEF JSInv, ManagerOK
<1> QED BY <1>1, <1>3, <1>4, ServerUntouched DEF JSInv

LEMMA RecvAckEffect ==
    ASSUME JSInv, NEW ack \in AckRecord, RecvAck(ack)
    PROVE  \/ UNCHANGED <<head, source>>
           \/ /\ head' \in head..source.sent
              /\ source' = [source EXCEPT !.rwnd = ack.rwnd]
BY Bounds DEF RecvAck, AckRecord

LEMMA AckArrivesKeeps ==
    ASSUME JSInv, AckArrives
    PROVE  JSInv'
<1> DEFINE ack == Head(acks)
<1>1. /\ acks # <<>> /\ acks' = Tail(acks) /\ writers' \subseteq writers
      /\ UNCHANGED <<total, terminalEvent, pending, conn, up, data, serverVars, storeVars>>
      /\ IF ack.id \in writers THEN RecvAck(ack) ELSE UNCHANGED <<head, source>>
  BY DEF AckArrives
<1>2. ack \in AckRecord /\ acks' \in Seq(AckRecord)
  BY <1>1, TailTyped DEF JSInv, WireOK
<1> HIDE DEF ack
<1>3. ack.rwnd \in Int
  BY <1>2 DEF AckRecord
<1>4. /\ head' \in Nat /\ head <= head' /\ head' <= source.sent
      /\ source' \in [id : Streams, conn : Streams, sent : Nat, rwnd : Int]
      /\ source'.id = source.id /\ source'.conn = source.conn /\ source'.sent = source.sent
      /\ restart.step \in Corked => source' = source
  <2>1. CASE ack.id \in writers
    <3>1. restart.step \notin Corked
      BY <2>1 DEF JSInv, CorkOK
    <3>2. \/ UNCHANGED <<head, source>>
          \/ head' \in head..source.sent /\ source' = [source EXCEPT !.rwnd = ack.rwnd]
      BY <1>1, <1>2, <2>1, RecvAckEffect
    <3> QED BY <1>3, <3>1, <3>2, Bounds DEF JSInv, ManagerOK
  <2>2. CASE ack.id \notin writers
    BY <1>1, <2>2, Bounds DEF JSInv, ManagerOK
  <2> QED BY <2>1, <2>2
<1>5. ManagerOK'
  BY <1>1, <1>4, Bounds DEF JSInv, ManagerOK
<1>6. SentPackets' = SentPackets /\ EmptyPackets' = EmptyPackets
  BY <1>1, SamePackets
<1>7. WireOK'
  BY <1>1, <1>2, <1>6 DEF JSInv, WireOK
<1>8. CorkOK'
  BY <1>1, <1>4, <1>6 DEF JSInv, CorkOK
<1> QED BY <1>1, <1>5, <1>7, <1>8, ServerUntouched DEF JSInv

(* The server never asks for more than was written, so it is not refused. *)
LEMMA PrepareConnectKeeps ==
    ASSUME JSInv, PrepareConnect
    PROVE  JSInv'
<1>1. /\ restart.step = "prepare" /\ up
      /\ UNCHANGED <<total, terminalEvent, connVars, jobStreamId, readers, loops, crashes, storeVars>>
  BY DEF PrepareConnect
<1>2. restart.seq = Stored /\ Stored \in Nat /\ Stored <= total
  BY <1>1, StoreTyped DEF JSInv, RestartOK, StoreOK, FileOK, Stored
<1>3. restart \in Restart /\ restart.id = conn /\ writers = {} /\ source.id # conn
  BY <1>1 DEF JSInv, RestartOK, CorkOK, Corked
<1>4. \E a \in Int : a <= total /\ restart' = [restart EXCEPT !.step = "prepared", !.answer = a]
  <2>1. StartSeq(restart.seq) \in Int /\ StartSeq(restart.seq) <= total
    BY <1>2, Bounds DEF StartSeq, Larger
  <2>2. \/ restart' = [restart EXCEPT !.step = "prepared", !.answer = -1]
        \/ restart' = [restart EXCEPT !.step = "prepared", !.answer = StartSeq(restart.seq)]
    <3>1. ~(restart.seq > total)
      BY <1>2, Bounds
    <3> QED BY <3>1 DEF PrepareConnect
  <2>3. -1 \in Int /\ -1 <= total
    BY Bounds
  <2> QED BY <2>1, <2>2, <2>3, Zenon
<1>5. ManagerOK' /\ writers' = {} /\ (source'.id = conn => source'.rwnd <= 0)
  <2>1. CASE terminalEventAcked
    BY <1>1, <1>3, <2>1 DEF PrepareConnect, JSInv, ManagerOK
  <2>2. CASE ~terminalEventAcked
    <3> DEFINE start == StartSeq(restart.seq)
    <3>1. /\ writers' = {} /\ pending' = conn /\ head' = start
          /\ source' = [id |-> conn, conn |-> conn, sent |-> start, rwnd |-> 0]
      BY <1>1, <1>2, <1>3, <2>2, Bounds DEF PrepareConnect
    <3>2. start \in Nat /\ start <= total
      BY <1>2, Bounds DEF StartSeq, Larger
    <3> HIDE DEF start
    <3>3. pending' \in 0..MaxConns
      BY <3>1, Bounds, JobStreamAssumption DEF Streams
    <3>4. source'.rwnd = 0
      BY <3>1
    <3>5. ManagerOK'
      BY <1>1, <3>1, <3>2, <3>3, Bounds DEF ManagerOK, JSInv
    <3> QED BY <3>1, <3>4, <3>5
  <2> QED BY <2>1, <2>2
<1>6. SentPackets' = SentPackets /\ EmptyPackets' = EmptyPackets /\ Stored' = Stored
  BY <1>1, SamePackets DEF Stored
<1>7. WireOK'
  BY <1>1, <1>6 DEF JSInv, WireOK
<1>8. restart' \in Restart /\ restart'.step = "prepared" /\ restart'.id = conn
      /\ restart'.seq = restart.seq /\ restart'.gap = restart.gap /\ restart'.answer <= total
  BY <1>1, <1>3, <1>4 DEF Restart, Corked
<1>9. CorkOK'
  BY <1>1, <1>5, <1>6, <1>8 DEF JSInv, CorkOK, Corked
<1>10. RestartOK'
  BY <1>1, <1>2, <1>6, <1>8 DEF JSInv, RestartOK, Adopted
<1> QED BY <1>1, <1>5, <1>7, <1>9, <1>10, ServerUntouched DEF JSInv

LEMMA StartStreamKeeps ==
    ASSUME JSInv, StartStream
    PROVE  JSInv'
<1>1. /\ restart.step = "start" /\ pending # 0
      /\ writers' = writers \cup {pending} /\ source' = [source EXCEPT !.rwnd = RWnd]
      /\ pending' = 0 /\ restart' = [restart EXCEPT !.step = "started"]
      /\ UNCHANGED <<head, total, terminalEvent, connVars, jobStreamId, readers, loops, storeVars>>
  BY DEF StartStream
<1>2. /\ source' \in [id : Streams, conn : Streams, sent : Nat, rwnd : Int]
      /\ source'.id = source.id /\ source'.conn = source.conn /\ source'.sent = source.sent
  BY <1>1, JobStreamAssumption DEF JSInv, ManagerOK
<1>3. pending \in Streams
  BY <1>1, JobStreamAssumption DEF JSInv, ManagerOK, Streams
<1>4. ManagerOK'
  BY <1>1, <1>2, <1>3, JobStreamAssumption DEF JSInv, ManagerOK
<1>5. SentPackets' = SentPackets /\ EmptyPackets' = EmptyPackets /\ Stored' = Stored
  BY <1>1, SamePackets DEF Stored
<1>6. WireOK'
  BY <1>1, <1>5 DEF JSInv, WireOK
<1>7. restart \in Restart
  BY DEF JSInv, RestartOK
<1>8. restart' \in Restart /\ restart'.step = "started" /\ restart'.id = restart.id
  BY <1>1, <1>7 DEF Restart
<1>9. CorkOK'
  BY <1>8 DEF CorkOK, Corked
<1>10. RestartOK'
  BY <1>1, <1>5, <1>8 DEF JSInv, RestartOK, Adopted
<1> QED BY <1>1, <1>4, <1>6, <1>9, <1>10, ServerUntouched DEF JSInv

(* A reader with an error and none before; one with a packet put by. *)
LEMMA FailedIsGrown ==
    ASSUME NEW r, ReaderOK(r), ~r.eof, ~r.err, NEW kind
    PROVE  /\ Grown(r, Told([r EXCEPT !.err = TRUE], kind))
           /\ StillEmpty(r, Told([r EXCEPT !.err = TRUE], kind))
<1> DEFINE q == [r EXCEPT !.err = TRUE]
<1>1. /\ q \in Reader /\ q.next = r.next /\ q.buffer = r.buffer /\ q.early = r.early
      /\ q.eof = r.eof
  BY DEF ReaderOK, Reader
<1> HIDE DEF q
<1>2. ReaderOK(q)
  BY <1>1 DEF ReaderOK
<1>3. SameReader(q, Told(q, kind))
  BY <1>1, ToldIsSame
<1>4. Grown(q, Told(q, kind)) /\ StillEmpty(q, Told(q, kind))
  BY <1>2, <1>3, SameIsGrown
<1>5. Grown(r, Told(q, kind)) /\ StillEmpty(r, Told(q, kind))
  BY <1>1, <1>4 DEF Grown, StillEmpty
<1> QED BY <1>5 DEF q

LEMMA EarlyIsGrown ==
    ASSUME NEW r, ReaderOK(r), ~r.eof, ~r.err, NEW p \in SentPackets
    PROVE  /\ Grown(r, [r EXCEPT !.early = @ \cup {p}])
           /\ p \in EmptyPackets => StillEmpty(r, [r EXCEPT !.early = @ \cup {p}])
<1> DEFINE q == [r EXCEPT !.early = @ \cup {p}]
<1>1. p \in Packet /\ r \in Reader /\ r.early \subseteq Packet
  BY PacketFields, ReaderFields DEF ReaderOK
<1>2. /\ q \in Reader /\ q.next = r.next /\ q.buffer = r.buffer /\ q.early = r.early \cup {p}
      /\ q.eof = r.eof /\ q.err = r.err
  BY <1>1 DEF Reader
<1> HIDE DEF q
<1>3. Grown(r, q) /\ (p \in EmptyPackets => StillEmpty(r, q))
  BY <1>2 DEF Grown, StillEmpty, ReaderOK
<1> QED BY <1>3 DEF q

LEMMA OrderedIsGrown ==
    ASSUME total \in Nat, NEW r, ReaderOK(r), ~r.eof, ~r.err, NEW kind,
           NEW p \in SentPackets, p.seq = r.next
    PROVE  /\ WithEarly(Ordered(r, p)) \in Reader
           /\ Grown(r, Told(WithEarly(Ordered(r, p)), kind))
           /\ p \in EmptyPackets /\ r.early \subseteq EmptyPackets =>
                 StillEmpty(r, Told(WithEarly(Ordered(r, p)), kind))
<1> DEFINE o == Ordered(r, p)
           q == WithEarly(o)
<1>1. /\ ReaderOK(o) /\ ~o.err /\ o.next - Len(o.buffer) = r.next - Len(r.buffer)
      /\ o.early = r.early
      /\ p.len = 0 => o.next = r.next /\ Len(o.buffer) = Len(r.buffer)
  BY OrderedIsOK
<1> HIDE DEF o
<1>2. /\ ReaderOK(q) /\ q.next - Len(q.buffer) = o.next - Len(o.buffer)
      /\ q.early \subseteq o.early
      /\ o.early \subseteq EmptyPackets => q.next = o.next /\ Len(q.buffer) = Len(o.buffer)
  BY <1>1, WithEarlyIsOK
<1> HIDE DEF q
<1>3. q \in Reader
  BY <1>2 DEF ReaderOK
<1>4. SameReader(q, Told(q, kind))
  BY <1>3, ToldIsSame
<1> DEFINE t == Told(q, kind)
<1>5. Grown(q, t) /\ StillEmpty(q, t) /\ SameReader(q, t)
  BY <1>2, <1>4, SameIsGrown
<1> HIDE DEF t
<1>6. Grown(r, t)
  BY <1>1, <1>2, <1>5 DEF Grown
<1>7. p \in EmptyPackets /\ r.early \subseteq EmptyPackets => StillEmpty(r, t)
  <2> SUFFICES ASSUME p \in EmptyPackets, r.early \subseteq EmptyPackets
               PROVE  StillEmpty(r, t)
    OBVIOUS
  <2>1. q.next = r.next /\ Len(q.buffer) = Len(r.buffer) /\ q.early \subseteq EmptyPackets
    BY <1>1, <1>2 DEF EmptyPackets
  <2>2. q.buffer \in Seq(Int) /\ r.buffer \in Seq(Int)
    BY <1>3, ReaderFields DEF ReaderOK
  <2>3. r.buffer = <<>> => q.buffer = <<>>
    BY <2>1, <2>2
  <2> QED BY <1>5, <2>1, <2>3 DEF StillEmpty, SameReader
<1> QED BY <1>3, <1>6, <1>7 DEF o, q, t

LEMMA AnswerTyped ==
    ASSUME acks \in Seq(AckRecord), NEW a \in AckRecord, Answer(<<a>>)
    PROVE  acks' \in Seq(AckRecord)
BY DEF Answer

LEMMA AckTyped ==
    ASSUME NEW s \in Streams, NEW r \in Reader, NEW kind \in {"data", "fin", "cancel"}
    PROVE  Ack(s, r, kind) \in AckRecord
BY ReaderFields, JobStreamAssumption DEF Ack, AckRecord, Rwnd

LEMMA DataArrivesKeeps ==
    ASSUME JSInv, DataArrives
    PROVE  JSInv'
<1> DEFINE p  == Head(data)
           r  == readers[p.id]
           in == WithEarly(Ordered(r, p))
           Receiving == ~r.closed /\ ~r.eof /\ ~r.err
           kind == IF in.eof THEN "fin" ELSE "data"
<1>1. data # <<>> /\ data' = Tail(data)
      /\ UNCHANGED <<jobVars, conn, up, jobStreamId, loops, restart, storeVars>>
  BY DEF DataArrives
<1>2. p \in SentPackets /\ (restart.step \in Corked => p \in EmptyPackets)
  BY <1>1, TailTyped DEF JSInv, WireOK, CorkOK
<1>3. p.id \in Streams /\ p.seq \in Nat
  BY <1>2, PacketFields
<1>4. ReaderOK(r) /\ r \in Reader
  BY <1>3 DEF JSInv, ServerOK
<1>5. readers \in [Streams -> Reader] /\ total \in Nat /\ WireOK /\ acks \in Seq(AckRecord)
      /\ conn \in Streams
  BY DEF JSInv, ServerOK, ManagerOK, WireOK
<1>6. \A s \in Streams : Grown(readers[s], readers[s]) /\ StillEmpty(readers[s], readers[s])
  BY SameIsGrown DEF JSInv, ServerOK, SameReader
<1>7. restart.step \in {"prepare", "prepared"} /\ p.id = conn =>
         p \in EmptyPackets /\ r.early \subseteq EmptyPackets
  BY <1>2 DEF JSInv, RestartOK, Corked
<1>8. CASE UNCHANGED readers /\ acks' \in Seq(AckRecord)
  BY <1>1, <1>5, <1>6, <1>8, ReadersChange
<1>9. ASSUME NEW q, readers' = [readers EXCEPT ![p.id] = q], acks' \in Seq(AckRecord),
             Grown(r, q),
             restart.step \in {"prepare", "prepared"} /\ p.id = conn => StillEmpty(r, q)
      PROVE  JSInv'
  <2>1. q \in Reader
    BY <1>9 DEF Grown, ReaderOK
  <2>2. readers' \in [Streams -> Reader]
        /\ \A s \in Streams : readers'[s] = IF s = p.id THEN q ELSE readers[s]
    BY <1>5, <1>9, <2>1
  <2> QED BY <1>1, <1>5, <1>6, <1>9, <2>2, ReadersChange
<1>10. CASE ~r.known
  <2> DEFINE a == [id |-> p.id, seq |-> p.seq, rwnd |-> 0, kind |-> "cancel"]
  <2>1. UNCHANGED readers /\ (UNCHANGED acks \/ Answer(<<a>>))
    BY <1>10 DEF DataArrives
  <2>2. a \in AckRecord
    BY <1>3 DEF AckRecord
  <2> HIDE DEF a
  <2>3. acks' \in Seq(AckRecord)
    BY <1>5, <2>1, <2>2, AnswerTyped
  <2> QED BY <1>8, <2>1, <2>3
<1>11. CASE r.known /\ Receiving /\ p.kind = "error"
  <2> DEFINE q == Told([r EXCEPT !.err = TRUE], "fin")
             a == Ack(p.id, r, "fin")
  <2>1. readers' = [readers EXCEPT ![p.id] = q] /\ Answer(<<a>>)
    BY <1>11 DEF DataArrives
  <2>2. Grown(r, q) /\ StillEmpty(r, q)
    BY <1>4, <1>11, FailedIsGrown
  <2>3. a \in AckRecord
    BY <1>3, <1>4, AckTyped
  <2> HIDE DEF q, a
  <2> QED BY <1>5, <1>9, <2>1, <2>2, <2>3, AnswerTyped
<1>12. CASE r.known /\ Receiving /\ p.kind # "error" /\ p.seq > r.next
  <2> DEFINE q == [r EXCEPT !.early = @ \cup {p}]
  <2>0. p.seq # r.next
    BY <1>3, <1>4, <1>12, ReaderFields
  <2>1. readers' = [readers EXCEPT ![p.id].early = @ \cup {p}] /\ UNCHANGED acks
    BY <1>12, <2>0 DEF DataArrives
  <2>2. readers' = [readers EXCEPT ![p.id] = q]
    BY <2>1
  <2>3. Grown(r, q) /\ (p \in EmptyPackets => StillEmpty(r, q))
    BY <1>2, <1>4, <1>12, EarlyIsGrown
  <2> HIDE DEF q
  <2> QED BY <1>5, <1>7, <1>9, <2>1, <2>2, <2>3
<1>13. CASE r.known /\ Receiving /\ p.kind # "error" /\ p.seq = r.next
  <2> DEFINE q == Told(in, kind)
             a == Ack(p.id, in, kind)
  <2>1. readers' = [readers EXCEPT ![p.id] = q] /\ Answer(<<a>>)
    BY <1>3, <1>4, <1>13, ReaderFields DEF DataArrives
  <2>2. in \in Reader /\ Grown(r, q)
        /\ (p \in EmptyPackets /\ r.early \subseteq EmptyPackets => StillEmpty(r, q))
    BY <1>2, <1>4, <1>5, <1>13, OrderedIsGrown
  <2>3. a \in AckRecord
    BY <1>3, <2>2, AckTyped
  <2> HIDE DEF q, a
  <2> QED BY <1>5, <1>7, <1>9, <2>1, <2>2, <2>3, AnswerTyped
<1>14. CASE /\ ~(~r.known) /\ ~(r.known /\ Receiving /\ p.kind = "error")
            /\ ~(r.known /\ Receiving /\ p.kind # "error" /\ p.seq > r.next)
            /\ ~(r.known /\ Receiving /\ p.kind # "error" /\ p.seq = r.next)
  <2>1. UNCHANGED <<readers, acks>>
    BY <1>14 DEF DataArrives
  <2> QED BY <1>5, <1>8, <2>1
<1> QED BY <1>10, <1>11, <1>12, <1>13, <1>14

-----------------------------------------------------------------------------
(* The output loops *)

LEMMA LoopFields ==
    ASSUME NEW l \in Loop
    PROVE  l.chunk \in Seq(Int) /\ Len(l.chunk) \in Nat /\ l.ended \in BOOLEAN
BY DEF Loop

MovedLoop(m, step, chunk, ended) ==
    m \in Loop /\ m.step = step /\ m.chunk = chunk /\ m.ended = ended

LEMMA LoopStops == NoLoop \in Loop /\ MovedLoop(NoLoop, "none", <<>>, FALSE)
BY DEF NoLoop, Loop, MovedLoop

LEMMA LoopStarts == AtRead \in Loop /\ MovedLoop(AtRead, "read", <<>>, FALSE)
BY LoopStops DEF AtRead, Loop, MovedLoop

(* What a step of output loops must respect when the file stays the same *)
LEMMA LoopsMove ==
    ASSUME JSInv,
           UNCHANGED <<jobVars, conn, up, data, jobStreamId, restart, file, totalGap, disk>>,
           readers' \in [Streams -> Reader], loops' \in [Streams -> Loop],
           acks' \in Seq(AckRecord),
           \A s \in Streams : ReaderOK(readers'[s]) /\ LoopOK(loops'[s], readers'[s]),
           \A s \in Streams : loops[s].step = "none" =>
               loops'[s].step = "none" /\ readers'[s] = readers[s],
           \A s \in Streams : loops'[s].step # "none" =>
               Place(loops'[s], readers'[s]) = Place(loops[s], readers[s]),
           \A s \in Streams : loops'[s].step = "end" /\ readers'[s].eof => Stored = total
    PROVE  JSInv'
<1>1. SentPackets' = SentPackets /\ EmptyPackets' = EmptyPackets /\ Stored' = Stored
  BY SamePackets DEF Stored
<1>2. ManagerOK'
  BY DEF JSInv, ManagerOK
<1>3. WireOK' /\ CorkOK'
  BY <1>1 DEF JSInv, WireOK, CorkOK
<1>4. ServerOK'
  <2>1. \A s \in Streams : ReaderOK(readers'[s]) <=> ReaderOK(readers[s])'
    BY <1>1 DEF ReaderOK
  <2>2. \A s \in Streams : LoopOK(loops'[s], readers'[s]) <=> LoopOK(loops[s], readers[s])'
    BY DEF LoopOK, Place
  <2> QED BY <2>1, <2>2 DEF JSInv, ServerOK
<1>5. RestartOK'
  <2>1. restart.step # "none" => loops'[conn].step = "none" /\ readers'[conn] = readers[conn]
    BY DEF JSInv, RestartOK, WireOK
  <2> QED BY <1>1, <2>1 DEF JSInv, RestartOK, Adopted
<1>6. StoreOK'
  <2>1. jobStreamId # 0 => jobStreamId \in Streams
    BY JobStreamAssumption DEF JSInv, ServerOK, WireOK, Streams
  <2>2. \A f, g : FileOK(f, g)' <=> FileOK(f, g)
    BY DEF FileOK
  <2>3. jobStreamId # 0 /\ loops'[jobStreamId].step # "none" =>
           Place(loops'[jobStreamId], readers'[jobStreamId]) = Stored
    BY <2>1 DEF JSInv, StoreOK
  <2> QED BY <1>1, <2>2, <2>3 DEF JSInv, StoreOK, Place
<1> QED BY <1>2, <1>3, <1>4, <1>5, <1>6 DEF JSInv

LEMMA LoopReadsKeeps ==
    ASSUME JSInv, NEW s \in Streams, LoopReads(s)
    PROVE  JSInv'
<1> DEFINE r == readers[s]
           l == loops[s]
           n == Smaller(ChunkSize, Len(r.buffer))
           chunk == SubSeq(r.buffer, 1, n)
           left  == SubSeq(r.buffer, n + 1, Len(r.buffer))
           rest  == [r EXCEPT !.buffer = left]
<1>1. /\ l.step = "read"
      /\ UNCHANGED <<jobVars, conn, up, data, jobStreamId, restart, storeVars>>
  BY DEF LoopReads
<1>2. ReaderOK(r) /\ LoopOK(l, r) /\ r \in Reader /\ l \in Loop
      /\ readers \in [Streams -> Reader] /\ loops \in [Streams -> Loop]
  BY DEF JSInv, ServerOK
<1>3. WireOK /\ acks \in Seq(AckRecord)
  BY DEF JSInv, WireOK
<1>4. l.chunk = <<>> /\ l.ended = FALSE
  BY <1>1, <1>2, LoopFields DEF LoopOK
<1>5. r.next \in Nat /\ Len(r.buffer) \in Nat /\ r.buffer \in Seq(Int)
  BY <1>2, ReaderFields
<1>6. Place(l, r) = r.next - Len(r.buffer)
  BY <1>4, <1>5 DEF Place
<1>7. ASSUME NEW q, NEW m, readers' = [readers EXCEPT ![s] = q], loops' = [loops EXCEPT ![s] = m],
             m \in Loop, m.step = "check", ReaderOK(q), LoopOK(m, q), Place(m, q) = Place(l, r),
             acks' \in Seq(AckRecord)
      PROVE  JSInv'
  <2>1. q \in Reader
    BY <1>7 DEF ReaderOK
  <2>2. readers' \in [Streams -> Reader] /\ loops' \in [Streams -> Loop]
        /\ \A x \in Streams : /\ readers'[x] = IF x = s THEN q ELSE readers[x]
                              /\ loops'[x] = IF x = s THEN m ELSE loops[x]
    BY <1>2, <1>7, <2>1
  <2>3. \A x \in Streams : ReaderOK(readers'[x]) /\ LoopOK(loops'[x], readers'[x])
    BY <1>7, <2>2 DEF JSInv, ServerOK
  <2>4. \A x \in Streams : loops'[x].step = "end" /\ readers'[x].eof => Stored = total
    BY <1>7, <2>2 DEF JSInv, StoreOK
  <2> HIDE DEF r, l
  <2> QED BY <1>1, <1>7, <2>2, <2>3, <2>4, LoopsMove DEF r, l
<1>8. CASE ReadEnds(r)
  <2> DEFINE m == [l EXCEPT !.step = "check", !.ended = TRUE]
  <2>1. loops' = [loops EXCEPT ![s] = m] /\ UNCHANGED <<readers, acks>>
    BY <1>8 DEF LoopReads
  <2>2. MovedLoop(m, "check", <<>>, TRUE)
    BY <1>2, <1>4 DEF Loop, MovedLoop
  <2> HIDE DEF m
  <2>3. Place(m, r) = Place(l, r)
    BY <1>4, <2>2 DEF Place, MovedLoop
  <2>4. LoopOK(m, r)
    BY <1>2, <1>4, <1>8, <2>2, <2>3 DEF LoopOK, MovedLoop, ReadEnds
  <2>5. readers' = [readers EXCEPT ![s] = r]
    BY <1>2, <2>1
  <2> QED BY <1>2, <1>3, <1>7, <2>1, <2>2, <2>3, <2>4, <2>5 DEF MovedLoop
<1>9. CASE ~ReadEnds(r)
  <2> DEFINE m == [l EXCEPT !.step = "check", !.chunk = chunk]
  <2>1. n > 0 /\ loops' = [loops EXCEPT ![s] = m]
        /\ \/ Answer(<<Ack(s, rest, "data")>>) /\ readers' = [readers EXCEPT ![s] = Told(rest, "data")]
           \/ readers' = [readers EXCEPT ![s] = rest] /\ UNCHANGED acks
    BY <1>9 DEF LoopReads
  <2>2. n \in 0..Len(r.buffer)
    BY <1>5, <2>1, JobStreamAssumption DEF Smaller
  <2> HIDE DEF n
  <2>3. /\ Contiguous(chunk, r.next - Len(r.buffer)) /\ Len(chunk) = n
        /\ Contiguous(left, r.next - Len(r.buffer) + n) /\ Len(left) = Len(r.buffer) - n
    <3>1. Contiguous(r.buffer, r.next - Len(r.buffer)) /\ r.next - Len(r.buffer) \in Int
      BY <1>2, <1>5 DEF ReaderOK
    <3> QED BY <2>2, <3>1, ContiguousParts
  <2>4. chunk \in Seq(Int) /\ left \in Seq(Int)
    BY <2>3 DEF Contiguous
  <2> HIDE DEF chunk, left
  <2>5. MovedLoop(m, "check", chunk, FALSE)
    BY <1>2, <1>4, <2>4 DEF Loop, MovedLoop
  <2> HIDE DEF m
  <2>6. /\ rest \in Reader /\ rest.next = r.next /\ rest.buffer = left /\ rest.early = r.early
        /\ rest.eof = r.eof /\ rest.err = r.err
    BY <1>2, <2>4 DEF Reader
  <2> HIDE DEF rest
  <2>7. ReaderOK(rest)
    <3>1. r.next - Len(r.buffer) + n = r.next - Len(left)
      BY <1>5, <2>2, <2>3
    <3> QED BY <1>2, <2>3, <2>6, <3>1 DEF ReaderOK
  <2>8. ASSUME NEW q, SameReader(rest, q), readers' = [readers EXCEPT ![s] = q],
               acks' \in Seq(AckRecord)
        PROVE  JSInv'
    <3>1. ReaderOK(q) /\ q.next = r.next /\ q.buffer = left
      BY <2>6, <2>7, <2>8, SameIsOK DEF SameReader
    <3>2. Place(m, q) = r.next - Len(r.buffer)
      BY <1>5, <2>2, <2>3, <2>5, <3>1 DEF Place, MovedLoop
    <3>3. LoopOK(m, q)
      BY <2>3, <2>5, <3>2 DEF LoopOK, MovedLoop
    <3> QED BY <1>6, <1>7, <2>1, <2>5, <2>8, <3>1, <3>2, <3>3 DEF MovedLoop
  <2>9. SameReader(rest, rest) /\ SameReader(rest, Told(rest, "data"))
    BY <2>6, ToldIsSame DEF SameReader
  <2>10. Ack(s, rest, "data") \in AckRecord
    BY <2>6, AckTyped
  <2> QED BY <1>3, <2>1, <2>8, <2>9, <2>10, AnswerTyped
<1> QED BY <1>8, <1>9

(* A loop that ends closes its Reader. *)
LEMMA LoopLeavesKeeps ==
    ASSUME JSInv, NEW s \in Streams, loops[s].step # "none",
           CloseReader(s), loops' = [loops EXCEPT ![s] = NoLoop],
           UNCHANGED <<jobVars, conn, up, data, jobStreamId, restart, file, totalGap, disk>>
    PROVE  JSInv'
<1>1. /\ readers \in [Streams -> Reader] /\ loops \in [Streams -> Loop]
      /\ \A x \in Streams : ReaderOK(readers[x]) /\ LoopOK(loops[x], readers[x])
  BY DEF JSInv, ServerOK
<1>2. /\ WireOK /\ acks \in Seq(AckRecord)
      /\ \A x \in Streams : loops[x].step = "end" /\ readers[x].eof => Stored = total
  BY DEF JSInv, WireOK, StoreOK
<1>3. /\ readers' \in [Streams -> Reader] /\ acks' \in Seq(AckRecord)
      /\ \A x \in Streams : SameReader(readers[x], readers'[x])
  BY <1>1, <1>2, CloseReaderEffect
<1>4. \A x \in Streams : x # s => readers'[x] = readers[x]
  BY <1>1 DEF CloseReader
<1>5. /\ loops' \in [Streams -> Loop]
      /\ \A x \in Streams : loops'[x] = IF x = s THEN NoLoop ELSE loops[x]
  BY <1>1, LoopStops
<1>6. ASSUME NEW x \in Streams
      PROVE  ReaderOK(readers'[x]) /\ LoopOK(loops'[x], readers'[x])
  <2>1. ReaderOK(readers'[x]) /\ Grown(readers[x], readers'[x])
    BY <1>1, <1>3, SameIsGrown DEF Grown
  <2>2. Place(NoLoop, readers'[x]) \in Int
    BY <1>3, ReaderFields, LoopStops DEF Place, MovedLoop
  <2>3. LoopOK(NoLoop, readers'[x])
    BY <2>2, LoopStops, EmptyContiguous DEF LoopOK, MovedLoop
  <2> QED BY <1>1, <1>5, <2>1, <2>3, LoopStaysOK
<1>7. NoLoop.step = "none"
  BY DEF NoLoop
<1>8. \A x \in Streams : loops[x].step = "none" =>
         loops'[x].step = "none" /\ readers'[x] = readers[x]
  BY <1>4, <1>5
<1> QED BY <1>2, <1>3, <1>4, <1>5, <1>6, <1>7, <1>8, LoopsMove

LEMMA LoopChecksKeeps ==
    ASSUME JSInv, NEW s \in Streams, LoopChecks(s)
    PROVE  JSInv'
<1> DEFINE l == loops[s]
<1>1. /\ l.step = "check"
      /\ UNCHANGED <<jobVars, conn, up, data, jobStreamId, restart, storeVars>>
  BY DEF LoopChecks
<1>2. /\ readers \in [Streams -> Reader] /\ loops \in [Streams -> Loop] /\ l \in Loop
      /\ \A x \in Streams : ReaderOK(readers[x]) /\ LoopOK(loops[x], readers[x])
  BY DEF JSInv, ServerOK
<1>3. /\ WireOK /\ acks \in Seq(AckRecord)
      /\ \A x \in Streams : loops[x].step = "end" /\ readers[x].eof => Stored = total
  BY DEF JSInv, WireOK, StoreOK
<1>4. CASE ~IsJobStream(s)
  <2>1. CloseReader(s) /\ loops' = [loops EXCEPT ![s] = NoLoop]
    BY <1>4 DEF LoopChecks
  <2> QED BY <1>1, <2>1, LoopLeavesKeeps
<1>5. CASE IsJobStream(s)
  <2> DEFINE step == IF l.ended THEN "end" ELSE "append"
             m == [l EXCEPT !.step = step]
  <2>1. loops' = [loops EXCEPT ![s] = m] /\ UNCHANGED <<readers, acks>>
    BY <1>5 DEF LoopChecks
  <2>2. MovedLoop(m, step, l.chunk, l.ended) /\ step \in {"end", "append"} /\ (step = "end" <=> l.ended)
    BY <1>2, LoopFields DEF Loop, MovedLoop
  <2> HIDE DEF m, step
  <2>3. /\ loops' \in [Streams -> Loop]
        /\ \A x \in Streams : loops'[x] = IF x = s THEN m ELSE loops[x]
    BY <1>2, <2>1, <2>2 DEF MovedLoop
  <2>4. Place(m, readers[s]) = Place(l, readers[s])
    BY <2>2 DEF Place, MovedLoop
  <2>5. LoopOK(m, readers[s])
    BY <1>2, <2>2, <2>4 DEF LoopOK, MovedLoop
  <2>6. s = jobStreamId /\ s # 0
    BY <1>5, JobStreamAssumption DEF IsJobStream, Streams
  <2>7. m.step = "end" /\ readers[s].eof => Stored = total
    <3> SUFFICES ASSUME m.step = "end", readers[s].eof PROVE Stored = total
      OBVIOUS
    <3>1. l.ended
      BY <2>2 DEF MovedLoop
    <3>2. l.chunk = <<>> /\ readers[s].buffer = <<>> /\ readers[s].next = total
      BY <1>2, <3>1 DEF LoopOK, ReaderOK
    <3>3. Place(l, readers[s]) = Stored
      BY <1>1, <2>6 DEF JSInv, StoreOK
    <3> QED BY <3>2, <3>3, Bounds DEF Place
  <2>8. \A x \in Streams : loops'[x].step # "none" =>
           Place(loops'[x], readers'[x]) = Place(loops[x], readers[x])
    BY <2>1, <2>3, <2>4
  <2>9. m.step # "none"
    BY <2>2 DEF MovedLoop
  <2> QED BY <1>1, <1>2, <1>3, <2>1, <2>3, <2>5, <2>6, <2>7, <2>8, <2>9, LoopsMove
<1> QED BY <1>4, <1>5

LEMMA LoopEndsKeeps ==
    ASSUME JSInv, NEW s \in Streams, LoopEnds(s)
    PROVE  JSInv'
BY LoopLeavesKeeps DEF LoopEnds

(* What a file becomes when bytes are appended just where it ends *)
LEMMA FileGrows ==
    ASSUME NEW g \in Nat, NEW f, FileOK(f, g), NEW q, Contiguous(q, Len(f) + g),
           Len(f) + g + Len(q) <= total
    PROVE  FileOK(f \o q, g) /\ Len(f \o q) = Len(f) + Len(q)
<1>1. f \in Seq(Int) /\ q \in Seq(Int) /\ Len(f) \in Nat /\ Len(q) \in Nat
  BY DEF FileOK, Contiguous
<1> DEFINE h == f \o q
<1>2. /\ h \in Seq(Int) /\ Len(h) = Len(f) + Len(q)
      /\ \A i \in 1..Len(f) : h[i] = f[i]
      /\ \A i \in 1..Len(q) : h[Len(f) + i] = q[i]
  BY <1>1
<1> HIDE DEF h
<1>3. \A i \in 1..Len(q) : h[Len(f) + i] = Len(f) + g + i - 1
  BY <1>2 DEF Contiguous
<1>4. f # <<>> => f[Len(f)] < Len(f) + g /\ Len(f) \in 1..Len(f) /\ f[Len(f)] \in Int
  BY <1>1 DEF FileOK
<1>5. ASSUME NEW i \in 1..(Len(h) - 1)
      PROVE  h[i] < h[i + 1]
  <2>1. CASE i < Len(f)
    <3>1. i \in 1..Len(f) /\ i + 1 \in 1..Len(f) /\ i \in 1..(Len(f) - 1)
      BY <1>1, <2>1
    <3> QED BY <1>2, <3>1 DEF FileOK
  <2>2. CASE i = Len(f)
    <3>1. 1 \in 1..Len(q) /\ f # <<>>
      BY <1>1, <1>2, <2>2
    <3>2. h[i] = f[Len(f)]
      BY <1>2, <1>4, <2>2, <3>1
    <3>3. h[i + 1] = Len(f) + g
      BY <1>1, <1>3, <2>2, <3>1
    <3> QED BY <1>4, <3>1, <3>2, <3>3
  <2>3. CASE i > Len(f)
    <3>1. i - Len(f) \in 1..Len(q) /\ i - Len(f) + 1 \in 1..Len(q)
      BY <1>1, <1>2, <2>3
    <3>2. h[Len(f) + (i - Len(f))] = Len(f) + g + (i - Len(f)) - 1
          /\ h[Len(f) + (i - Len(f) + 1)] = Len(f) + g + (i - Len(f) + 1) - 1
      BY <1>3, <3>1
    <3>3. i \in Int /\ Len(f) + (i - Len(f)) = i /\ Len(f) + (i - Len(f) + 1) = i + 1
      BY <1>1, <1>2
    <3>4. h[i] = Len(f) + g + (i - Len(f)) - 1 /\ h[i + 1] = Len(f) + g + (i - Len(f) + 1) - 1
      BY <3>2, <3>3
    <3> QED BY <1>1, <3>3, <3>4
  <2> QED BY <1>1, <2>1, <2>2, <2>3
<1>6. h # <<>> => h[Len(h)] < Len(h) + g
  <2>1. CASE Len(q) = 0
    BY <1>1, <1>2, <1>4, <2>1
  <2>2. CASE Len(q) > 0
    <3>1. Len(q) \in 1..Len(q)
      BY <1>1, <2>2
    <3>2. h[Len(h)] = Len(f) + g + Len(q) - 1
      BY <1>2, <1>3, <3>1
    <3> QED BY <1>1, <1>2, <3>2
  <2> QED BY <1>1, <2>1, <2>2
<1>7. Len(h) + g <= total
  BY <1>1, <1>2
<1> QED BY <1>2, <1>5, <1>6, <1>7 DEF FileOK, h

(* An append that is not late lands where the file ends. *)
LEMMA LoopAppendsKeeps ==
    ASSUME JSInv, NEW s \in Streams, LoopAppends(s), ~lateAppend'
    PROVE  JSInv'
<1> DEFINE r == readers[s]
           l == loops[s]
<1>1. /\ l.step = "append" /\ file' = file \o l.chunk
      /\ loops' = [loops EXCEPT ![s] = AtRead]
      /\ UNCHANGED <<jobVars, connVars, jobStreamId, readers, restart, totalGap, disk>>
      /\ s = jobStreamId /\ restart.step # "create"
  BY DEF LoopAppends, Overtaken, IsJobStream
<1>2. /\ readers \in [Streams -> Reader] /\ loops \in [Streams -> Loop]
      /\ \A x \in Streams : ReaderOK(readers[x]) /\ LoopOK(loops[x], readers[x])
      /\ s = jobStreamId /\ s # 0
  BY <1>1, JobStreamAssumption DEF JSInv, ServerOK, Streams
<1>3. restart.step \in {"none", "stat"}
  <2>1. restart.step \notin Adopted
    BY <1>1, <1>2 DEF JSInv, RestartOK, Adopted
  <2> QED BY <1>1, <2>1 DEF JSInv, RestartOK, Restart, Corked, Adopted
<1>4. /\ r.next \in Nat /\ Len(r.buffer) \in Nat /\ r.next <= total
      /\ Len(l.chunk) \in Nat /\ l.chunk \in Seq(Int)
  BY <1>2, ReaderFields, LoopFields DEF ReaderOK
<1>5. Place(l, r) = Stored /\ FileOK(file, totalGap) /\ totalGap \in Nat
  BY <1>1, <1>2 DEF JSInv, StoreOK, FileOK
<1>6. Contiguous(l.chunk, Len(file) + totalGap)
  BY <1>2, <1>5 DEF LoopOK, Stored
<1>7. Len(file) \in Nat /\ Stored + Len(l.chunk) <= total /\ Stored = Len(file) + totalGap
  <2>1. Len(file) \in Nat /\ Stored \in Nat /\ Stored = Len(file) + totalGap
    BY StoreTyped DEF JSInv, Stored
  <2>2. r.next - Len(r.buffer) - Len(l.chunk) = Stored
    BY <1>5 DEF Place
  <2>3. total \in Nat
    BY Bounds
  <2> HIDE DEF r, l
  <2> DEFINE n == r.next
             b == Len(r.buffer)
             c == Len(l.chunk)
  <2>4. n \in Nat /\ b \in Nat /\ c \in Nat /\ n <= total /\ n - b - c = Stored
    BY <1>4, <2>2
  <2> HIDE DEF n, b, c
  <2>5. Stored + c <= total
    BY <2>1, <2>3, <2>4
  <2> QED BY <2>1, <2>5 DEF c
<1>8. FileOK(file', totalGap) /\ Stored' = Stored + Len(l.chunk)
  <2>1. Len(file) + totalGap + Len(l.chunk) <= total
    BY <1>7
  <2>2. FileOK(file', totalGap) /\ Len(file') = Len(file) + Len(l.chunk)
    BY <1>1, <1>5, <1>6, <2>1, FileGrows
  <2>3. Stored' = Len(file') + totalGap
    BY <1>1 DEF Stored
  <2>4. Stored' = Len(file) + Len(l.chunk) + totalGap
    BY <2>2, <2>3
  <2>5. Len(file) + Len(l.chunk) + totalGap = Len(file) + totalGap + Len(l.chunk)
    <3>1. \A a, b, c \in Nat : a + b + c = a + c + b
      OBVIOUS
    <3> QED BY <1>4, <1>5, <1>7, <3>1, Zenon
  <2>6. Stored' = Stored + Len(l.chunk)
    BY <1>7, <2>4, <2>5
  <2> QED BY <2>2, <2>6
<1>9. SentPackets' = SentPackets /\ EmptyPackets' = EmptyPackets
  BY <1>1, SamePackets
<1>10. /\ loops' \in [Streams -> Loop]
       /\ \A x \in Streams : loops'[x] = IF x = s THEN AtRead ELSE loops[x]
  BY <1>1, <1>2, LoopStarts
<1>11. Place(AtRead, r) = Stored' /\ LoopOK(AtRead, r)
  <2>1. Place(AtRead, r) = r.next - Len(r.buffer) /\ Place(l, r) = r.next - Len(r.buffer) - Len(l.chunk)
    BY <1>4, LoopStarts DEF Place, MovedLoop
  <2>2. Place(AtRead, r) \in Int /\ Place(AtRead, r) = Stored'
    <3> HIDE DEF r, l
    <3>1. Stored \in Nat
      BY <1>5, <1>7
    <3> QED BY <1>4, <1>5, <1>8, <2>1, <3>1
  <2> QED BY <2>2, LoopStarts, EmptyContiguous DEF LoopOK, MovedLoop
<1>12. ManagerOK' /\ WireOK' /\ CorkOK'
  BY <1>1, <1>9 DEF JSInv, ManagerOK, WireOK, CorkOK
<1>13. AtRead.step = "read"
  BY LoopStarts DEF MovedLoop
<1>14. ServerOK'
  <2>1. \A x \in Streams : ReaderOK(readers[x])' <=> ReaderOK(readers[x])
    BY <1>1, <1>9 DEF ReaderOK
  <2>2. \A x \in Streams : LoopOK(loops[x], readers[x])' <=> LoopOK(loops'[x], readers[x])
    BY <1>1 DEF LoopOK, Place
  <2>3. \A x \in Streams : LoopOK(loops'[x], readers[x])
    BY <1>2, <1>10, <1>11
  <2> QED BY <1>1, <1>2, <1>10, <1>13, <2>1, <2>2, <2>3 DEF JSInv, ServerOK
<1>15. RestartOK'
  <2>1. restart.step # "none" => conn \in Streams /\ conn # s
    BY <1>1 DEF JSInv, RestartOK, WireOK
  <2> QED BY <1>1, <1>3, <1>10, <2>1 DEF JSInv, RestartOK, Adopted
<1>16. ASSUME NEW x \in Streams, loops'[x].step = "end", readers[x].eof
       PROVE  Stored' = total
  <2>1. Stored = total
    BY <1>10, <1>13, <1>16 DEF JSInv, StoreOK
  <2> QED BY <1>4, <1>7, <1>8, <2>1
<1>17. StoreOK'
  <2>1. \A f, g : FileOK(f, g)' <=> FileOK(f, g)
    BY <1>1 DEF FileOK
  <2>2. Place(loops[s], readers[s])' = Place(AtRead, r)
    BY <1>1, <1>10 DEF Place
  <2> HIDE DEF r, l
  <2> QED BY <1>1, <1>2, <1>8, <1>11, <1>16, <2>1, <2>2 DEF JSInv, StoreOK
<1> QED BY <1>12, <1>14, <1>15, <1>17 DEF JSInv

-----------------------------------------------------------------------------
(* restartStreaming *)

LEMMA RestartFields ==
    ASSUME JSInv
    PROVE  /\ restart \in Restart /\ restart.seq \in Nat /\ restart.gap \in Nat
           /\ restart.answer \in Int
BY DEF JSInv, RestartOK, Restart

RestartAt(q, step, id, seq, gap) ==
    q \in Restart /\ q.step = step /\ q.id = id /\ q.seq = seq /\ q.gap = gap

LEMMA RestartStatsKeeps ==
    ASSUME JSInv, RestartStats
    PROVE  JSInv'
<1> DEFINE seq == Len(file) + totalGap
           q == [restart EXCEPT !.step = "create", !.seq = seq, !.gap = totalGap]
<1>1. /\ restart.step = "stat" /\ restart' = q
      /\ UNCHANGED <<jobVars, connVars, jobStreamId, readers, loops, storeVars>>
  BY DEF RestartStats
<1>2. seq \in Nat /\ totalGap \in Nat /\ seq = Stored
  BY StoreTyped DEF JSInv, Stored
<1> HIDE DEF seq
<1>3. RestartAt(q, "create", restart.id, seq, totalGap)
  BY <1>2, RestartFields DEF Restart, RestartAt, Corked
<1> HIDE DEF q
<1>4. restart'.step = "create" /\ restart'.id = conn /\ restart' \in Restart
      /\ restart'.seq = Stored /\ restart'.gap = totalGap /\ loops[conn].step = "none"
  BY <1>1, <1>2, <1>3 DEF RestartAt, JSInv, RestartOK
<1>5. SentPackets' = SentPackets /\ EmptyPackets' = EmptyPackets /\ Stored' = Stored
  BY <1>1, SamePackets DEF Stored
<1>6. ManagerOK' /\ WireOK' /\ CorkOK'
  BY <1>1, <1>4, <1>5 DEF JSInv, ManagerOK, WireOK, CorkOK, Corked
<1>7. RestartOK'
  BY <1>1, <1>4, <1>5 DEF RestartOK, Adopted
<1> QED BY <1>1, <1>6, <1>7, ServerUntouched DEF JSInv

LEMMA FreshReader ==
    ASSUME NEW seq \in Nat
    PROVE  /\ ReaderFrom(seq) \in Reader /\ ReaderFrom(seq).next = seq
           /\ ReaderFrom(seq).buffer = <<>> /\ ReaderFrom(seq).early = {}
           /\ ReaderFrom(seq).eof = FALSE
<1>1. NoReader \in Reader
  BY DEF NoReader, Reader
<1> DEFINE r == [NoReader EXCEPT !.known = TRUE, !.routed = TRUE]
           p == [r EXCEPT !.next = seq]
           q == [p EXCEPT !.rwndSent = RWnd]
<1>2. r \in Reader /\ r.buffer = <<>> /\ r.early = {} /\ r.eof = FALSE
  BY <1>1 DEF NoReader, Reader
<1>3. ReaderFrom(seq) = q
  BY DEF ReaderFrom
<1> HIDE DEF r
<1>4. /\ p \in Reader /\ p.next = seq /\ p.buffer = <<>> /\ p.early = {} /\ p.eof = FALSE
  BY <1>2 DEF Reader
<1> HIDE DEF p
<1>5. RWnd \in Int
  BY JobStreamAssumption
<1>6. /\ q \in Reader /\ q.next = seq /\ q.buffer = <<>> /\ q.early = {} /\ q.eof = FALSE
  BY <1>4, <1>5 DEF Reader
<1> QED BY <1>3, <1>6

LEMMA BareReaderOK ==
    ASSUME total \in Nat, NEW r \in Reader, r.buffer = <<>>, r.early \subseteq SentPackets,
           r.next <= total, r.eof => r.next = total /\ terminalEvent # "none" /\ ~r.err
    PROVE  ReaderOK(r)
BY EmptyContiguous, ReaderFields DEF ReaderOK

LEMMA IdleLoopOK ==
    ASSUME NEW r, NEW q, NEW l, LoopOK(l, r), l.step = "none", q \in Reader
    PROVE  LoopOK(l, q)
<1>1. l.chunk = <<>> /\ ~l.ended
  BY DEF LoopOK
<1>2. Place(l, q) \in Int
  BY <1>1, ReaderFields DEF Place
<1> QED BY <1>1, <1>2, EmptyContiguous DEF LoopOK

LEMMA RestartCreatesReaderKeeps ==
    ASSUME JSInv, RestartCreatesReader
    PROVE  JSInv'
<1> DEFINE r == ReaderFrom(restart.seq)
           q == [restart EXCEPT !.step = "prepare"]
<1>1. /\ restart.step = "create" /\ restart' = q
      /\ readers' = [readers EXCEPT ![restart.id] = r] /\ jobStreamId' = restart.id
      /\ UNCHANGED <<jobVars, connVars, loops, storeVars>>
  BY DEF RestartCreatesReader
<1>2. /\ restart.id = conn /\ conn \in Streams /\ conn \in 0..conn
      /\ loops[conn].step = "none"
      /\ restart.seq = Stored /\ restart.gap = totalGap /\ restart.seq \in Nat
  BY <1>1, RestartFields, Bounds DEF JSInv, RestartOK
<1>3. restart.seq <= total /\ total \in Nat
  BY <1>2, Bounds DEF JSInv, StoreOK, FileOK, Stored
<1>4. /\ r \in Reader /\ r.next = restart.seq /\ r.buffer = <<>> /\ r.early = {} /\ r.eof = FALSE
  BY <1>2, FreshReader
<1> HIDE DEF r
<1>5. ReaderOK(r)
  BY <1>3, <1>4, BareReaderOK
<1>6. RestartAt(q, "prepare", conn, restart.seq, restart.gap)
  BY <1>2, RestartFields DEF Restart, RestartAt, Corked
<1> HIDE DEF q
<1>7. SentPackets' = SentPackets /\ EmptyPackets' = EmptyPackets /\ Stored' = Stored
  BY <1>1, SamePackets DEF Stored
<1>8. ManagerOK' /\ WireOK' /\ CorkOK'
  BY <1>1, <1>6, <1>7 DEF JSInv, ManagerOK, WireOK, CorkOK, Corked, RestartAt
<1>9. /\ readers' \in [Streams -> Reader]
      /\ \A s \in Streams : readers'[s] = IF s = conn THEN r ELSE readers[s]
  BY <1>1, <1>2, <1>4 DEF JSInv, ServerOK
<1>10. ServerOK'
  <2>1. \A s \in Streams : LoopOK(loops[s], readers'[s])
    BY <1>2, <1>4, <1>9, IdleLoopOK DEF JSInv, ServerOK
  <2>2. \A s \in Streams : ReaderOK(readers'[s])
    BY <1>5, <1>9 DEF JSInv, ServerOK
  <2>3. \A s \in Streams : (ReaderOK(readers[s])' <=> ReaderOK(readers'[s]))
           /\ (LoopOK(loops[s], readers[s])' <=> LoopOK(loops[s], readers'[s]))
    BY <1>1, <1>7 DEF ReaderOK, LoopOK, Place
  <2> QED BY <1>1, <1>2, <1>9, <2>1, <2>2, <2>3 DEF JSInv, ServerOK
<1>11. RestartOK'
  BY <1>1, <1>2, <1>4, <1>6, <1>7, <1>9 DEF RestartOK, RestartAt, Adopted
<1>12. StoreOK'
  <2>1. \A f, g : FileOK(f, g)' <=> FileOK(f, g)
    BY <1>1 DEF FileOK
  <2>2. \A s \in Streams : loops[s].step = "end" => readers'[s] = readers[s]
    BY <1>2, <1>9
  <2> QED BY <1>1, <1>2, <1>7, <2>1, <2>2 DEF JSInv, StoreOK
<1> QED BY <1>8, <1>10, <1>11, <1>12 DEF JSInv

(* The restart is over, but for readers that may have been closed. *)
LEMMA RestartStopsKeeps ==
    ASSUME JSInv, restart' = NoRestart, CloseReader(restart.id), restart.step # "none",
           UNCHANGED <<jobVars, conn, up, data, jobStreamId, loops, file, totalGap, disk>>
    PROVE  JSInv'
<1>1. restart.id \in Streams
  BY Bounds DEF JSInv, RestartOK
<1>2. /\ readers' \in [Streams -> Reader] /\ acks' \in Seq(AckRecord)
      /\ \A x \in Streams : SameReader(readers[x], readers'[x])
  BY <1>1, CloseReaderEffect DEF JSInv, ServerOK, WireOK
<1>3. SentPackets' = SentPackets /\ EmptyPackets' = EmptyPackets /\ Stored' = Stored
  BY SamePackets DEF Stored
<1>4. NoRestart \in Restart /\ NoRestart.step = "none"
  BY JobStreamAssumption DEF NoRestart, Restart
<1>5. ManagerOK' /\ WireOK'
  BY <1>2, <1>3 DEF JSInv, ManagerOK, WireOK
<1>6. CorkOK' /\ RestartOK'
  BY <1>4 DEF CorkOK, RestartOK, Corked, Adopted
<1>7. ASSUME NEW s \in Streams
      PROVE  /\ ReaderOK(readers'[s]) /\ LoopOK(loops[s], readers'[s])
             /\ Place(loops[s], readers'[s]) = Place(loops[s], readers[s])
             /\ readers'[s].eof = readers[s].eof
  <2>1. SameReader(readers[s], readers'[s]) /\ ReaderOK(readers[s]) /\ LoopOK(loops[s], readers[s])
    BY <1>2 DEF JSInv, ServerOK
  <2>2. Grown(readers[s], readers'[s])
    BY <2>1, SameIsGrown
  <2> QED BY <2>1, <2>2, LoopStaysOK DEF SameReader, Grown
<1>8. ServerOK'
  <2>1. \A s \in Streams : (ReaderOK(readers[s])' <=> ReaderOK(readers'[s]))
           /\ (LoopOK(loops[s], readers[s])' <=> LoopOK(loops[s], readers'[s]))
    BY <1>3 DEF ReaderOK, LoopOK, Place
  <2> QED BY <1>2, <1>7, <2>1 DEF JSInv, ServerOK
<1>9. StoreOK'
  <2>1. jobStreamId # 0 => jobStreamId \in Streams
    BY JobStreamAssumption DEF JSInv, ServerOK, WireOK, Streams
  <2>2. \A s \in Streams : Place(loops[s], readers[s])' = Place(loops[s], readers'[s])
    BY DEF Place
  <2> QED BY <1>3, <1>7, <2>1, <2>2 DEF JSInv, StoreOK, FileOK
<1> QED BY <1>5, <1>6, <1>8, <1>9 DEF JSInv

LEMMA RestartFailsKeeps ==
    ASSUME JSInv, RestartFails
    PROVE  JSInv'
BY RestartStopsKeeps DEF RestartFails

LEMMA RestartPreparedKeeps ==
    ASSUME JSInv, RestartPrepared
    PROVE  JSInv'
<1> DEFINE gap == Larger(0, restart.answer - restart.seq)
           r == readers[conn]
           q == [r EXCEPT !.next = @ + gap]
           t == [restart EXCEPT !.step = "start"]
<1>1. restart.step = "prepared" /\ UNCHANGED <<jobVars, conn, up, data, jobStreamId, loops, file, disk>>
  BY DEF RestartPrepared
<1>2. CASE restart.answer = -1
  BY <1>1, <1>2, RestartStopsKeeps DEF RestartPrepared
<1>3. CASE restart.answer # -1
  <2>1. /\ totalGap' = GapRecorded(gap) /\ readers' = [readers EXCEPT ![restart.id].next = @ + gap]
        /\ restart' = t /\ UNCHANGED <<streamDone, acks>>
    BY <1>3 DEF RestartPrepared
  <2>2. /\ restart.id = conn /\ conn \in Streams /\ loops[conn].step = "none"
        /\ jobStreamId = conn
        /\ restart.seq = Stored /\ restart.gap = totalGap /\ restart.answer <= total
        /\ r.next = Stored /\ r.buffer = <<>>
    BY <1>1, Bounds DEF JSInv, RestartOK, Adopted
  <2>3. /\ Stored \in Nat /\ totalGap \in Nat /\ total \in Nat /\ Stored <= total
        /\ restart.answer \in Int /\ Len(file) \in Nat /\ Stored = Len(file) + totalGap
    BY StoreTyped, RestartFields, Bounds DEF JSInv, StoreOK, FileOK, Stored
  <2>4. gap \in Nat /\ Stored + gap <= total
    BY <2>2, <2>3 DEF Larger
  <2> HIDE DEF gap
  <2>5. totalGap' = totalGap + gap
    BY <2>1, <2>2, <2>3, <2>4 DEF GapRecorded
  <2>6. Stored' = Stored + gap
    BY <1>1, <2>3, <2>4, <2>5 DEF Stored
  <2>7. /\ q \in Reader /\ q.next = Stored + gap /\ q.buffer = <<>> /\ q.early = r.early
        /\ q.eof = r.eof /\ q.err = r.err
    <3>1. r \in Reader /\ Stored + gap \in Nat
      BY <2>2, <2>3, <2>4 DEF JSInv, ServerOK
    <3>2. q = [r EXCEPT !.next = Stored + gap]
      BY <2>2
    <3> HIDE DEF r, q
    <3> QED BY <2>2, <3>1, <3>2 DEF Reader
  <2>8. readers' = [readers EXCEPT ![conn] = q] /\ ReaderOK(r) /\ LoopOK(loops[conn], r)
    BY <2>1, <2>2 DEF JSInv, ServerOK
  <2> HIDE DEF q
  <2>9. /\ readers' \in [Streams -> Reader]
        /\ \A s \in Streams : readers'[s] = IF s = conn THEN q ELSE readers[s]
    BY <2>2, <2>7, <2>8 DEF JSInv, ServerOK
  <2>10. ReaderOK(q)
    <3>1. q.next <= total /\ q.early \subseteq SentPackets
      BY <2>4, <2>7, <2>8 DEF ReaderOK
    <3>2. q.eof => q.next = total /\ terminalEvent # "none" /\ ~q.err
      <4>1. r.eof => Stored = total /\ terminalEvent # "none" /\ ~r.err
        BY <2>2, <2>8 DEF ReaderOK
      <4>2. Stored = total => Stored + gap = total
        BY <2>3, <2>4
      <4> QED BY <2>7, <4>1, <4>2
    <3> QED BY <2>3, <2>7, <3>1, <3>2, BareReaderOK
  <2>11. RestartAt(t, "start", conn, restart.seq, restart.gap)
    BY <2>2, RestartFields DEF Restart, RestartAt, Corked
  <2> HIDE DEF t
  <2>12. SentPackets' = SentPackets /\ EmptyPackets' = EmptyPackets
    BY <1>1, SamePackets
  <2>13. ManagerOK' /\ WireOK' /\ CorkOK'
    BY <1>1, <2>1, <2>11, <2>12 DEF JSInv, ManagerOK, WireOK, CorkOK, Corked, RestartAt
  <2>14. ServerOK'
    <3>1. \A s \in Streams : ReaderOK(readers'[s]) /\ LoopOK(loops[s], readers'[s])
      BY <2>2, <2>7, <2>8, <2>9, <2>10, IdleLoopOK DEF JSInv, ServerOK
    <3>2. \A s \in Streams : (ReaderOK(readers[s])' <=> ReaderOK(readers'[s]))
             /\ (LoopOK(loops[s], readers[s])' <=> LoopOK(loops[s], readers'[s]))
      BY <1>1, <2>12 DEF ReaderOK, LoopOK, Place
    <3> QED BY <1>1, <2>9, <3>1, <3>2 DEF JSInv, ServerOK
  <2>15. RestartOK'
    <3>1. q.next - Len(q.buffer) = Stored + gap
      BY <2>3, <2>4, <2>7
    <3> QED BY <1>1, <2>1, <2>2, <2>6, <2>9, <2>11, <3>1 DEF RestartOK, RestartAt, Adopted
  <2>16. FileOK(file, totalGap + gap) /\ totalGap + gap \in Nat
    <3>1. FileOK(file, totalGap)
      BY DEF JSInv, StoreOK
    <3>2. file # <<>> => file[Len(file)] < Len(file) + (totalGap + gap)
      BY <2>3, <2>4, <3>1 DEF FileOK
    <3>3. Len(file) + (totalGap + gap) <= total /\ totalGap + gap \in Nat
      BY <2>3, <2>4
    <3> QED BY <3>1, <3>2, <3>3 DEF FileOK
  <2>17. StoreOK'
    <3>1. \A f, g : FileOK(f, g)' <=> FileOK(f, g)
      BY <1>1 DEF FileOK
    <3>2. ASSUME NEW s \in Streams, loops[s].step = "end", readers'[s].eof
          PROVE  Stored' = total
      <4>1. Stored = total
        BY <2>2, <2>9, <3>2 DEF JSInv, StoreOK
      <4> QED BY <2>3, <2>4, <2>6, <4>1
    <3> QED BY <1>1, <2>1, <2>2, <2>5, <2>16, <3>1, <3>2 DEF JSInv, StoreOK
  <2> QED BY <2>13, <2>14, <2>15, <2>17 DEF JSInv
<1> QED BY <1>2, <1>3

LEMMA RestartStartedKeeps ==
    ASSUME JSInv, RestartStarted
    PROVE  JSInv'
<1>1. /\ restart.step = "started" /\ restart' = NoRestart
      /\ loops' = [loops EXCEPT ![restart.id] = AtRead]
      /\ UNCHANGED <<jobVars, connVars, jobStreamId, readers, storeVars>>
  BY DEF RestartStarted
<1>2. /\ restart.id = conn /\ conn \in Streams /\ loops[conn].step = "none"
      /\ jobStreamId = conn
      /\ readers[conn].next - Len(readers[conn].buffer) = Stored
      /\ readers \in [Streams -> Reader] /\ loops \in [Streams -> Loop] /\ Stored \in Nat
  BY <1>1, Bounds, StoreTyped DEF JSInv, RestartOK, ServerOK, Adopted
<1>3. /\ loops' \in [Streams -> Loop]
      /\ \A s \in Streams : loops'[s] = IF s = conn THEN AtRead ELSE loops[s]
      /\ AtRead.step = "read"
  BY <1>1, <1>2, LoopStarts DEF MovedLoop
<1>4. Place(AtRead, readers[conn]) = Stored /\ LoopOK(AtRead, readers[conn])
  <2>1. Place(AtRead, readers[conn]) = Stored
    BY <1>2, LoopStarts, ReaderFields DEF Place, MovedLoop
  <2> QED BY <1>2, <2>1, LoopStarts, EmptyContiguous DEF LoopOK, MovedLoop
<1>5. SentPackets' = SentPackets /\ EmptyPackets' = EmptyPackets /\ Stored' = Stored
  BY <1>1, SamePackets DEF Stored
<1>6. NoRestart \in Restart /\ NoRestart.step = "none"
  BY JobStreamAssumption DEF NoRestart, Restart
<1>7. ManagerOK' /\ WireOK' /\ CorkOK' /\ RestartOK'
  BY <1>1, <1>5, <1>6 DEF JSInv, ManagerOK, WireOK, CorkOK, RestartOK, Corked, Adopted
<1>8. ServerOK'
  <2>1. \A s \in Streams : (ReaderOK(readers[s])' <=> ReaderOK(readers[s]))
           /\ (LoopOK(loops[s], readers[s])' <=> LoopOK(loops'[s], readers[s]))
    BY <1>1, <1>5 DEF ReaderOK, LoopOK, Place
  <2>2. ~(conn > conn)
    BY Bounds
  <2> QED BY <1>1, <1>3, <1>4, <2>1, <2>2 DEF JSInv, ServerOK
<1>9. StoreOK'
  <2>1. Place(loops[conn], readers[conn])' = Place(AtRead, readers[conn])
    BY <1>1, <1>2, <1>3 DEF Place
  <2>2. \A f, g : FileOK(f, g)' <=> FileOK(f, g)
    BY <1>1 DEF FileOK
  <2> QED BY <1>1, <1>2, <1>3, <1>4, <1>5, <2>1, <2>2 DEF JSInv, StoreOK
<1> QED BY <1>7, <1>8, <1>9 DEF JSInv

-----------------------------------------------------------------------------
(* Connections, the file store, and crashes *)

LEMMA ConnectionDropsKeeps ==
    ASSUME JSInv, ConnectionDrops
    PROVE  JSInv'
<1>1. /\ up' = FALSE /\ data' = <<>> /\ acks' = <<>>
      /\ UNCHANGED <<jobVars, conn, serverVars, storeVars>>
  BY DEF ConnectionDrops
<1>2. SentPackets' = SentPackets /\ EmptyPackets' = EmptyPackets
  BY <1>1, SamePackets
<1>3. data' \in Seq(SentPackets') /\ data' \in Seq(EmptyPackets') /\ acks' \in Seq(AckRecord)
  BY <1>1
<1>4. ManagerOK' /\ WireOK' /\ CorkOK'
  BY <1>1, <1>2, <1>3 DEF JSInv, ManagerOK, WireOK, CorkOK
<1> QED BY <1>1, <1>4, ServerUntouched DEF JSInv

(* A connection that was never used: its stream is unknown to all. *)
LEMMA ReconnectKeeps ==
    ASSUME JSInv, Reconnect
    PROVE  JSInv'
<1> DEFINE q == [NoRestart EXCEPT !.step = "stat", !.id = conn + 1]
<1>1. /\ ~up /\ conn < MaxConns /\ restart = NoRestart
      /\ conn' = conn + 1 /\ up' = TRUE /\ writers' = {} /\ restart' = q
      /\ UNCHANGED <<head, total, terminalEvent, source, pending, data, acks, jobStreamId,
                     readers, loops, storeVars>>
  BY DEF Reconnect
<1>2. conn + 1 \in Streams /\ conn + 1 \in 0..MaxConns /\ conn \in Nat
  BY <1>1, Bounds, JobStreamAssumption DEF Streams
<1>3. q \in Restart /\ q.step = "stat" /\ q.id = conn + 1
  <2> DEFINE t == [NoRestart EXCEPT !.step = "stat"]
  <2>1. NoRestart \in Restart
    BY JobStreamAssumption DEF NoRestart, Restart
  <2>2. t \in Restart /\ t.step = "stat"
    BY <2>1 DEF Restart, Corked
  <2>3. q = [t EXCEPT !.id = conn + 1]
    OBVIOUS
  <2> HIDE DEF q, t
  <2> QED BY <1>2, <2>2, <2>3 DEF Restart
<1> HIDE DEF q
<1>4. SentPackets' = SentPackets /\ EmptyPackets' = EmptyPackets /\ Stored' = Stored
  BY <1>1, SamePackets DEF Stored
<1>5. data = <<>>
  BY <1>1 DEF JSInv, WireOK
<1>6. source.id <= conn /\ source.id \in Nat /\ source.id # conn + 1
  BY <1>2, Bounds DEF JSInv, ManagerOK, Streams
<1>7. ManagerOK'
  BY <1>1, <1>2, <1>6 DEF JSInv, ManagerOK
<1>8. WireOK'
  BY <1>1, <1>2, <1>4, <1>5 DEF JSInv, WireOK
<1>9. CorkOK'
  BY <1>1, <1>3, <1>4, <1>5, <1>6 DEF CorkOK, Corked
<1>10. loops[conn + 1].step = "none"
  BY <1>2 DEF JSInv, ServerOK
<1>11. ServerOK'
  <2>1. \A s \in Streams : s > conn + 1 => s > conn
    BY <1>2 DEF Streams
  <2>2. jobStreamId \in 0..(conn + 1)
    BY <1>2 DEF JSInv, ServerOK
  <2> QED BY <1>1, <1>4, <2>1, <2>2 DEF JSInv, ServerOK, ReaderOK, LoopOK, Place
<1>12. RestartOK'
  BY <1>1, <1>3, <1>10 DEF RestartOK, Adopted
<1>13. StoreOK'
  BY <1>1, <1>4 DEF JSInv, StoreOK, FileOK, Place
<1> QED BY <1>7, <1>8, <1>9, <1>11, <1>12, <1>13 DEF JSInv

LEMMA FlushKeeps ==
    ASSUME JSInv, Flush
    PROVE  JSInv'
<1>1. /\ disk' = [file |-> file, gap |-> totalGap]
      /\ UNCHANGED <<jobVars, connVars, serverVars, file, totalGap>>
  BY DEF Flush, Flushed
<1>2. SentPackets' = SentPackets /\ EmptyPackets' = EmptyPackets /\ Stored' = Stored
  BY <1>1, SamePackets DEF Stored
<1>3. ManagerOK' /\ WireOK' /\ CorkOK' /\ RestartOK'
  BY <1>1, <1>2 DEF JSInv, ManagerOK, WireOK, CorkOK, RestartOK
<1>4. ServerOK'
  BY <1>1, <1>2 DEF JSInv, ServerOK, ReaderOK, LoopOK, Place
<1>5. StoreOK'
  <2>1. disk'.file = file /\ disk'.gap = totalGap /\ disk' = [file |-> disk'.file, gap |-> disk'.gap]
    BY <1>1
  <2>2. \A f, g : FileOK(f, g)' <=> FileOK(f, g)
    BY <1>1 DEF FileOK
  <2> QED BY <1>1, <1>2, <2>1, <2>2 DEF JSInv, StoreOK, Place
<1> QED BY <1>3, <1>4, <1>5 DEF JSInv

LEMMA BareServer ==
    ASSUME total \in Nat
    PROVE  ReaderOK(NoReader) /\ NoReader.eof = FALSE /\ LoopOK(NoLoop, NoReader)
<1>1. /\ NoReader \in Reader /\ NoReader.next = 0 /\ NoReader.buffer = <<>>
      /\ NoReader.early = {} /\ NoReader.eof = FALSE
  BY DEF NoReader, Reader
<1>2. ReaderOK(NoReader)
  BY <1>1, BareReaderOK
<1>3. Place(NoLoop, NoReader) \in Int
  BY <1>1, LoopStops DEF Place, MovedLoop
<1>4. LoopOK(NoLoop, NoReader)
  BY <1>3, LoopStops, EmptyContiguous DEF LoopOK, MovedLoop
<1> QED BY <1>1, <1>2, <1>4

LEMMA CrashKeeps ==
    ASSUME JSInv, Crash
    PROVE  JSInv'
<1>1. /\ up' = FALSE /\ data' = <<>> /\ acks' = <<>> /\ jobStreamId' = 0
      /\ readers' = [s \in Streams |-> NoReader] /\ loops' = [s \in Streams |-> NoLoop]
      /\ restart' = NoRestart /\ file' = disk.file /\ totalGap' = disk.gap
      /\ UNCHANGED <<jobVars, conn, disk>>
  BY DEF Crash
<1>2. SentPackets' = SentPackets /\ EmptyPackets' = EmptyPackets
  BY <1>1, SamePackets
<1>3. data' \in Seq(SentPackets') /\ acks' \in Seq(AckRecord)
  BY <1>1
<1>4. NoRestart \in Restart /\ NoRestart.step = "none" /\ NoLoop.step = "none" /\ NoLoop \in Loop
  BY JobStreamAssumption, LoopStops DEF NoRestart, Restart, MovedLoop
<1>5. ManagerOK' /\ WireOK' /\ CorkOK' /\ RestartOK'
  BY <1>1, <1>2, <1>3, <1>4
     DEF JSInv, ManagerOK, WireOK, CorkOK, RestartOK, Corked, Adopted
<1>6. total \in Nat /\ conn \in Nat
  BY Bounds
<1>7. ReaderOK(NoReader)' /\ NoReader \in Reader /\ LoopOK(NoLoop, NoReader) /\ NoReader.eof = FALSE
  BY <1>1, <1>2, <1>6, BareServer DEF ReaderOK
<1>8. ServerOK'
  BY <1>1, <1>4, <1>6, <1>7 DEF ServerOK
<1>9. StoreOK'
  BY <1>1, <1>4 DEF JSInv, StoreOK, FileOK
<1> QED BY <1>5, <1>8, <1>9 DEF JSInv

-----------------------------------------------------------------------------
(* The invariant *)

LEMMA JobStartedOK ==
    ASSUME JobStarted
    PROVE  JSInv
<1>1. 1 \in Streams /\ 0 \in 0..MaxConns /\ MaxConns \in Nat
  BY JobStreamAssumption DEF Streams
<1>2. ManagerOK
  BY <1>1, JobStreamAssumption DEF JobStarted, ManagerOK
<1>3. WireOK
  BY <1>1 DEF JobStarted, WireOK
<1>4. NoRestart \in Restart /\ NoRestart.step = "none"
  BY <1>1 DEF NoRestart, Restart
<1>5. CorkOK /\ RestartOK
  BY <1>4 DEF JobStarted, CorkOK, RestartOK, Corked, Adopted
<1>6. total = 0 /\ jobStreamId = 1 /\ conn = 1 /\ file = <<>> /\ totalGap = 0
      /\ disk = [file |-> <<>>, gap |-> 0]
      /\ readers = [s \in Streams |-> IF s = 1 THEN ReaderFrom(0) ELSE NoReader]
      /\ loops = [s \in Streams |-> IF s = 1 THEN AtRead ELSE NoLoop]
  BY DEF JobStarted
<1>7. LET r == ReaderFrom(0)
      IN  /\ r \in Reader /\ r.next = 0 /\ r.buffer = <<>> /\ r.early = {} /\ r.eof = FALSE
          /\ ReaderOK(r) /\ LoopOK(AtRead, r) /\ Place(AtRead, r) = 0
  <2> DEFINE r == ReaderFrom(0)
  <2>1. r \in Reader /\ r.next = 0 /\ r.buffer = <<>> /\ r.early = {} /\ r.eof = FALSE
    BY FreshReader
  <2> HIDE DEF r
  <2>2. ReaderOK(r)
    BY <1>6, <2>1, BareReaderOK
  <2>3. Place(AtRead, r) = 0
    <3>1. r.next - Len(r.buffer) - Len(AtRead.chunk) = 0 - 0 - 0
      BY <2>1, LoopStarts DEF MovedLoop
    <3> QED BY <3>1 DEF Place
  <2>4. LoopOK(AtRead, r)
    BY <2>3, LoopStarts, EmptyContiguous DEF LoopOK, MovedLoop
  <2> QED BY <2>1, <2>2, <2>3, <2>4 DEF r
<1>8. /\ NoReader \in Reader /\ ReaderOK(NoReader) /\ LoopOK(NoLoop, NoReader)
      /\ AtRead \in Loop /\ NoLoop \in Loop /\ AtRead.step = "read" /\ NoLoop.step = "none"
  BY <1>6, BareServer, LoopStarts, LoopStops DEF ReaderOK, MovedLoop
<1>9. ServerOK
  <2>1. \A s \in Streams : s > 1 => s # 1
    BY DEF Streams
  <2> QED BY <1>1, <1>6, <1>7, <1>8, <2>1 DEF ServerOK
<1>10. StoreOK
  <2>1. FileOK(<<>>, 0)
    BY <1>6 DEF FileOK
  <2>2. disk.file = <<>> /\ disk.gap = 0 /\ Stored = 0
    BY <1>6 DEF Stored
  <2>3. loops[1] = AtRead /\ readers[1] = ReaderFrom(0)
    BY <1>1, <1>6
  <2>4. \A s \in Streams : loops[s].step # "end"
    BY <1>6, <1>8
  <2> QED BY <1>6, <1>7, <2>1, <2>2, <2>3, <2>4 DEF StoreOK
<1> QED BY <1>2, <1>3, <1>5, <1>9, <1>10 DEF JSInv

LEMMA StutterKeeps ==
    ASSUME JSInv, UNCHANGED jsVars
    PROVE  JSInv'
<1>1. UNCHANGED <<jobVars, connVars, serverVars, storeVars>>
  BY DEF jsVars
<1>2. SentPackets' = SentPackets /\ EmptyPackets' = EmptyPackets
  BY <1>1, SamePackets
<1>3. ManagerOK' /\ WireOK' /\ CorkOK'
  BY <1>1, <1>2 DEF JSInv, ManagerOK, WireOK, CorkOK
<1> QED BY <1>1, <1>3, ServerUntouched DEF JSInv

LEMMA StepKeeps ==
    ASSUME JSInv, ~lateAppend', [JSNext]_jsVars
    PROVE  JSInv'
<1>1. CASE JobManagerSteps
  BY <1>1, ProgramWritesKeeps, SendDataKeeps, SendTerminalKeeps, ProgramEndsKeeps,
     AckArrivesKeeps, PrepareConnectKeeps, StartStreamKeeps DEF JobManagerSteps
<1>2. CASE DataArrives
  BY <1>2, DataArrivesKeeps
<1>3. CASE \E s \in Streams : OutputLoop(s)
  BY <1>3, LoopReadsKeeps, LoopChecksKeeps, LoopAppendsKeeps, LoopEndsKeeps DEF OutputLoop
<1>4. CASE RestartStreaming
  BY <1>4, RestartStatsKeeps, RestartCreatesReaderKeeps, RestartPreparedKeeps,
     RestartStartedKeeps, RestartFailsKeeps DEF RestartStreaming
<1>5. CASE ConnectionDrops
  BY <1>5, ConnectionDropsKeeps
<1>6. CASE Reconnect
  BY <1>6, ReconnectKeeps
<1>7. CASE Flush
  BY <1>7, FlushKeeps
<1>8. CASE Crash
  BY <1>8, CrashKeeps
<1>9. CASE UNCHANGED jsVars
  BY <1>9, StutterKeeps
<1> QED BY <1>1, <1>2, <1>3, <1>4, <1>5, <1>6, <1>7, <1>8, <1>9 DEF JSNext

(* The history is kept: what has been late stays late. *)
LEMMA LateStays == lateAppend /\ [JSNext]_jsVars => lateAppend'
<1> SUFFICES ASSUME lateAppend, [JSNext]_jsVars PROVE lateAppend'
  OBVIOUS
<1>1. CASE JobManagerSteps
  BY <1>1 DEF JobManagerSteps, ProgramWrites, SendData, SendTerminal, ProgramEnds, AckArrives,
              PrepareConnect, StartStream
<1>2. CASE DataArrives \/ RestartStreaming
  BY <1>2 DEF DataArrives, RestartStreaming, RestartStats, RestartCreatesReader, RestartPrepared,
              RestartStarted, RestartFails
<1>3. CASE \E s \in Streams : OutputLoop(s)
  BY <1>3 DEF OutputLoop, LoopReads, LoopChecks, LoopAppends, LoopEnds
<1>4. CASE ConnectionDrops \/ Reconnect \/ Flush \/ Crash
  BY <1>4 DEF ConnectionDrops, Reconnect, Flush, Crash
<1>5. CASE UNCHANGED jsVars
  BY <1>5 DEF jsVars
<1> QED BY <1>1, <1>2, <1>3, <1>4, <1>5 DEF JSNext

(* Until an output loop appends after a restart overtook it, the stream, its
   connections, its readers and loops, the restart and the file stay in step,
   whatever the loops do in the meantime: the invariant that runOutputLoop,
   restartStreaming and the job manager keep together. *)
THEOREM JobStreamCorrect == JSSpec => [](~lateAppend => JSInv)
<1>1. JobStarted => JSInv
  BY JobStartedOK
<1>2. JSInv /\ ~lateAppend' /\ [JSNext]_jsVars => JSInv'
  BY StepKeeps
<1> QED BY <1>1, <1>2, LateStays, PTL DEF JSSpec

(* Only an append that comes late puts the output file out of order: over any number
   of reconnects, failed restarts, superseded loops and crashes of the server, it
   holds the program's output in order and each byte at most once until then. *)
THEOREM OnlyLateAppendsDisorder == JSSpec => []FileInOrderUntilLate
<1>1. (~lateAppend => JSInv) => FileInOrderUntilLate
  BY DEF JSInv, StoreOK, FileOK, FileInOrder, FileInOrderUntilLate
<1> QED BY <1>1, JobStreamCorrect, PTL

(* Until an append comes late, the next byte that the loop of the job's stream will
   append is the one at size + totalgap. *)
THEOREM SeqAlwaysTracks == JSSpec => []SeqTracksStream
<1>1. ASSUME ~lateAppend => JSInv PROVE SeqTracksStream
  <2> DEFINE s == jobStreamId
  <2> SUFFICES ASSUME JSInv, s # 0, loops[s].step # "none"
               PROVE  \A i \in 1..Len(InHand(s)) : InHand(s)[i] = Len(file) + totalGap + i - 1
    BY <1>1 DEF SeqTracksStream
  <2>1. s \in Streams
    BY <1>1, JobStreamAssumption DEF JSInv, ServerOK, WireOK, Streams
  <2>2. ReaderOK(readers[s]) /\ LoopOK(loops[s], readers[s]) /\ Place(loops[s], readers[s]) = Stored
    BY <1>1, <2>1 DEF JSInv, ServerOK, StoreOK
  <2>3. /\ readers[s].next \in Nat /\ Len(readers[s].buffer) \in Nat
        /\ Len(loops[s].chunk) \in Nat /\ Stored \in Nat
    BY <1>1, <2>2, ReaderFields, LoopFields, StoreTyped DEF ReaderOK, LoopOK, JSInv
  <2>4. Contiguous(loops[s].chunk, Stored)
    BY <2>2 DEF LoopOK
  <2>5. Contiguous(readers[s].buffer, Stored + Len(loops[s].chunk))
    <3>1. readers[s].next - Len(readers[s].buffer) = Stored + Len(loops[s].chunk)
      <4> DEFINE n == readers[s].next
                 b == Len(readers[s].buffer)
                 c == Len(loops[s].chunk)
      <4>1. n \in Nat /\ b \in Nat /\ c \in Nat /\ Stored \in Nat
        BY <2>3
      <4>2. n - b - c = Stored
        BY <2>2 DEF Place
      <4> HIDE DEF n, b, c
      <4>3. n - b = Stored + c
        BY <4>1, <4>2
      <4> QED BY <4>3 DEF n, b, c
    <3> QED BY <2>2, <3>1 DEF ReaderOK
  <2>6. Contiguous(InHand(s), Stored)
    <3>1. Stored \in Int
      BY <2>3
    <3>2. Contiguous(loops[s].chunk \o readers[s].buffer, Stored)
      BY <2>4, <2>5, <3>1, ContiguousJoin
    <3> QED BY <3>2 DEF InHand
  <2> QED BY <2>6 DEF Contiguous, Stored
<1> QED BY <1>1, JobStreamCorrect, PTL

(* When an output loop reports the EOF, what the file lacks of the whole output is
   just what totalgap says, unless an append came late. *)
THEOREM EofAlwaysComplete == JSSpec => []EofIsComplete
<1>1. (~lateAppend => JSInv) => EofIsComplete
  BY DEF JSInv, StoreOK, EofIsComplete, Stored
<1> QED BY <1>1, JobStreamCorrect, PTL

-----------------------------------------------------------------------------
(* How far the stream has gone: between the job manager, the latest connection
   and its Reader.  FlowInv bounds every buffer by the window, and says that the
   job manager lets go of no byte before a Reader has it. *)

(* The Reader of the latest connection *)
Current == readers[conn]

(* Up to where a Reader was read *)
ReadPos(r) == r.next - Len(r.buffer)

(* How far some Reader got, or the file *)
Received == {n \in Nat : n <= Stored \/ \E s \in Streams : n <= readers[s].next}

ValuesOK ==
    /\ total <= MaxBytes /\ terminalEvent \in {"none"} \cup Terminals
    /\ terminalEventSent \in BOOLEAN /\ terminalEventAcked \in BOOLEAN
    /\ source.rwnd \in 0..RWnd /\ maxAcked \in (0..MaxBytes) \X (0..RWnd)
    /\ writers \subseteq {conn}
    /\ streamDone \in {"no", "read", "told"} /\ crashes \in Nat
    /\ \A s \in Streams : Len(readers[s].buffer) <= RWnd /\ (readers[s].closed => ~readers[s].known)
    /\ terminalEventSent => terminalEvent # "none" /\ head = total

(* What is under way belongs to the latest connection; nothing follows the
   terminal packet. *)
LineOK ==
    /\ ~up => acks = <<>>
    /\ \A k \in 1..Len(acks) : acks[k].seq <= total /\ acks[k].rwnd \in 0..RWnd
    /\ \A k \in 1..Len(data) :
          /\ data[k].id = conn /\ source.id = conn /\ data[k].seq + data[k].len <= source.sent
          /\ data[k].len = 0 => k = Len(data) /\ terminalEventSent

(* The stages of a restart: a fresh Reader, where the job manager goes on, and the
   Reader moved there. *)
OpeningOK ==
    /\ \A s \in Streams : s > conn \/ (s = conn /\ restart.step \in {"stat", "create"}) =>
           readers[s] = NoReader
    /\ restart.step = "prepare" => Current.known /\ Current.early = {}
    /\ restart.step = "prepared" /\ restart.answer \notin {-1, -2} =>
          /\ pending = conn /\ source.id = conn
          /\ head = restart.answer /\ source.sent = head /\ restart.seq <= head
    /\ restart.step = "start" =>
          /\ pending = conn /\ source.id = conn
          /\ head = Current.next /\ source.sent = head /\ Current.buffer = <<>>
          /\ Current.early \subseteq EmptyPackets

(* What the job manager may send, and what it has sent, fits the Reader's window. *)
FlowOK ==
    up /\ Current.known =>
       /\ restart.step \notin Corked =>
             /\ source.id = conn
             /\ head + source.rwnd <= ReadPos(Current) + RWnd
             /\ Current.next <= source.sent /\ source.sent <= ReadPos(Current) + RWnd
       /\ source.id = conn /\ restart.step # "prepare" =>
             \A p \in Current.early : p.seq + p.len <= source.sent

Finished == terminalEventSent /\ source.id = conn /\ data = <<>>

(* A Reader that has finished or was closed has told the job manager so, and the
   ACK that says it is still under way; or, if that ACK came while the stream was
   corked, nothing follows. *)
ClosedOK ==
    up /\ Current.routed /\ ~Current.known =>
       /\ restart.step \in Corked => Finished
       /\ conn \in writers =>
             Finished \/ \E j \in 1..Len(acks) : acks[j].id = conn /\ acks[j].kind # "data"

(* The ACKs the job manager will heed: none behind one that ends the stream. *)
TakenAcks ==
    {k \in 1..Len(acks) :
       /\ acks[k].id = conn
       /\ conn \in writers \/ restart.step \in Corked
       /\ conn \in writers => \A j \in 1..(k - 1) : acks[j].id = conn => acks[j].kind = "data"}

GoodAcks ==
    {a \in AckRecord : /\ crashes = 0 => a.seq \in Received
                       /\ a.seq + a.rwnd <= ReadPos(Current) + RWnd}

AcksOK == \A k \in TakenAcks : acks[k] \in GoodAcks

HeadOK == crashes = 0 => head \in Received

FlowInv ==
    ValuesOK /\ LineOK /\ OpeningOK /\ FlowOK /\ ClosedOK /\ AcksOK /\ HeadOK

(* The values that the steps below speak of *)
FlowTyped ==
    /\ conn \in Streams /\ conn \in Nat /\ up \in BOOLEAN /\ source.id \in Streams
    /\ data \in Seq(SentPackets) /\ acks \in Seq(AckRecord) /\ Len(acks) \in Nat /\ Len(data) \in Nat
    /\ readers \in [Streams -> Reader] /\ Current \in Reader
    /\ \A s \in Streams : readers[s].next \in Nat /\ Len(readers[s].buffer) \in Nat
            /\ readers[s].next <= total /\ ReadPos(readers[s]) \in Int
    /\ Current.next \in Nat /\ Len(Current.buffer) \in Nat /\ ReadPos(Current) \in Int
    /\ Stored \in Nat /\ Stored <= total /\ RWnd \in Nat /\ MaxBytes \in Nat /\ RWnd > 0
    /\ \A k \in 1..Len(acks) : acks[k] \in AckRecord /\ acks[k].seq \in Nat /\ acks[k].rwnd \in Int
    /\ \A k \in 1..Len(data) : data[k] \in SentPackets

LEMMA FlowTypes == JSInv => FlowTyped
<1> SUFFICES ASSUME JSInv PROVE FlowTyped
  OBVIOUS
<1>1. /\ conn \in Streams /\ conn \in Nat /\ up \in BOOLEAN /\ source.id \in Streams
      /\ data \in Seq(SentPackets) /\ acks \in Seq(AckRecord)
      /\ readers \in [Streams -> Reader]
  BY Bounds DEF JSInv, WireOK, ServerOK
<1>2. \A s \in Streams : readers[s] \in Reader /\ readers[s].next \in Nat /\ Len(readers[s].buffer) \in Nat
         /\ readers[s].next <= total
  BY <1>1, ReaderFields DEF JSInv, ServerOK, ReaderOK
<1>3. Stored \in Nat /\ Stored <= total /\ RWnd \in Nat /\ MaxBytes \in Nat /\ RWnd > 0
  BY StoreTyped, JobStreamAssumption DEF JSInv, StoreOK, FileOK, Stored
<1>4. \A k \in 1..Len(acks) : acks[k] \in AckRecord /\ acks[k].seq \in Nat /\ acks[k].rwnd \in Int
  <2>1. \A k \in 1..Len(acks) : acks[k] \in AckRecord
    BY <1>1
  <2>2. \A a \in AckRecord : a.seq \in Nat /\ a.rwnd \in Int
    BY DEF AckRecord
  <2> QED BY <2>1, <2>2
<1>5. \A k \in 1..Len(data) : data[k] \in SentPackets
  BY <1>1
<1>6. Len(acks) \in Nat /\ Len(data) \in Nat
  BY <1>1
<1>7. \A s \in Streams : ReadPos(readers[s]) \in Int
  BY <1>2 DEF ReadPos
<1>8. Current \in Reader /\ Current.next \in Nat /\ Len(Current.buffer) \in Nat /\ ReadPos(Current) \in Int
  BY <1>1, <1>2, <1>7 DEF Current
<1> QED BY <1>1, <1>2, <1>3, <1>4, <1>5, <1>6, <1>7, <1>8 DEF FlowTyped

LEMMA ReceivedGrows ==
    ASSUME FlowTyped, Stored' \in Nat, Stored <= Stored',
           \A s \in Streams : readers'[s].next \in Nat /\ readers[s].next <= readers'[s].next
    PROVE  Received \subseteq Received'
<1>1. \A n \in Nat, a, b \in Nat : n <= a /\ a <= b => n <= b
  OBVIOUS
<1> QED BY <1>1, Zenon DEF FlowTyped, Received

(* The ACKs under way stay good, and so does one that is added if it is. *)
LEMMA AcksGrow ==
    ASSUME FlowTyped, FlowTyped', AcksOK, UNCHANGED <<conn, writers, crashes>>,
           restart'.step \in Corked => restart.step \in Corked,
           Received \subseteq Received', ReadPos(Current) <= ReadPos(Current)',
           \/ acks' = acks
           \/ \E a \in AckRecord : /\ acks' = Append(acks, a)
                                   /\ Len(acks) + 1 \in TakenAcks' => a \in GoodAcks'
    PROVE  AcksOK'
<1>1. ReadPos(Current) \in Int /\ ReadPos(Current)' \in Int /\ RWnd \in Nat
  BY DEF FlowTyped
<1>2. GoodAcks \subseteq GoodAcks'
  <2>1. \A a \in AckRecord : a.seq + a.rwnd \in Int
    BY DEF AckRecord
  <2>2. \A n \in Int : n <= ReadPos(Current) + RWnd => n <= ReadPos(Current)' + RWnd
    BY <1>1
  <2> QED BY <2>1, <2>2 DEF GoodAcks
<1>3. CASE acks' = acks
  <2>1. TakenAcks' \subseteq TakenAcks
    BY <1>3 DEF TakenAcks
  <2> QED BY <1>2, <1>3, <2>1 DEF AcksOK
<1>4. ASSUME NEW a \in AckRecord, acks' = Append(acks, a),
             Len(acks) + 1 \in TakenAcks' => a \in GoodAcks'
      PROVE  AcksOK'
  <2>1. /\ Len(acks) \in Nat /\ Len(acks') = Len(acks) + 1 /\ acks'[Len(acks) + 1] = a
        /\ \A k \in 1..Len(acks) : acks'[k] = acks[k]
    BY <1>4 DEF FlowTyped
  <2>2. ASSUME NEW k \in TakenAcks', k # Len(acks) + 1 PROVE acks'[k] \in GoodAcks'
    <3>1. k \in 1..Len(acks) /\ acks'[k] = acks[k] /\ \A j \in 1..(k - 1) : j \in 1..Len(acks)
      BY <2>1, <2>2 DEF TakenAcks
    <3>2. k \in TakenAcks
      BY <2>1, <2>2, <3>1 DEF TakenAcks
    <3> QED BY <1>2, <3>1, <3>2 DEF AcksOK
  <2> QED BY <1>4, <2>1, <2>2 DEF AcksOK
<1> QED BY <1>3, <1>4

(* Steps that leave the stream where it is, but for the file and the stage of the
   restart *)
LEMMA QuietFlow ==
    ASSUME JSInv, FlowTyped, FlowTyped', FlowInv,
           UNCHANGED <<jobVars, connVars, readers, crashes>>,
           streamDone' \in {"no", "read", "told"}, Stored <= Stored',
           \/ restart' = restart
           \/ restart.step = "stat" /\ restart'.step = "create"
           \/ restart.step = "started" /\ restart'.step = "none"
    PROVE  FlowInv'
<1>1. UNCHANGED <<Current, EmptyPackets>>
  BY SamePackets DEF Current
<1>2. /\ restart'.step \in Corked <=> restart.step \in Corked
      /\ restart'.step \in {"stat", "create"} <=> restart.step \in {"stat", "create"}
      /\ restart' = restart \/ restart'.step \notin {"prepare", "prepared", "start"}
      /\ restart'.step = "prepare" <=> restart.step = "prepare"
  BY DEF Corked
<1>3. ValuesOK' /\ LineOK'
  BY DEF FlowInv, ValuesOK, LineOK
<1>4. OpeningOK'
  BY <1>1, <1>2 DEF FlowInv, OpeningOK
<1>5. FlowOK'
  BY <1>1, <1>2 DEF FlowInv, FlowOK, ReadPos
<1>6. ClosedOK'
  BY <1>1, <1>2 DEF FlowInv, ClosedOK, Finished
<1>7. Received \subseteq Received'
  BY ReceivedGrows DEF FlowTyped
<1>8. AcksOK'
  <2>1. ReadPos(Current) <= ReadPos(Current)'
    BY <1>1 DEF FlowTyped, ReadPos
  <2> QED BY <1>2, <1>7, <2>1, AcksGrow DEF FlowInv
<1>9. HeadOK'
  BY <1>7 DEF FlowInv, HeadOK
<1> QED BY <1>3, <1>4, <1>5, <1>6, <1>8, <1>9 DEF FlowInv

(* The program writes, or ends. *)
LEMMA ProgramFlow ==
    ASSUME JSInv, FlowTyped, FlowTyped', FlowInv,
           ProgramWrites \/ \E kind \in Terminals : ProgramEnds(kind)
    PROVE  FlowInv'
<1>1. /\ total' \in Nat /\ total <= total' /\ total' <= MaxBytes
      /\ terminalEvent' \in {"none"} \cup Terminals
      /\ terminalEvent # "none" => UNCHANGED <<total, terminalEvent>>
  <2>1. CASE ProgramWrites
    <3>1. total \in Nat /\ MaxBytes \in Nat
      BY Bounds DEF FlowTyped
    <3> QED BY <2>1, <3>1 DEF ProgramWrites
  <2>2. ASSUME NEW kind \in Terminals, ProgramEnds(kind)
        PROVE  /\ total' \in Nat /\ total <= total' /\ total' <= MaxBytes
               /\ terminalEvent' \in {"none"} \cup Terminals
               /\ terminalEvent # "none" => UNCHANGED <<total, terminalEvent>>
    BY <2>2, Bounds DEF ProgramEnds, FlowInv, ValuesOK
  <2> QED BY <2>1, <2>2
<1>2. /\ UNCHANGED <<head, terminalEventSent, terminalEventAcked, source, maxAcked, pending, writers>>
      /\ UNCHANGED <<connVars, serverVars, storeVars>>
  BY Bounds DEF ProgramWrites, ProgramEnds
<1>3. Current' = Current /\ Stored' = Stored
  BY <1>2 DEF Current, Stored
<1>4. EmptyPackets \subseteq EmptyPackets'
  BY <1>1, Bounds DEF SentPackets, EmptyPackets, Packet
<1>5. ValuesOK'
  BY <1>1, <1>2 DEF FlowInv, ValuesOK
<1>6. LineOK'
  <2>1. \A k \in 1..Len(acks) : acks[k].seq <= total'
    <3>1. \A k \in 1..Len(acks) : acks[k].seq \in Nat /\ acks[k].seq <= total
      BY DEF FlowInv, LineOK, FlowTyped
    <3> QED BY <1>1, <3>1, Bounds
  <2> QED BY <1>1, <1>2, <2>1 DEF FlowInv, LineOK
<1>7. OpeningOK'
  BY <1>2, <1>3, <1>4 DEF FlowInv, OpeningOK
<1>8. FlowOK' /\ ClosedOK'
  BY <1>2, <1>3 DEF FlowInv, FlowOK, ClosedOK, Finished, ReadPos
<1>9. Received \subseteq Received'
  BY <1>2, <1>3, ReceivedGrows DEF FlowTyped
<1>10. AcksOK'
  <2>1. ReadPos(Current) <= ReadPos(Current)'
    BY <1>3 DEF FlowTyped, ReadPos
  <2> QED BY <1>2, <1>9, <2>1, AcksGrow DEF FlowInv
<1>11. HeadOK'
  BY <1>2, <1>9 DEF FlowInv, HeadOK
<1> QED BY <1>5, <1>6, <1>7, <1>8, <1>10, <1>11 DEF FlowInv

(* The job manager sends: nothing after its terminal packet, and no more than the
   window. *)
LEMMA SendFlow ==
    ASSUME JSInv, FlowTyped, FlowTyped', FlowInv,
           ~terminalEventSent, NEW p \in SentPackets, Transmit(p),
           p.id = source.id, p.seq = source.sent, p.len >= 0,
           p.len = 0 => terminalEventSent',
           restart.step \in Corked /\ source.id = conn => p.len = 0,
           restart.step \notin Corked /\ source.id = conn /\ up /\ Current.known =>
               source.sent + p.len <= head + source.rwnd,
           source' = [source EXCEPT !.sent = @ + p.len],
           terminalEventSent' \in BOOLEAN, terminalEventSent' => terminalEvent # "none" /\ head = total,
           UNCHANGED <<head, total, terminalEvent, terminalEventAcked, maxAcked, pending, writers,
                       conn, up, acks, serverVars, storeVars>>
    PROVE  FlowInv'
<1>1. /\ Current' = Current /\ Stored' = Stored /\ EmptyPackets' = EmptyPackets
  BY SamePackets DEF Current, Stored
<1>2. p.len \in Nat /\ source.sent \in Nat
  BY PacketFields, Bounds
<1>3. /\ source'.id = source.id /\ source'.rwnd = source.rwnd /\ source'.sent = source.sent + p.len
      /\ source.sent <= source'.sent /\ source'.sent \in Nat
  BY <1>2 DEF JSInv, ManagerOK
<1>4. ValuesOK'
  BY <1>3 DEF FlowInv, ValuesOK
<1>5. data' = data \/ (up /\ source.id = conn /\ data' = Append(data, p))
  BY Bounds DEF Transmit
<1>6. LineOK'
  <2>1. \A k \in 1..Len(data) : /\ data[k].id = conn /\ source.id = conn
                                /\ data[k].seq + data[k].len <= source.sent /\ data[k].len # 0
    BY DEF FlowInv, LineOK
  <2>2. \A k \in 1..Len(data) : data[k].seq + data[k].len \in Nat
    <3>1. \A k \in 1..Len(data) : data[k] \in SentPackets
      BY DEF FlowTyped
    <3>2. \A k \in 1..Len(data) : data[k].seq \in Nat /\ data[k].len \in Nat
      BY <3>1, PacketFields
    <3> QED BY <3>2
  <2>3. \A k \in 1..Len(data) : data[k].seq + data[k].len <= source'.sent
    BY <1>2, <1>3, <2>1, <2>2
  <2>4. (~up => acks' = <<>>) /\ \A k \in 1..Len(acks) : acks[k].seq <= total /\ acks[k].rwnd \in 0..RWnd
    BY DEF FlowInv, LineOK
  <2>5. CASE data' = data
    BY <1>3, <2>1, <2>3, <2>4, <2>5 DEF LineOK
  <2>6. CASE source.id = conn /\ data' = Append(data, p)
    <3>1. /\ Len(data') = Len(data) + 1 /\ data'[Len(data) + 1] = p
          /\ \A k \in 1..Len(data) : data'[k] = data[k]
      BY <2>6 DEF FlowTyped
    <3>2. \A k \in 1..Len(data') : k \in 1..Len(data) \/ k = Len(data) + 1
      BY <3>1 DEF FlowTyped
    <3>3. p.seq + p.len <= source'.sent
      BY <1>2, <1>3
    <3> QED BY <1>3, <2>1, <2>3, <2>4, <2>6, <3>1, <3>2, <3>3 DEF LineOK
  <2> QED BY <1>5, <2>5, <2>6
<1>7. OpeningOK'
  BY <1>1, <1>2, <1>3 DEF FlowInv, OpeningOK, Corked
<1>8. FlowOK'
  <2>1. ASSUME up, Current.known, source.id = conn, restart.step # "prepare",
               NEW e \in Current.early
        PROVE  e.seq + e.len <= source'.sent
    <3>1. e.seq + e.len <= source.sent
      BY <2>1 DEF FlowInv, FlowOK
    <3>2. e \in Packet
      BY ReaderFields DEF FlowTyped
    <3>3. e.seq \in Nat /\ e.len \in Nat
      BY <3>2 DEF Packet
    <3> QED BY <1>2, <1>3, <3>1, <3>3
  <2>2. ASSUME up, Current.known, restart.step \notin Corked
        PROVE  /\ source.id = conn /\ head + source.rwnd <= ReadPos(Current) + RWnd
               /\ Current.next <= source'.sent /\ source'.sent <= ReadPos(Current) + RWnd
    <3>1. /\ source.id = conn /\ head + source.rwnd <= ReadPos(Current) + RWnd
          /\ Current.next <= source.sent
      BY <2>2 DEF FlowInv, FlowOK
    <3>2. source.sent + p.len <= head + source.rwnd
      BY <2>2, <3>1
    <3>3. head + source.rwnd \in Int /\ ReadPos(Current) + RWnd \in Int /\ Current.next \in Nat
      BY Bounds DEF FlowTyped
    <3>4. source.sent + p.len <= ReadPos(Current) + RWnd
      BY <1>2, <3>1, <3>2, <3>3
    <3> QED BY <1>2, <1>3, <3>1, <3>3, <3>4
  <2> QED BY <1>1, <1>3, <2>1, <2>2 DEF FlowOK, ReadPos
<1>9. ClosedOK'
  BY <1>1 DEF FlowInv, ClosedOK, Finished
<1>10. Received \subseteq Received'
  BY <1>1, ReceivedGrows DEF FlowTyped
<1>11. AcksOK'
  <2>1. ReadPos(Current) <= ReadPos(Current)'
    BY <1>1 DEF FlowTyped, ReadPos
  <2> QED BY <1>10, <2>1, AcksGrow DEF FlowInv
<1>12. HeadOK'
  BY <1>10 DEF FlowInv, HeadOK
<1> QED BY <1>4, <1>6, <1>7, <1>8, <1>9, <1>11, <1>12 DEF FlowInv

LEMMA SendDataFlow ==
    ASSUME JSInv, FlowTyped, FlowTyped', FlowInv, SendData
    PROVE  FlowInv'
<1> DEFINE room == Window - (source.sent - head)
           n == Smaller(Smaller(room, ChunkSize), total - source.sent)
           p == [id |-> source.id, seq |-> source.sent, len |-> n, kind |-> "data"]
<1>1. /\ n > 0 /\ Transmit(p) /\ source' = [source EXCEPT !.sent = @ + n]
      /\ UNCHANGED <<head, total, terminalEvent, terminalEventSent, terminalEventAcked, maxAcked,
                     pending, writers, conn, up, acks, serverVars, storeVars>>
  BY DEF SendData
<1>2. Window \in Int /\ Window <= source.rwnd
  BY Bounds, JobStreamAssumption DEF Window, Smaller
<1>3. n \in Nat /\ n <= total - source.sent /\ n <= room
  BY <1>1, <1>2, Bounds, JobStreamAssumption DEF Smaller
<1>4. ~terminalEventSent
  BY <1>1, <1>3, Bounds DEF FlowInv, ValuesOK
<1>5. source.sent + n <= head + source.rwnd
  <2> HIDE DEF n
  <2> QED BY <1>2, <1>3, Bounds
<1> HIDE DEF n
<1>6. p \in SentPackets
  BY <1>1, <1>3, Bounds DEF SentPackets, Packet
<1>7. ~(restart.step \in Corked /\ source.id = conn)
  BY <1>1, <1>2, <1>3, Bounds DEF JSInv, CorkOK
<1>8. p.id = source.id /\ p.seq = source.sent /\ p.len = n
  OBVIOUS
<1>9. terminalEventSent' \in BOOLEAN
  BY <1>1, <1>4 DEF FlowInv, ValuesOK
<1> HIDE DEF p
<1> QED BY <1>1, <1>3, <1>4, <1>5, <1>6, <1>7, <1>8, <1>9, SendFlow

LEMMA SendTerminalFlow ==
    ASSUME JSInv, FlowTyped, FlowTyped', FlowInv, SendTerminal
    PROVE  FlowInv'
<1> DEFINE p == [id |-> source.id, seq |-> total, len |-> 0, kind |-> terminalEvent]
<1>1. /\ terminalEvent # "none" /\ head = total /\ ~terminalEventSent /\ terminalEventSent' = TRUE
      /\ Transmit(p)
      /\ UNCHANGED <<head, total, terminalEvent, terminalEventAcked, source, maxAcked,
                     pending, writers, conn, up, acks, serverVars, storeVars>>
  BY DEF SendTerminal
<1>2. p \in SentPackets
  BY <1>1, Bounds DEF JSInv, ManagerOK, SentPackets, Packet
<1>3. source.sent = total /\ total \in Nat
  BY <1>1, Bounds
<1>4. p.id = source.id /\ p.seq = source.sent /\ p.len = 0
  BY <1>3
<1> HIDE DEF p
<1>5. source' = [source EXCEPT !.sent = @ + p.len]
  <2>1. source.sent + p.len = source.sent
    BY <1>3, <1>4
  <2>2. source \in [id : Streams, conn : Streams, sent : Nat, rwnd : Int]
    BY DEF JSInv, ManagerOK
  <2> QED BY <1>1, <2>1, <2>2
<1>6. restart.step \notin Corked /\ source.id = conn /\ up /\ Current.known =>
          source.sent + p.len <= head + source.rwnd
  <2>1. source.rwnd \in Nat
    BY JobStreamAssumption DEF FlowInv, ValuesOK
  <2> QED BY <1>1, <1>3, <1>4, <2>1
<1>7. terminalEventSent' /\ terminalEventSent' \in BOOLEAN /\ p.len >= 0
  BY <1>1, <1>4
<1>8. UNCHANGED <<head, total, terminalEvent, terminalEventAcked, maxAcked, pending, writers,
                  conn, up, acks, serverVars, storeVars>>
  BY <1>1
<1>9. /\ p \in SentPackets /\ Transmit(p) /\ p.id = source.id /\ p.seq = source.sent /\ ~terminalEventSent
      /\ terminalEventSent' => terminalEvent # "none" /\ head = total
      /\ p.len = 0 => terminalEventSent'
      /\ restart.step \in Corked /\ source.id = conn => p.len = 0
  BY <1>1, <1>2, <1>4, <1>7
<1> QED BY <1>5, <1>6, <1>7, <1>8, <1>9, SendFlow

(* What becomes of the ACKs when the first is taken off: one that ends the stream
   ends it for those behind it. *)
LEMMA TakenAcksNext ==
    ASSUME JSInv, FlowTyped, acks # <<>>, acks' = Tail(acks), UNCHANGED <<conn, restart>>,
           writers' = IF Head(acks).id \in writers /\ Head(acks).kind # "data"
                      THEN writers \ {Head(acks).id} ELSE writers
    PROVE  /\ \A k \in TakenAcks' : k + 1 \in TakenAcks /\ acks'[k] = acks[k + 1]
           /\ \A k \in 1..Len(acks') : k + 1 \in 1..Len(acks) /\ acks'[k] = acks[k + 1]
           /\ conn \in writers' =>
                 \A j \in 1..Len(acks) : acks[j].id = conn /\ acks[j].kind # "data" =>
                     \E i \in 1..Len(acks') : acks'[i] = acks[j]
<1>1. /\ Len(acks) \in Nat /\ Len(acks) > 0 /\ Len(acks') = Len(acks) - 1 /\ Head(acks) = acks[1]
      /\ \A k \in 1..Len(acks') : acks'[k] = acks[k + 1]
  BY DEF FlowTyped
<1>2. \A k \in 1..Len(acks') : k + 1 \in 1..Len(acks) /\ acks'[k] = acks[k + 1]
  BY <1>1
<1>3. conn \in writers' /\ acks[1].id = conn => acks[1].kind = "data"
  BY <1>1
<1>4. conn \in writers' => conn \in writers
  BY <1>1
<1>5. ASSUME NEW k \in TakenAcks' PROVE k + 1 \in TakenAcks
  <2>1. /\ k \in 1..Len(acks') /\ acks[k + 1].id = conn /\ k + 1 \in 1..Len(acks)
        /\ conn \in writers' \/ restart.step \in Corked
        /\ conn \in writers' => \A j \in 1..(k - 1) : acks'[j].id = conn => acks'[j].kind = "data"
    BY <1>2 DEF TakenAcks
  <2>2. CASE conn \in writers'
    <3>1. ASSUME NEW j \in 1..k PROVE acks[j].id = conn => acks[j].kind = "data"
      <4>1. CASE j = 1
        BY <1>3, <2>2, <4>1
      <4>2. CASE j # 1
        <5>1. j - 1 \in 1..(k - 1) /\ j - 1 \in 1..Len(acks') /\ (j - 1) + 1 = j
          BY <1>1, <2>1, <4>2
        <5> QED BY <1>2, <2>1, <2>2, <5>1
      <4> QED BY <4>1, <4>2
    <3>2. (k + 1) - 1 = k
      BY <2>1
    <3> QED BY <1>4, <2>1, <2>2, <3>1, <3>2 DEF TakenAcks
  <2>3. CASE conn \notin writers'
    <3>1. writers = {}
      BY <2>1, <2>3 DEF JSInv, CorkOK
    <3> QED BY <2>1, <2>3, <3>1 DEF TakenAcks
  <2> QED BY <2>2, <2>3
<1>6. ASSUME conn \in writers', NEW j \in 1..Len(acks), acks[j].id = conn, acks[j].kind # "data"
      PROVE  \E i \in 1..Len(acks') : acks'[i] = acks[j]
  <2>1. j # 1
    BY <1>3, <1>6
  <2>2. j - 1 \in 1..Len(acks') /\ (j - 1) + 1 = j
    BY <1>1, <2>1
  <2> QED BY <1>2, <2>2
<1>7. \A k \in TakenAcks' : k \in 1..Len(acks')
  BY DEF TakenAcks
<1> QED BY <1>2, <1>5, <1>6, <1>7

LEMMA AckArrivesFlow ==
    ASSUME JSInv, FlowTyped, FlowTyped', FlowInv, AckArrives
    PROVE  FlowInv'
<1> DEFINE ack == Head(acks)
<1>1. /\ acks # <<>> /\ acks' = Tail(acks)
      /\ writers' = IF ack.id \in writers /\ ack.kind # "data" THEN writers \ {ack.id} ELSE writers
      /\ IF ack.id \in writers THEN RecvAck(ack)
         ELSE UNCHANGED <<head, source, maxAcked, terminalEventAcked>>
      /\ UNCHANGED <<total, terminalEvent, terminalEventSent, pending, conn, up, data,
                     serverVars, storeVars>>
  BY DEF AckArrives
<1>2. /\ ack = acks[1] /\ 1 \in 1..Len(acks) /\ ack \in AckRecord /\ up
      /\ ack.seq \in Nat /\ ack.seq <= total /\ ack.rwnd \in 0..RWnd
  BY <1>1 DEF FlowTyped, FlowInv, LineOK
<1>3. ack.id \in writers => /\ ack.id = conn /\ ack \in GoodAcks /\ restart.step \notin Corked
  <2> SUFFICES ASSUME ack.id \in writers
               PROVE  ack.id = conn /\ ack \in GoodAcks /\ restart.step \notin Corked
    OBVIOUS
  <2>1. ack.id = conn /\ conn \in writers
    BY DEF FlowInv, ValuesOK
  <2>2. 1 \in TakenAcks
    BY <1>2, <2>1 DEF TakenAcks
  <2>3. restart.step \notin Corked
    BY <2>1 DEF JSInv, CorkOK
  <2> QED BY <1>2, <2>1, <2>2, <2>3 DEF FlowInv, AcksOK
<1>4. \/ UNCHANGED <<head, source, maxAcked>>
      \/ UNCHANGED <<head, source>> /\ maxAcked' = <<ack.seq, ack.rwnd>>
      \/ /\ ack.id \in writers /\ maxAcked' = <<ack.seq, ack.rwnd>> /\ ack.seq \in head..source.sent
         /\ head' = ack.seq /\ source' = [source EXCEPT !.rwnd = ack.rwnd]
  BY <1>1 DEF RecvAck
<1>5. terminalEventAcked' \in BOOLEAN
  BY <1>1 DEF RecvAck, FlowInv, ValuesOK
<1> HIDE DEF ack
<1>6. Current' = Current /\ Stored' = Stored /\ EmptyPackets' = EmptyPackets
  BY <1>1, SamePackets DEF Current, Stored
<1>7. /\ source'.id = source.id /\ source'.sent = source.sent /\ source'.rwnd \in 0..RWnd
      /\ source'.rwnd = source.rwnd \/ source'.rwnd = ack.rwnd
      /\ ack.id \notin writers => UNCHANGED <<head, source>>
  BY <1>1, <1>2, <1>4 DEF JSInv, ManagerOK, FlowInv, ValuesOK
<1>8. ValuesOK'
  <2>1. maxAcked' \in (0..MaxBytes) \X (0..RWnd)
    <3>1. ack.seq \in 0..MaxBytes
      <4>1. total \in Nat /\ MaxBytes \in Nat /\ total <= MaxBytes
        BY Bounds DEF FlowTyped, FlowInv, ValuesOK
      <4> QED BY <1>2, <4>1
    <3> QED BY <1>2, <1>4, <3>1 DEF FlowInv, ValuesOK
  <2>2. terminalEventSent' => head' = total
    BY <1>1, <1>2, <1>4, Bounds DEF FlowInv, ValuesOK
  <2> QED BY <1>1, <1>5, <1>7, <2>1, <2>2 DEF FlowInv, ValuesOK
<1>9. /\ \A k \in TakenAcks' : k + 1 \in TakenAcks /\ acks'[k] = acks[k + 1]
      /\ \A k \in 1..Len(acks') : k + 1 \in 1..Len(acks) /\ acks'[k] = acks[k + 1]
      /\ conn \in writers' =>
            \A j \in 1..Len(acks) : acks[j].id = conn /\ acks[j].kind # "data" =>
                \E i \in 1..Len(acks') : acks'[i] = acks[j]
  BY <1>1, TakenAcksNext DEF ack
<1>10. LineOK'
  BY <1>1, <1>2, <1>7, <1>9 DEF FlowInv, LineOK
<1>11. OpeningOK'
  BY <1>1, <1>3, <1>6, <1>7 DEF FlowInv, OpeningOK, Corked
<1>12. FlowOK'
  <2>1. ASSUME ack.id \in writers, head' = ack.seq, source' = [source EXCEPT !.rwnd = ack.rwnd]
        PROVE  head' + source'.rwnd <= ReadPos(Current) + RWnd
    <3>1. source'.rwnd = ack.rwnd
      BY <2>1 DEF JSInv, ManagerOK
    <3> QED BY <1>3, <2>1, <3>1 DEF GoodAcks
  <2>2. UNCHANGED <<head, source>> \/ head' + source'.rwnd <= ReadPos(Current) + RWnd
    BY <1>4, <2>1
  <2> QED BY <1>1, <1>6, <1>7, <2>2 DEF FlowInv, FlowOK, ReadPos
<1>13. ClosedOK'
  <2>1. Finished => Finished'
    BY <1>1, <1>7 DEF Finished
  <2>2. conn \in writers' => conn \in writers
    BY <1>1
  <2> QED BY <1>1, <1>6, <1>9, <2>1, <2>2 DEF FlowInv, ClosedOK
<1>14. Received' = Received /\ GoodAcks' = GoodAcks
  BY <1>1, <1>6 DEF Received, GoodAcks, ReadPos
<1>15. AcksOK'
  BY <1>9, <1>14 DEF FlowInv, AcksOK
<1>16. HeadOK'
  BY <1>1, <1>3, <1>4, <1>14 DEF FlowInv, HeadOK, GoodAcks
<1> QED BY <1>8, <1>10, <1>11, <1>12, <1>13, <1>15, <1>16 DEF FlowInv

(* The job manager prepares: what it lets go of to meet the server, the file has. *)
LEMMA PrepareConnectFlow ==
    ASSUME JSInv, FlowTyped, FlowTyped', FlowInv, PrepareConnect
    PROVE  FlowInv'
<1>1. /\ restart.step = "prepare" /\ up
      /\ UNCHANGED <<total, terminalEvent, connVars, jobStreamId, readers, loops, crashes, storeVars>>
  BY DEF PrepareConnect
<1>2. /\ restart.seq = Stored /\ Stored \in Nat /\ restart.id = conn /\ writers = {}
      /\ data = <<>> /\ restart \in Restart /\ Current.known /\ Current.early = {}
      /\ ~(restart.seq > total)
  BY <1>1, Bounds DEF JSInv, RestartOK, CorkOK, Corked, FlowInv, OpeningOK, FlowTyped
<1>3. UNCHANGED <<Current, Stored, Received, EmptyPackets>>
  BY <1>1, SamePackets DEF Current, Stored, Received
<1>4. GoodAcks' = GoodAcks
  BY <1>1, <1>3 DEF GoodAcks, ReadPos
<1> DEFINE Answered(a) == [restart EXCEPT !.step = "prepared", !.answer = a]
<1>5. \A a \in Int : /\ Answered(a).step = "prepared" /\ Answered(a).answer = a
                     /\ Answered(a).seq = restart.seq
  BY <1>2 DEF Restart
<1>6. ASSUME restart'.step = "prepared", writers' = {}, source'.rwnd \in 0..RWnd,
             maxAcked' \in (0..MaxBytes) \X (0..RWnd),
             terminalEventAcked' \in BOOLEAN, terminalEventSent' \in BOOLEAN,
             terminalEventSent' => terminalEventSent /\ UNCHANGED head,
             UNCHANGED head \/ head' = restart.seq,
             restart'.answer \notin {-1, -2} =>
                 /\ pending' = conn /\ source'.id = conn
                 /\ head' = restart'.answer /\ source'.sent = head' /\ restart'.seq <= head'
      PROVE  FlowInv'
  <2>1. ValuesOK'
    BY <1>1, <1>6 DEF FlowInv, ValuesOK
  <2>2. LineOK'
    BY <1>1, <1>2 DEF FlowInv, LineOK
  <2>3. OpeningOK'
    BY <1>1, <1>3, <1>6 DEF FlowInv, OpeningOK
  <2>4. FlowOK' /\ ClosedOK'
    BY <1>2, <1>3, <1>6 DEF FlowOK, ClosedOK, Corked
  <2>5. AcksOK'
    <3>1. TakenAcks' = TakenAcks
      BY <1>1, <1>2, <1>6 DEF TakenAcks, Corked
    <3> QED BY <1>1, <1>4, <3>1 DEF FlowInv, AcksOK
  <2>6. HeadOK'
    <3>1. Stored \in Received
      BY <1>2 DEF Received
    <3> QED BY <1>1, <1>2, <1>3, <1>6, <3>1 DEF FlowInv, HeadOK
  <2> QED BY <2>1, <2>2, <2>3, <2>4, <2>5, <2>6 DEF FlowInv
<1>7. CASE terminalEventAcked
  <2>1. restart' = Answered(-1) /\ UNCHANGED jobVars
    BY <1>7 DEF PrepareConnect
  <2>2. restart'.step = "prepared" /\ restart'.answer = -1
    <3> HIDE DEF Answered
    <3>1. -1 \in Int
      OBVIOUS
    <3> QED BY <1>5, <2>1, <3>1
  <2> QED BY <1>2, <1>6, <2>1, <2>2 DEF FlowInv, ValuesOK
<1>8. CASE ~terminalEventAcked
  <2> DEFINE start == StartSeq(restart.seq)
  <2>1. /\ writers' = writers \ {source.id} /\ maxAcked' = <<0, 0>> /\ terminalEventSent' = FALSE
        /\ head' = start /\ pending' = restart.id
        /\ source' = [id |-> restart.id, conn |-> conn, sent |-> start, rwnd |-> 0]
        /\ restart' = Answered(start)
        /\ UNCHANGED terminalEventAcked
    BY <1>2, <1>8 DEF PrepareConnect
  <2>2. start \in Nat /\ restart.seq <= start /\ (start = head \/ start = restart.seq)
    BY <1>2, Bounds DEF StartSeq, Larger
  <2> HIDE DEF start
  <2>3. restart'.step = "prepared" /\ restart'.answer = start /\ restart'.seq = restart.seq
    <3> HIDE DEF Answered
    <3>1. start \in Int
      BY <2>2
    <3> QED BY <1>5, <2>1, <3>1
  <2>4. source'.id = conn /\ source'.sent = start /\ source'.rwnd = 0
    BY <1>2, <2>1
  <2>5. 0 \in 0..RWnd /\ 0 \in 0..MaxBytes
    BY JobStreamAssumption
  <2>6. maxAcked' \in (0..MaxBytes) \X (0..RWnd)
    BY <2>1, <2>5
  <2>7. terminalEventAcked' \in BOOLEAN /\ terminalEventSent' \in BOOLEAN /\ ~terminalEventSent'
    BY <2>1 DEF FlowInv, ValuesOK
  <2>8. writers' = {} /\ pending' = conn
    BY <1>2, <2>1
  <2> QED BY <1>6, <2>1, <2>2, <2>3, <2>4, <2>5, <2>6, <2>7, <2>8
<1> QED BY <1>7, <1>8

(* The stream is uncorked: the Reader has room for a window from where it begins. *)
LEMMA StartStreamFlow ==
    ASSUME JSInv, FlowTyped, FlowTyped', FlowInv, StartStream
    PROVE  FlowInv'
<1>1. /\ restart.step = "start" /\ writers' = writers \cup {pending}
      /\ source' = [source EXCEPT !.rwnd = RWnd] /\ restart' = [restart EXCEPT !.step = "started"]
      /\ UNCHANGED <<head, total, terminalEvent, terminalEventSent, terminalEventAcked, maxAcked,
                     connVars, jobStreamId, readers, loops, crashes, storeVars>>
  BY DEF StartStream
<1>2. /\ writers = {} /\ pending = conn /\ source.id = conn
      /\ head = Current.next /\ source.sent = head /\ Current.buffer = <<>>
  BY <1>1 DEF JSInv, CorkOK, Corked, FlowInv, OpeningOK
<1>3. writers' = {conn}
  BY <1>1, <1>2
<1>4. restart'.step = "started"
  BY <1>1, RestartFields DEF Restart
<1>5. source'.id = conn /\ source'.sent = source.sent /\ source'.rwnd = RWnd
  BY <1>1, <1>2 DEF JSInv, ManagerOK
<1>6. UNCHANGED <<Current, Stored, Received, EmptyPackets>>
  BY <1>1, SamePackets DEF Current, Stored, Received
<1>7. RWnd \in 0..RWnd
  BY JobStreamAssumption
<1>8. ValuesOK' /\ LineOK'
  BY <1>1, <1>2, <1>3, <1>5, <1>7 DEF FlowInv, ValuesOK, LineOK
<1>9. OpeningOK'
  BY <1>1, <1>4, <1>6 DEF FlowInv, OpeningOK
<1>10. FlowOK'
  <2>1. ReadPos(Current) = head
    BY <1>2, Bounds DEF ReadPos
  <2>2. /\ head + RWnd <= ReadPos(Current) + RWnd /\ Current.next <= source.sent
        /\ source.sent <= ReadPos(Current) + RWnd
    BY <1>2, <2>1, Bounds, JobStreamAssumption
  <2>3. up /\ Current.known => \A p \in Current.early : p.seq + p.len <= source.sent
    BY <1>1, <1>2 DEF FlowInv, FlowOK
  <2> QED BY <1>1, <1>4, <1>5, <1>6, <2>2, <2>3 DEF FlowOK, ReadPos
<1>11. ClosedOK'
  <2>1. up /\ Current.routed /\ ~Current.known => Finished
    BY <1>1 DEF FlowInv, ClosedOK, Corked
  <2>2. Finished => Finished'
    BY <1>1, <1>5 DEF Finished
  <2> QED BY <1>1, <1>4, <1>6, <2>1, <2>2 DEF ClosedOK, Corked
<1>12. AcksOK'
  <2>1. GoodAcks' = GoodAcks
    BY <1>1, <1>6 DEF GoodAcks, ReadPos
  <2>2. TakenAcks' \subseteq TakenAcks
    BY <1>1, <1>2 DEF TakenAcks, Corked
  <2> QED BY <1>1, <2>1, <2>2 DEF FlowInv, AcksOK
<1>13. HeadOK'
  BY <1>1, <1>6 DEF FlowInv, HeadOK
<1> QED BY <1>8, <1>9, <1>10, <1>11, <1>12, <1>13 DEF FlowInv

(* An answer is sent only over a connection that is up. *)
LEMMA AnswerAppends ==
    ASSUME FlowTyped, NEW a, Answer(<<a>>)
    PROVE  \/ ~up /\ acks' = acks
           \/ up /\ acks' = Append(acks, a) /\ Len(acks') = Len(acks) + 1 /\ acks'[Len(acks) + 1] = a
BY DEF FlowTyped, Answer

(* What a Reader acknowledges it has received, and its window is what it reports. *)
LEMMA AckIsGood ==
    ASSUME FlowTyped, FlowTyped', UNCHANGED <<total, conn>>, NEW s \in Streams,
           NEW kind \in {"data", "fin", "cancel"}, NEW q \in Reader,
           readers'[s].next = q.next, readers'[s].buffer = q.buffer, Len(q.buffer) <= RWnd
    PROVE  /\ Ack(s, q, kind) \in AckRecord /\ Ack(s, q, kind).id = s /\ Ack(s, q, kind).kind = kind
           /\ Ack(s, q, kind).seq <= total /\ Ack(s, q, kind).rwnd \in 0..RWnd
           /\ s = conn => Ack(s, q, kind) \in GoodAcks'
<1> DEFINE a == Ack(s, q, kind)
<1>1. a.id = s /\ a.kind = kind /\ a.seq = q.next /\ a.rwnd = RWnd - Len(q.buffer)
  BY DEF Ack, Rwnd
<1>2. a \in AckRecord
  BY AckTyped
<1> HIDE DEF a
<1>3. readers'[s].next \in Nat /\ Len(q.buffer) \in Nat /\ RWnd \in Nat /\ readers'[s].next <= total'
  BY ReaderFields DEF FlowTyped
<1>4. a.seq <= total /\ a.rwnd \in 0..RWnd
  BY <1>1, <1>3
<1>5. s = conn => a \in GoodAcks'
  <2> SUFFICES ASSUME s = conn PROVE a \in GoodAcks'
    OBVIOUS
  <2>1. a.seq \in Received'
    <3>1. a.seq <= readers'[s].next /\ a.seq \in Nat
      BY <1>1, <1>3
    <3> QED BY <3>1 DEF Received
  <2>2. ReadPos(Current)' = q.next - Len(q.buffer)
    BY DEF ReadPos, Current
  <2>3. a.seq + a.rwnd <= ReadPos(Current)' + RWnd
    BY <1>1, <1>3, <2>2
  <2> QED BY <1>2, <2>1, <2>3 DEF GoodAcks
<1> QED BY <1>1, <1>2, <1>4, <1>5 DEF a

(* A step of the server in which one Reader goes on.  If it is that of the latest
   connection, what else the step must respect is said by the last assumptions. *)
LEMMA ReaderActs ==
    ASSUME JSInv, FlowTyped, FlowTyped', FlowInv,
           UNCHANGED <<jobVars, conn, up, crashes, file, totalGap>>,
           streamDone' \in {"no", "read", "told"},
           NEW s \in Streams, s <= conn, NEW q \in Reader, readers' = [readers EXCEPT ![s] = q],
           q.next >= readers[s].next, ReadPos(q) >= ReadPos(readers[s]), Len(q.buffer) <= RWnd,
           q.closed => ~q.known, q.known => readers[s].known, q.routed = readers[s].routed,
           data' = data \/ (data # <<>> /\ data' = Tail(data)),
           restart' = restart \/ (restart'.step = "none" /\ s = conn /\ ~q.known),
           \/ acks' = acks
           \/ \E a \in AckRecord :
                 /\ up /\ acks' = Append(acks, a) /\ a.seq <= total /\ a.rwnd \in 0..RWnd
                 /\ Len(acks) + 1 \in TakenAcks' => a \in GoodAcks',
           s = conn => restart'.step \notin {"stat", "create", "prepare"},
           s = conn /\ restart'.step = "start" =>
               q.next = readers[s].next /\ q.buffer = <<>> /\ q.early \subseteq EmptyPackets,
           s = conn /\ up /\ q.known =>
               /\ restart'.step \notin Corked => q.next <= source.sent
               /\ source.id = conn => \A p \in q.early : p.seq + p.len <= source.sent,
           s = conn /\ up /\ readers[s].known /\ ~q.known =>
               /\ restart'.step \in Corked => Finished'
               /\ \E j \in 1..Len(acks') : acks'[j].id = conn /\ acks'[j].kind # "data"
    PROVE  FlowInv'
<1> DEFINE r == readers[s]
<1>1. UNCHANGED <<Stored, EmptyPackets>>
  BY SamePackets DEF Stored
<1>2. /\ \A x \in Streams : readers'[x] = IF x = s THEN q ELSE readers[x]
      /\ Current' = IF s = conn THEN q ELSE Current
      /\ s = conn => r = Current
  BY DEF FlowTyped, Current
<1>3. ValuesOK'
  <2>1. \A x \in Streams : Len(readers'[x].buffer) <= RWnd /\ (readers'[x].closed => ~readers'[x].known)
    BY <1>2 DEF FlowInv, ValuesOK
  <2> QED BY <2>1 DEF FlowInv, ValuesOK
<1>4. LineOK'
  <2>1. \A k \in 1..Len(acks') : acks'[k].seq <= total /\ acks'[k].rwnd \in 0..RWnd
    <3>1. \A k \in 1..Len(acks) : acks[k].seq <= total /\ acks[k].rwnd \in 0..RWnd
      BY DEF FlowInv, LineOK
    <3>2. ASSUME NEW a \in AckRecord, acks' = Append(acks, a), a.seq <= total, a.rwnd \in 0..RWnd
          PROVE  \A k \in 1..Len(acks') : acks'[k].seq <= total /\ acks'[k].rwnd \in 0..RWnd
      <4>1. /\ Len(acks') = Len(acks) + 1 /\ acks'[Len(acks) + 1] = a /\ Len(acks) \in Nat
            /\ \A k \in 1..Len(acks) : acks'[k] = acks[k]
        BY <3>2 DEF FlowTyped
      <4>2. \A k \in 1..Len(acks') : k \in 1..Len(acks) \/ k = Len(acks) + 1
        BY <4>1
      <4> QED BY <3>1, <3>2, <4>1, <4>2
    <3> QED BY <3>1, <3>2
  <2>2. ~up => acks' = <<>>
    BY DEF FlowInv, LineOK
  <2>3. \A k \in 1..Len(data') :
          /\ data'[k].id = conn /\ source.id = conn /\ data'[k].seq + data'[k].len <= source.sent
          /\ data'[k].len = 0 => k = Len(data') /\ terminalEventSent
    <3>1. CASE data' = data
      BY <3>1 DEF FlowInv, LineOK
    <3>2. CASE data # <<>> /\ data' = Tail(data)
      <4>1. /\ Len(data') = Len(data) - 1 /\ Len(data) \in Nat
            /\ \A k \in 1..Len(data') : data'[k] = data[k + 1] /\ k + 1 \in 1..Len(data)
                                        /\ (k + 1 = Len(data) => k = Len(data'))
        BY <3>2 DEF FlowTyped
      <4>2. \A k \in 1..Len(data) :
              /\ data[k].id = conn /\ source.id = conn /\ data[k].seq + data[k].len <= source.sent
              /\ data[k].len = 0 => k = Len(data) /\ terminalEventSent
        BY DEF FlowInv, LineOK
      <4> QED BY <4>1, <4>2
    <3> QED BY <3>1, <3>2
  <2> QED BY <2>1, <2>2, <2>3 DEF LineOK
<1>5. OpeningOK'
  <2>1. \A x \in Streams : x > conn \/ (x = conn /\ restart'.step \in {"stat", "create"}) =>
            readers'[x] = NoReader
    <3>1. \A x \in Streams : x > conn => x # s
      BY DEF FlowTyped, Streams
    <3>2. restart'.step \in {"stat", "create"} => restart' = restart /\ s # conn
      OBVIOUS
    <3> QED BY <1>2, <3>1, <3>2 DEF FlowInv, OpeningOK
  <2> QED BY <1>1, <1>2, <2>1 DEF FlowInv, OpeningOK
<1>6. FlowOK'
  <2> SUFFICES ASSUME up, Current'.known PROVE
        /\ restart'.step \notin Corked =>
             /\ source.id = conn
             /\ head + source.rwnd <= ReadPos(Current') + RWnd
             /\ Current'.next <= source.sent /\ source.sent <= ReadPos(Current') + RWnd
        /\ source.id = conn /\ restart'.step # "prepare" =>
             \A p \in Current'.early : p.seq + p.len <= source.sent
    BY DEF FlowOK, ReadPos
  <2>1. CASE s # conn
    BY <1>2, <2>1 DEF FlowInv, FlowOK
  <2>2. CASE s = conn
    <3>1. q.known /\ r.known /\ restart' = restart /\ Current' = q
      BY <1>2, <2>2
    <3>2. restart'.step \notin Corked =>
            /\ source.id = conn
            /\ head + source.rwnd <= ReadPos(Current) + RWnd
            /\ source.sent <= ReadPos(Current) + RWnd
      BY <1>2, <2>2, <3>1 DEF FlowInv, FlowOK
    <3>3. /\ ReadPos(Current) \in Int /\ ReadPos(q) \in Int /\ ReadPos(Current) <= ReadPos(q)
          /\ RWnd \in Nat /\ head \in Nat /\ source.sent \in Nat /\ source.rwnd \in Int
      BY <1>2, <2>2, ReaderFields, Bounds DEF FlowTyped, ReadPos
    <3>4. \A n \in Int : n <= ReadPos(Current) + RWnd => n <= ReadPos(q) + RWnd
      BY <3>3
    <3>5. head + source.rwnd \in Int /\ source.sent \in Int
      BY <3>3
    <3> QED BY <2>2, <3>1, <3>2, <3>4, <3>5
  <2> QED BY <2>1, <2>2
<1>7. ClosedOK'
  <2> SUFFICES ASSUME up, Current'.routed, ~Current'.known
               PROVE  /\ restart'.step \in Corked => Finished'
                      /\ conn \in writers =>
                            Finished' \/ \E j \in 1..Len(acks') : acks'[j].id = conn /\ acks'[j].kind # "data"
    BY DEF ClosedOK
  <2>1. Finished => Finished'
    BY DEF Finished
  <2>2. \A j \in 1..Len(acks) : j \in 1..Len(acks') /\ acks'[j] = acks[j]
    <3>1. ASSUME NEW a \in AckRecord, acks' = Append(acks, a)
          PROVE  \A j \in 1..Len(acks) : j \in 1..Len(acks') /\ acks'[j] = acks[j]
      BY <3>1 DEF FlowTyped
    <3> QED BY <3>1
  <2>3. restart'.step \in Corked => restart.step \in Corked
    BY DEF Corked
  <2>4. CASE Current.routed /\ ~Current.known
    BY <2>1, <2>2, <2>3, <2>4 DEF FlowInv, ClosedOK
  <2>5. CASE s = conn /\ r.known /\ ~q.known
    BY <2>5
  <2> QED BY <1>2, <2>4, <2>5
<1>8. Received \subseteq Received'
  <2>1. \A x \in Streams : readers[x] \in Reader /\ readers'[x] = IF x = s THEN q ELSE readers[x]
    BY <1>2 DEF FlowTyped
  <2>2. \A x \in Streams : readers[x].next \in Nat
    BY <2>1, ReaderFields
  <2>3. q.next \in Nat /\ readers[s].next <= q.next
    BY ReaderFields
  <2> HIDE DEF r
  <2>4. ASSUME NEW x \in Streams PROVE readers'[x].next \in Nat /\ readers[x].next <= readers'[x].next
    <3>1. CASE x = s
      BY <2>1, <2>3, <3>1
    <3>2. CASE x # s
      BY <2>1, <2>2, <3>2
    <3> QED BY <3>1, <3>2
  <2>5. Stored' \in Nat /\ Stored <= Stored'
    BY <1>1 DEF FlowTyped
  <2> QED BY <2>4, <2>5, ReceivedGrows
<1>9. AcksOK'
  <2>1. ReadPos(Current) <= ReadPos(Current)'
    <3>1. Current' = Current \/ (Current' = q /\ Current = r)
      BY <1>2
    <3>2. ReadPos(Current) \in Int
      BY DEF FlowTyped
    <3>3. ReadPos(r) <= ReadPos(q)
      BY ReaderFields DEF FlowTyped, ReadPos
    <3>4. ReadPos(Current)' = ReadPos(Current')
      BY DEF ReadPos
    <3> QED BY <3>1, <3>2, <3>3, <3>4
  <2>2. restart'.step \in Corked => restart.step \in Corked
    BY DEF Corked
  <2> QED BY <1>8, <2>1, <2>2, AcksGrow DEF FlowInv
<1>10. HeadOK'
  BY <1>8 DEF FlowInv, HeadOK
<1> QED BY <1>3, <1>4, <1>5, <1>6, <1>7, <1>9, <1>10 DEF FlowInv

(* What the broker knows of a Reader once it has told its sender *)
LEMMA ToldStanding ==
    ASSUME NEW r \in Reader, NEW kind
    PROVE  /\ Told(r, kind) \in Reader /\ Told(r, kind).next = r.next
           /\ Told(r, kind).buffer = r.buffer /\ Told(r, kind).early = r.early
           /\ Told(r, kind).routed = r.routed /\ Told(r, kind).closed = r.closed
           /\ Told(r, kind).known <=> (r.known /\ kind = "data")
<1>1. Rwnd(r) \in Int
  BY ReaderFields, JobStreamAssumption DEF Rwnd
<1> QED BY <1>1 DEF Told, Reader

(* A Reader is closed: it tells the job manager that it will take no more. *)
LEMMA CloseFlow ==
    ASSUME JSInv, FlowTyped, FlowTyped', FlowInv, NEW s \in Streams, s <= conn, CloseReader(s),
           UNCHANGED <<jobVars, conn, up, data, crashes, file, totalGap>>,
           streamDone' \in {"no", "read", "told"},
           restart' = restart \/ (restart'.step = "none" /\ s = conn),
           s = conn => restart'.step = "none"
    PROVE  FlowInv'
<1> DEFINE r == readers[s]
<1>1. r \in Reader /\ Len(r.buffer) <= RWnd /\ (r.closed => ~r.known) /\ ReadPos(r) \in Int /\ r.next \in Nat
  BY DEF FlowTyped, FlowInv, ValuesOK
<1>2. CASE r.closed
  <2>1. readers' = [readers EXCEPT ![s] = r] /\ acks' = acks
    BY <1>2 DEF CloseReader, FlowTyped
  <2> HIDE DEF r
  <2>2. r = readers[s] /\ ~r.known /\ r.next >= r.next /\ ReadPos(r) >= ReadPos(r)
    BY <1>1, <1>2 DEF r
  <2> QED BY <1>1, <1>2, <2>1, <2>2, ReaderActs
<1>3. CASE ~r.closed
  <2> DEFINE c == [r EXCEPT !.closed = TRUE]
             q == Told(c, "cancel")
             a == Ack(s, r, "cancel")
  <2>1. readers' = [readers EXCEPT ![s] = q] /\ Answer(<<a>>)
    BY <1>3 DEF CloseReader
  <2>2. c \in Reader /\ c.next = r.next /\ c.buffer = r.buffer /\ c.routed = r.routed
    BY <1>1 DEF Reader
  <2> HIDE DEF c
  <2>3. q \in Reader /\ q.next = r.next /\ q.buffer = r.buffer /\ q.routed = r.routed /\ ~q.known
    BY <2>2, ToldStanding
  <2> HIDE DEF q
  <2>4. readers'[s].next = r.next /\ readers'[s].buffer = r.buffer
    BY <2>1, <2>3 DEF FlowTyped
  <2>5. a \in AckRecord /\ a.id = s /\ a.kind = "cancel" /\ a.seq <= total /\ a.rwnd \in 0..RWnd
        /\ (s = conn => a \in GoodAcks')
    BY <1>1, <2>4, AckIsGood
  <2> HIDE DEF a
  <2>6. \/ ~up /\ acks' = acks
        \/ up /\ acks' = Append(acks, a) /\ Len(acks') = Len(acks) + 1 /\ acks'[Len(acks) + 1] = a
    BY <2>1, AnswerAppends
  <2>7. acks' = Append(acks, a) /\ acks'[Len(acks) + 1] = a => (Len(acks) + 1 \in TakenAcks' => a \in GoodAcks')
    BY <2>5 DEF TakenAcks
  <2>8. up /\ s = conn => \E j \in 1..Len(acks') : acks'[j].id = conn /\ acks'[j].kind # "data"
    <3>1. Len(acks) \in Nat
      BY DEF FlowTyped
    <3> QED BY <2>5, <2>6, <3>1
  <2>9. \/ acks' = acks
        \/ \E x \in AckRecord :
              /\ up /\ acks' = Append(acks, x) /\ x.seq <= total /\ x.rwnd \in 0..RWnd
              /\ Len(acks) + 1 \in TakenAcks' => x \in GoodAcks'
    BY <2>5, <2>6, <2>7
  <2>10. ReadPos(q) >= ReadPos(r) /\ q.next >= r.next /\ Len(q.buffer) <= RWnd
    BY <1>1, <2>3 DEF ReadPos
  <2>11. s = conn => restart'.step = "none" /\ restart'.step \notin Corked
    BY DEF Corked
  <2> HIDE DEF r
  <2>12. r = readers[s]
    BY DEF r
  <2> QED BY <2>1, <2>3, <2>8, <2>9, <2>10, <2>11, <2>12, ReaderActs
<1> QED BY <1>2, <1>3

(* An output loop at work on the latest stream has no restart beside it. *)
LEMMA LoopAlone ==
    ASSUME JSInv, NEW s \in Streams, loops[s].step # "none"
    PROVE  s <= conn /\ (s = conn => restart.step = "none")
<1>1. conn \in Nat /\ s \in Nat
  BY Bounds DEF Streams
<1> QED BY <1>1 DEF JSInv, ServerOK, RestartOK

LEMMA LoopReadsFlow ==
    ASSUME JSInv, FlowTyped, FlowTyped', FlowInv, NEW s \in Streams, LoopReads(s)
    PROVE  FlowInv'
<1> DEFINE r == readers[s]
           n == Smaller(ChunkSize, Len(r.buffer))
           left == SubSeq(r.buffer, n + 1, Len(r.buffer))
           rest == [r EXCEPT !.buffer = left]
<1>1. /\ loops[s].step = "read"
      /\ UNCHANGED <<jobVars, conn, up, data, jobStreamId, restart, crashes, storeVars>>
  BY DEF LoopReads
<1>2. s <= conn /\ (s = conn => restart.step = "none")
  BY <1>1, LoopAlone
<1>3. /\ r \in Reader /\ Len(r.buffer) <= RWnd /\ (r.closed => ~r.known) /\ ReadPos(r) \in Int /\ r.next \in Nat
      /\ r.buffer \in Seq(Int) /\ Len(r.buffer) \in Nat
  BY ReaderFields DEF FlowTyped, FlowInv, ValuesOK
<1>4. streamDone' \in {"no", "read", "told"}
  BY <1>1 DEF FlowInv, ValuesOK
<1>5. ASSUME NEW q \in Reader, readers' = [readers EXCEPT ![s] = q],
             q.next = r.next, q.early = r.early, q.routed = r.routed, q.closed = r.closed, q.known = r.known,
             Len(q.buffer) <= Len(r.buffer),
             acks' = acks \/ Answer(<<Ack(s, q, "data")>>)
      PROVE  FlowInv'
  <2>1. Len(q.buffer) \in Nat /\ Len(q.buffer) <= RWnd /\ ReadPos(q) >= ReadPos(r)
    BY <1>3, <1>5, ReaderFields, JobStreamAssumption DEF ReadPos
  <2>2. readers'[s].next = q.next /\ readers'[s].buffer = q.buffer
    BY <1>5 DEF FlowTyped
  <2> DEFINE a == Ack(s, q, "data")
  <2>3. a \in AckRecord /\ a.id = s /\ a.seq <= total /\ a.rwnd \in 0..RWnd
        /\ (s = conn => a \in GoodAcks')
    BY <1>1, <2>1, <2>2, AckIsGood
  <2> HIDE DEF a
  <2>4. \/ acks' = acks
        \/ up /\ acks' = Append(acks, a) /\ acks'[Len(acks) + 1] = a
    BY <1>5, AnswerAppends DEF a
  <2>5. acks' = Append(acks, a) /\ acks'[Len(acks) + 1] = a => (Len(acks) + 1 \in TakenAcks' => a \in GoodAcks')
    BY <1>1, <2>3 DEF TakenAcks
  <2>6. \/ acks' = acks
        \/ \E x \in AckRecord :
              /\ up /\ acks' = Append(acks, x) /\ x.seq <= total /\ x.rwnd \in 0..RWnd
              /\ Len(acks) + 1 \in TakenAcks' => x \in GoodAcks'
    BY <2>3, <2>4, <2>5
  <2>7. s = conn /\ up /\ q.known =>
               /\ restart'.step \notin Corked => q.next <= source.sent
               /\ source.id = conn => \A p \in q.early : p.seq + p.len <= source.sent
    BY <1>1, <1>2, <1>5 DEF FlowInv, FlowOK, Corked, Current
  <2>8. s = conn => restart'.step = "none"
    BY <1>1, <1>2
  <2> HIDE DEF r
  <2>9. r = readers[s] /\ q.next >= r.next
    BY <1>3, <1>5 DEF r
  <2> QED BY <1>1, <1>2, <1>3, <1>4, <1>5, <2>1, <2>6, <2>7, <2>8, <2>9, ReaderActs
<1>6. CASE ReadEnds(r)
  <2>1. readers' = [readers EXCEPT ![s] = r] /\ acks' = acks
    BY <1>6 DEF LoopReads, FlowTyped
  <2>2. Len(r.buffer) <= Len(r.buffer)
    BY <1>3
  <2> HIDE DEF r
  <2> QED BY <1>3, <1>5, <2>1, <2>2
<1>7. CASE ~ReadEnds(r)
  <2>1. n > 0
    BY <1>7 DEF LoopReads
  <2>2. n \in Nat /\ n <= Len(r.buffer)
    BY <1>3, JobStreamAssumption DEF Smaller
  <2>3. \/ Answer(<<Ack(s, rest, "data")>>) /\ readers' = [readers EXCEPT ![s] = Told(rest, "data")]
        \/ readers' = [readers EXCEPT ![s] = rest] /\ UNCHANGED acks
    BY <1>7 DEF LoopReads
  <2> HIDE DEF n
  <2>4. left \in Seq(Int) /\ Len(left) = Len(r.buffer) - n
    BY <1>3, <2>2
  <2> HIDE DEF left
  <2>5. /\ rest \in Reader /\ rest.next = r.next /\ rest.early = r.early /\ rest.routed = r.routed
        /\ rest.closed = r.closed /\ rest.known = r.known /\ rest.buffer = left
    BY <1>3, <2>4 DEF Reader
  <2>6. Len(rest.buffer) <= Len(r.buffer)
    BY <1>3, <2>2, <2>4, <2>5
  <2> HIDE DEF rest
  <2> DEFINE t == Told(rest, "data")
  <2>7. /\ t \in Reader /\ t.next = rest.next /\ t.buffer = rest.buffer /\ t.early = rest.early
        /\ t.routed = rest.routed /\ t.closed = rest.closed /\ t.known = rest.known
    <3>1. rest.known \in BOOLEAN /\ t.known \in BOOLEAN
      BY <2>5, ToldStanding, ReaderFields
    <3> QED BY <2>5, <3>1, ToldStanding
  <2>8. Ack(s, t, "data") = Ack(s, rest, "data")
    BY <2>7 DEF Ack, Rwnd
  <2>9. CASE readers' = [readers EXCEPT ![s] = t] /\ Answer(<<Ack(s, rest, "data")>>)
    <3> HIDE DEF t, r
    <3> QED BY <1>5, <2>5, <2>6, <2>7, <2>8, <2>9
  <2>10. CASE readers' = [readers EXCEPT ![s] = rest] /\ UNCHANGED acks
    <3> HIDE DEF r
    <3> QED BY <1>5, <2>5, <2>6, <2>10
  <2> QED BY <2>3, <2>9, <2>10
<1> QED BY <1>6, <1>7

LEMMA LoopStepsFlow ==
    ASSUME JSInv, FlowTyped, FlowTyped', FlowInv, NEW s \in Streams,
           LoopChecks(s) \/ LoopAppends(s) \/ LoopEnds(s)
    PROVE  FlowInv'
<1>1. s <= conn /\ (s = conn => restart.step = "none")
  BY LoopAlone DEF LoopChecks, LoopAppends, LoopEnds
<1>2. streamDone \in {"no", "read", "told"}
  BY DEF FlowInv, ValuesOK
<1>3. CASE LoopChecks(s)
  <2>1. UNCHANGED <<jobVars, conn, up, data, jobStreamId, restart, crashes, storeVars>>
    BY <1>3 DEF LoopChecks
  <2>2. Stored' = Stored /\ Stored <= Stored'
    BY <2>1 DEF Stored, FlowTyped
  <2>3. UNCHANGED <<readers, acks>> => FlowInv'
    BY <1>2, <2>1, <2>2, QuietFlow
  <2>4. CloseReader(s) => FlowInv'
    BY <1>1, <1>2, <2>1, CloseFlow
  <2> QED BY <1>3, <2>3, <2>4 DEF LoopChecks
<1>4. CASE LoopAppends(s)
  <2>1. UNCHANGED <<jobVars, connVars, jobStreamId, readers, restart, crashes, streamDone, totalGap>>
        /\ file' = file \o loops[s].chunk
    BY <1>4 DEF LoopAppends
  <2>2. loops[s].chunk \in Seq(Int) /\ file \in Seq(Int) /\ totalGap \in Nat
    BY LoopFields, StoreTyped DEF JSInv, ServerOK
  <2>3. Stored <= Stored'
    <3>1. Len(file') = Len(file) + Len(loops[s].chunk) /\ Len(loops[s].chunk) \in Nat /\ Len(file) \in Nat
      BY <2>1, <2>2
    <3> QED BY <2>1, <2>2, <3>1 DEF Stored
  <2> QED BY <1>2, <2>1, <2>3, QuietFlow
<1>5. CASE LoopEnds(s)
  <2>1. /\ streamDone' = "read" /\ CloseReader(s)
        /\ UNCHANGED <<jobVars, conn, up, data, jobStreamId, restart, crashes, file, totalGap>>
    BY <1>5 DEF LoopEnds
  <2> QED BY <1>1, <2>1, CloseFlow
<1> QED BY <1>3, <1>4, <1>5

(* The restart gives up: its Reader is closed. *)
LEMMA RestartStopsFlow ==
    ASSUME JSInv, FlowTyped, FlowTyped', FlowInv, RestartFails \/ (RestartPrepared /\ restart.answer = -1)
    PROVE  FlowInv'
<1>1. restart.step # "none" /\ restart' = NoRestart /\ CloseReader(restart.id)
  BY DEF RestartFails, RestartPrepared
<1>2. restart.id = conn
  BY <1>1 DEF JSInv, RestartOK
<1>3. UNCHANGED <<jobVars, conn, up, data, crashes, file, totalGap>>
  BY DEF RestartFails, RestartPrepared
<1>4. streamDone' \in {"no", "read", "told"}
  BY DEF RestartFails, RestartPrepared, FlowInv, ValuesOK
<1>5. restart'.step = "none" /\ conn \in Streams /\ conn <= conn
  BY <1>1, Bounds DEF NoRestart
<1> QED BY <1>1, <1>2, <1>3, <1>4, <1>5, CloseFlow

(* What taking packets in order leaves alone *)
SameStanding(r, q) ==
    q.known = r.known /\ q.routed = r.routed /\ q.closed = r.closed /\ q.early \subseteq r.early

LEMMA OrderedStanding ==
    ASSUME NEW r, ReaderOK(r), ~r.err, NEW p \in SentPackets, p.seq = r.next
    PROVE  /\ SameStanding(r, Ordered(r, p))
           /\ Ordered(r, p).next = p.seq + p.len
<1> DEFINE run == r.buffer \o [i \in 1..p.len |-> p.seq + i - 1]
           next == r.next + p.len
<1>1. r \in Reader /\ p.seq \in Nat /\ p.len \in Nat /\ r.next \in Nat
  BY PacketFields, ReaderFields DEF ReaderOK
<1>2. Ordered(r, p) = [r EXCEPT !.next = next, !.buffer = run, !.eof = (p.kind = "eof")]
  BY DEF Ordered
<1>3. next = p.seq + p.len
  BY <1>1
<1> HIDE DEF run, next
<1>4. /\ Ordered(r, p).next = next /\ Ordered(r, p).known = r.known /\ Ordered(r, p).routed = r.routed
      /\ Ordered(r, p).closed = r.closed /\ Ordered(r, p).early = r.early
  BY <1>1, <1>2 DEF Reader
<1> QED BY <1>3, <1>4 DEF SameStanding

LEMMA WithEarlyStanding ==
    ASSUME total \in Nat, NEW r, ReaderOK(r), ~r.err
    PROVE  /\ SameStanding(r, WithEarly(r))
           /\ \/ WithEarly(r).next = r.next
              \/ \E p \in r.early : p.seq = r.next /\ WithEarly(r).next = p.seq + p.len
<1>1. CASE \E p \in r.early : p.seq = r.next
  <2>1. PICK p \in r.early : p.seq = r.next /\ p = CHOOSE x \in r.early : x.seq = r.next
    BY <1>1
  <2>2. p \in SentPackets
    BY DEF ReaderOK
  <2> DEFINE q == Ordered(r, p)
  <2>3. WithEarly(r) = [q EXCEPT !.early = {}]
    BY <1>1, <2>1 DEF WithEarly
  <2>4. ReaderOK(q) /\ SameStanding(r, q) /\ q.next = p.seq + p.len
    BY <2>1, <2>2, OrderedIsOK, OrderedStanding
  <2> HIDE DEF q
  <2>5. /\ WithEarly(r).next = q.next /\ WithEarly(r).early = {} /\ WithEarly(r).known = q.known
        /\ WithEarly(r).routed = q.routed /\ WithEarly(r).closed = q.closed
    BY <2>3, <2>4 DEF ReaderOK, Reader
  <2> QED BY <2>1, <2>4, <2>5 DEF SameStanding
<1>2. CASE ~\E p \in r.early : p.seq = r.next
  BY <1>2 DEF WithEarly, SameStanding
<1> QED BY <1>1, <1>2

(* A packet arrives: what was sent fits the window; a terminal packet is the last. *)
LEMMA DataArrivesFlow ==
    ASSUME JSInv, FlowTyped, FlowTyped', FlowInv, DataArrives
    PROVE  FlowInv'
<1> DEFINE p  == Head(data)
           r  == Current
           in == WithEarly(Ordered(r, p))
           Receiving == ~r.closed /\ ~r.eof /\ ~r.err
           kind == IF in.eof THEN "fin" ELSE "data"
           Line(as) == \/ as = acks
                       \/ \E a \in AckRecord :
                             /\ up /\ as = Append(acks, a) /\ a.seq <= total /\ a.rwnd \in 0..RWnd
                             /\ Len(acks) + 1 \in TakenAcks' => a \in GoodAcks'
<1>1. data # <<>> /\ data' = Tail(data)
      /\ UNCHANGED <<jobVars, conn, up, jobStreamId, loops, restart, crashes, storeVars>>
  BY DEF DataArrives
<1>2. p = data[1] /\ 1 \in 1..Len(data) /\ Len(data) \in Nat
  BY <1>1 DEF FlowTyped
<1>3. /\ p.id = conn /\ source.id = conn /\ p.seq + p.len <= source.sent /\ p \in SentPackets
      /\ p.len = 0 => Len(data) = 1 /\ terminalEventSent
  BY <1>2 DEF FlowInv, LineOK, FlowTyped
<1>4. up /\ restart.step \notin {"stat", "create", "prepare"}
  BY <1>1 DEF JSInv, WireOK, CorkOK
<1>5. restart.step \in Corked => p \in EmptyPackets /\ p.len = 0 /\ Finished'
  <2> SUFFICES ASSUME restart.step \in Corked PROVE p \in EmptyPackets /\ p.len = 0 /\ Finished'
    OBVIOUS
  <2>1. p \in EmptyPackets /\ p.len = 0
    BY <1>2 DEF JSInv, CorkOK, EmptyPackets
  <2>2. data' = <<>>
    <3>1. Len(data) = 1 /\ data \in Seq(SentPackets)
      BY <1>3, <2>1 DEF FlowTyped
    <3> HIDE DEF p, r
    <3>2. Tail(data) \in Seq(SentPackets) /\ Len(Tail(data)) = 0
      BY <1>1, <3>1
    <3>3. \A t \in Seq(SentPackets) : Len(t) = 0 => t = <<>>
      OBVIOUS
    <3> QED BY <1>1, <3>2, <3>3
  <2> QED BY <1>1, <1>3, <2>1, <2>2 DEF Finished
<1>6. /\ r = readers[p.id] /\ r \in Reader /\ ReaderOK(r) /\ total \in Nat /\ conn \in Streams /\ conn <= conn
      /\ Len(r.buffer) <= RWnd /\ (r.closed => ~r.known)
  <2>1. r = readers[p.id] /\ r \in Reader /\ ReaderOK(r)
    BY <1>3 DEF FlowTyped, Current, JSInv, ServerOK
  <2>2. total \in Nat /\ conn \in Streams /\ conn \in Nat
    BY Bounds
  <2>3. Len(r.buffer) <= RWnd /\ (r.closed => ~r.known)
    BY <1>3, <2>1, <2>2 DEF FlowInv, ValuesOK
  <2> QED BY <2>1, <2>2, <2>3
<1>7. /\ r.next \in Nat /\ ReadPos(r) \in Int /\ Len(r.buffer) \in Nat /\ p.seq \in Nat /\ p.len \in Nat
      /\ r.early \subseteq SentPackets
  BY <1>3, <1>6, PacketFields, ReaderFields DEF FlowTyped, ReaderOK
<1>8. restart.step \in {"prepared", "start"} => r.buffer = <<>> /\ r.early \subseteq EmptyPackets
  BY DEF FlowInv, OpeningOK, JSInv, RestartOK, Current
<1>9. r.known => /\ \A e \in r.early : e.seq + e.len <= source.sent
                 /\ restart.step \notin Corked =>
                      r.next <= source.sent /\ source.sent <= ReadPos(r) + RWnd
  BY <1>3, <1>4 DEF FlowInv, FlowOK
<1>10. streamDone' \in {"no", "read", "told"}
  BY <1>1 DEF FlowInv, ValuesOK
<1>11. ASSUME NEW a \in AckRecord, Answer(<<a>>), a.seq <= total, a.rwnd \in 0..RWnd,
              Len(acks) + 1 \in TakenAcks' => a \in GoodAcks'
       PROVE  Line(acks') /\ acks' = Append(acks, a)
  <2>1. acks' = Append(acks, a)
    BY <1>4, <1>11, AnswerAppends
  <2> QED BY <1>4, <1>11, <2>1
<1> HIDE DEF Line
<1>12. ASSUME NEW q \in Reader, readers' = [readers EXCEPT ![conn] = q], Line(acks'),
              q.next >= r.next, ReadPos(q) >= ReadPos(r), Len(q.buffer) <= RWnd,
              q.closed => ~q.known, q.known => r.known, q.routed = r.routed,
              restart.step = "start" => q.next = r.next /\ q.buffer = <<>> /\ q.early \subseteq EmptyPackets,
              r.known => /\ restart.step \notin Corked => q.next <= source.sent
                         /\ \A e \in q.early : e.seq + e.len <= source.sent,
              r.known /\ ~q.known => \E j \in 1..Len(acks') : acks'[j].id = conn /\ acks'[j].kind # "data"
       PROVE  FlowInv'
  <2>1. \/ acks' = acks
        \/ \E a \in AckRecord :
              /\ up /\ acks' = Append(acks, a) /\ a.seq <= total /\ a.rwnd \in 0..RWnd
              /\ Len(acks) + 1 \in TakenAcks' => a \in GoodAcks'
    BY <1>12 DEF Line
  <2>2. r = readers[conn]
    BY DEF Current
  <2> HIDE DEF r, p
  <2>3. restart' = restart /\ restart'.step \notin {"stat", "create", "prepare"}
        /\ (restart'.step \in Corked => Finished')
    BY <1>1, <1>4, <1>5
  <2> QED BY <1>1, <1>6, <1>10, <1>12, <2>1, <2>2, <2>3, ReaderActs
<1>13. CASE UNCHANGED readers /\ Line(acks')
  <2>1. readers' = [readers EXCEPT ![conn] = r]
    BY <1>13 DEF FlowTyped, Current
  <2>2. restart.step = "start" => r.buffer = <<>> /\ r.early \subseteq EmptyPackets
    BY <1>8
  <2>3. r.next >= r.next /\ ReadPos(r) >= ReadPos(r)
    BY <1>7
  <2> HIDE DEF r, p
  <2> QED BY <1>6, <1>9, <1>12, <1>13, <2>1, <2>2, <2>3
<1>14. CASE ~r.known
  <2> DEFINE a == [id |-> p.id, seq |-> p.seq, rwnd |-> 0, kind |-> "cancel"]
  <2>1. UNCHANGED readers /\ (UNCHANGED acks \/ (r.routed /\ Answer(<<a>>)))
    BY <1>6, <1>14 DEF DataArrives
  <2>2. a \in AckRecord /\ a.seq <= total /\ a.rwnd \in 0..RWnd
    <3>1. p.id \in Streams /\ p.seq \in Nat /\ p.seq <= total
      <4>1. p.id \in Streams /\ p.seq + p.len <= total
        BY <1>3, PacketFields
      <4> QED BY <1>6, <1>7, <4>1
    <3>2. 0 \in 0..RWnd
      BY JobStreamAssumption
    <3> HIDE DEF p, r
    <3> QED BY <3>1, <3>2 DEF AckRecord
  <2> HIDE DEF a
  <2>3. r.routed => Len(acks) + 1 \notin TakenAcks'
    <3> SUFFICES ASSUME r.routed PROVE Len(acks) + 1 \notin TakenAcks'
      OBVIOUS
    <3>1. ~Finished /\ restart.step \notin Corked
          /\ (conn \in writers => \E j \in 1..Len(acks) : acks[j].id = conn /\ acks[j].kind # "data")
      BY <1>1, <1>4, <1>14 DEF FlowInv, ClosedOK, Finished
    <3>2. \A j \in 1..Len(acks) : j \in 1..((Len(acks) + 1) - 1) /\ (UNCHANGED acks \/ Answer(<<a>>) => acks'[j] = acks[j])
      <4>1. Len(acks) \in Nat /\ \A j \in 1..Len(acks) : Append(acks, a)[j] = acks[j]
        BY DEF FlowTyped
      <4>2. UNCHANGED acks \/ Answer(<<a>>) => acks' = acks \/ acks' = Append(acks, a)
        BY <1>4, AnswerAppends
      <4>3. \A j \in 1..Len(acks) : j \in 1..((Len(acks) + 1) - 1)
        BY <4>1
      <4> QED BY <4>1, <4>2, <4>3
    <3> QED BY <1>1, <2>1, <3>1, <3>2 DEF TakenAcks
  <2>4. Line(acks')
    <3>1. acks' = acks => Line(acks')
      BY DEF Line
    <3> QED BY <1>11, <2>1, <2>2, <2>3, <3>1
  <2> QED BY <1>13, <2>1, <2>4
<1>15. CASE r.known /\ Receiving /\ p.kind = "error"
  <2> DEFINE f == [r EXCEPT !.err = TRUE]
             q == Told(f, "fin")
             a == Ack(conn, r, "fin")
  <2>1. readers' = [readers EXCEPT ![conn] = q] /\ Answer(<<a>>)
    BY <1>3, <1>6, <1>15 DEF DataArrives
  <2>2. /\ f \in Reader /\ f.next = r.next /\ f.buffer = r.buffer /\ f.early = r.early
        /\ f.routed = r.routed /\ f.closed = r.closed
    BY <1>6 DEF Reader
  <2> HIDE DEF f
  <2>3. /\ q \in Reader /\ q.next = r.next /\ q.buffer = r.buffer /\ q.early = r.early
        /\ q.routed = r.routed /\ q.closed = r.closed /\ ~q.known
    BY <2>2, ToldStanding
  <2> HIDE DEF q
  <2>4. readers'[conn].next = r.next /\ readers'[conn].buffer = r.buffer
    BY <2>1, <2>3 DEF FlowTyped
  <2>5. a \in AckRecord /\ a.id = conn /\ a.kind = "fin" /\ a.seq <= total /\ a.rwnd \in 0..RWnd
        /\ a \in GoodAcks'
    BY <1>1, <1>6, <2>4, AckIsGood
  <2> HIDE DEF a
  <2>6. Line(acks') /\ acks' = Append(acks, a)
    BY <1>11, <2>1, <2>5
  <2>7. \E j \in 1..Len(acks') : acks'[j].id = conn /\ acks'[j].kind # "data"
    <3>1. Len(acks) + 1 \in 1..Len(acks') /\ acks'[Len(acks) + 1] = a
      BY <2>6 DEF FlowTyped
    <3> QED BY <2>5, <3>1
  <2>8. q.next >= r.next /\ ReadPos(q) >= ReadPos(r) /\ Len(q.buffer) <= RWnd
    BY <1>6, <1>7, <2>3 DEF ReadPos
  <2> HIDE DEF r, p
  <2> QED BY <1>8, <1>9, <1>12, <2>1, <2>3, <2>6, <2>7, <2>8
<1>16. CASE r.known /\ Receiving /\ p.kind # "error" /\ p.seq > r.next
  <2> DEFINE q == [r EXCEPT !.early = @ \cup {p}]
  <2>1. p.seq # r.next
    BY <1>7, <1>16
  <2>2. readers' = [readers EXCEPT ![p.id].early = @ \cup {p}] /\ UNCHANGED acks
    BY <1>6, <1>16, <2>1 DEF DataArrives
  <2>3. readers' = [readers EXCEPT ![conn] = q]
    BY <1>3, <1>6, <2>2
  <2>4. p \in Packet /\ r.early \subseteq Packet
    BY <1>3, <1>6, PacketFields, ReaderFields
  <2>5. /\ q \in Reader /\ q.next = r.next /\ q.buffer = r.buffer /\ q.early = r.early \cup {p}
        /\ q.routed = r.routed /\ q.closed = r.closed /\ q.known = r.known
    BY <1>6, <2>4 DEF Reader
  <2> HIDE DEF q
  <2>6. Line(acks')
    BY <2>2 DEF Line
  <2>7. q.next >= r.next /\ ReadPos(q) >= ReadPos(r) /\ Len(q.buffer) <= RWnd
    BY <1>6, <1>7, <2>5 DEF ReadPos
  <2>8. \A e \in q.early : e.seq + e.len <= source.sent
    BY <1>3, <1>9, <1>16, <2>5
  <2>9. restart.step = "start" => q.early \subseteq EmptyPackets /\ q.buffer = <<>>
    BY <1>5, <1>8, <2>5 DEF Corked
  <2>10. r.known /\ (restart.step \notin Corked => q.next <= source.sent)
    BY <1>9, <1>16, <2>5
  <2> HIDE DEF r, p
  <2> QED BY <1>6, <1>12, <2>3, <2>5, <2>6, <2>7, <2>8, <2>9, <2>10
<1>17. CASE r.known /\ Receiving /\ p.kind # "error" /\ p.seq = r.next
  <2> DEFINE o == Ordered(r, p)
             q == Told(in, kind)
             a == Ack(conn, in, kind)
  <2>1. readers' = [readers EXCEPT ![conn] = q] /\ Answer(<<a>>)
    BY <1>3, <1>6, <1>7, <1>17 DEF DataArrives
  <2>2. ReaderOK(o) /\ ~o.err /\ SameStanding(r, o) /\ o.next = p.seq + p.len /\ ReadPos(o) = ReadPos(r)
    BY <1>3, <1>6, <1>17, OrderedIsOK, OrderedStanding DEF ReadPos
  <2>3. /\ ReaderOK(in) /\ ReadPos(in) = ReadPos(o) /\ SameStanding(o, in)
        /\ in.next = o.next \/ \E e \in o.early : e.seq = o.next /\ in.next = e.seq + e.len
    BY <1>6, <2>2, WithEarlyIsOK, WithEarlyStanding DEF ReadPos
  <2>4. /\ Grown(r, q) /\ in \in Reader
        /\ p \in EmptyPackets /\ r.early \subseteq EmptyPackets => StillEmpty(r, q)
    BY <1>3, <1>6, <1>17, OrderedIsGrown
  <2>5. /\ q \in Reader /\ q.next = in.next /\ q.buffer = in.buffer /\ q.early = in.early
        /\ q.routed = in.routed /\ q.closed = in.closed /\ (q.known <=> (in.known /\ kind = "data"))
    BY <2>4, ToldStanding
  <2>6. kind \in {"data", "fin"}
    OBVIOUS
  <2> HIDE DEF in, q, kind, o
  <2>7. in.known = r.known /\ in.routed = r.routed /\ in.closed = r.closed /\ in.early \subseteq r.early
        /\ o.early \subseteq r.early
    BY <2>2, <2>3 DEF SameStanding
  <2>8. in.next <= source.sent
    BY <1>3, <1>9, <1>17, <2>2, <2>3, <2>7
  <2>9. in.next \in Nat /\ Len(in.buffer) \in Nat /\ ReadPos(in) = in.next - Len(in.buffer)
    BY <2>4, ReaderFields DEF ReadPos
  <2>10. restart.step \in Corked => StillEmpty(r, q) /\ r.buffer = <<>>
    <3>1. restart.step \in Corked => restart.step \in {"prepared", "start"}
      BY <1>4 DEF Corked
    <3> QED BY <1>5, <1>8, <2>4, <3>1
  <2>11. Len(in.buffer) <= RWnd
    <3>1. CASE restart.step \in Corked
      BY <2>5, <2>10, <3>1, JobStreamAssumption DEF StillEmpty
    <3>2. CASE restart.step \notin Corked
      <4>1. source.sent <= ReadPos(in) + RWnd /\ source.sent \in Nat /\ RWnd \in Nat
        BY <1>9, <1>17, <2>2, <2>3, <3>2, Bounds DEF FlowTyped
      <4> QED BY <2>8, <2>9, <4>1
    <3> QED BY <3>1, <3>2
  <2>12. in.next >= r.next
    <3>1. o.next >= r.next /\ o.next \in Nat
      BY <1>7, <1>17, <2>2
    <3>2. \A e \in o.early : e.len \in Nat
      BY <1>7, <2>7, PacketFields
    <3>3. in.next >= o.next
      BY <2>3, <2>9, <3>1, <3>2
    <3> QED BY <1>7, <2>9, <3>1, <3>3
  <2>13. readers'[conn].next = in.next /\ readers'[conn].buffer = in.buffer
    BY <2>1, <2>5 DEF FlowTyped
  <2>14. a \in AckRecord /\ a.id = conn /\ a.kind = kind /\ a.seq <= total /\ a.rwnd \in 0..RWnd
         /\ a \in GoodAcks'
    BY <1>1, <1>6, <2>4, <2>6, <2>11, <2>13, AckIsGood
  <2> HIDE DEF a
  <2>15. Line(acks') /\ acks' = Append(acks, a)
    BY <1>11, <2>1, <2>14
  <2>16. r.known /\ ~q.known => \E j \in 1..Len(acks') : acks'[j].id = conn /\ acks'[j].kind # "data"
    <3>1. Len(acks) + 1 \in 1..Len(acks') /\ acks'[Len(acks) + 1] = a
      BY <2>15 DEF FlowTyped
    <3>2. r.known /\ ~q.known => kind # "data"
      BY <2>5, <2>7
    <3> QED BY <2>14, <3>1, <3>2
  <2>17. q.next >= r.next /\ ReadPos(q) >= ReadPos(r) /\ Len(q.buffer) <= RWnd
    BY <1>7, <2>2, <2>3, <2>5, <2>9, <2>11, <2>12 DEF ReadPos
  <2>18. restart.step = "start" => q.next = r.next /\ q.buffer = <<>> /\ q.early \subseteq EmptyPackets
    BY <1>8, <2>10 DEF StillEmpty, Corked
  <2>19. r.known => /\ restart.step \notin Corked => q.next <= source.sent
                    /\ \A e \in q.early : e.seq + e.len <= source.sent
    BY <1>9, <2>5, <2>7, <2>8
  <2>20. (q.closed => ~q.known) /\ (q.known => r.known) /\ q.routed = r.routed
    BY <1>6, <2>5, <2>7
  <2> HIDE DEF r, p
  <2> QED BY <1>12, <2>1, <2>5, <2>15, <2>16, <2>17, <2>18, <2>19, <2>20
<1>18. CASE /\ ~(~r.known) /\ ~(r.known /\ Receiving /\ p.kind = "error")
            /\ ~(r.known /\ Receiving /\ p.kind # "error" /\ p.seq > r.next)
            /\ ~(r.known /\ Receiving /\ p.kind # "error" /\ p.seq = r.next)
  <2>1. UNCHANGED <<readers, acks>>
    BY <1>6, <1>18 DEF DataArrives
  <2>2. Line(acks')
    BY <2>1 DEF Line
  <2> QED BY <1>13, <2>1, <2>2
<1> QED BY <1>14, <1>15, <1>16, <1>17, <1>18

(* The other steps of a restart: they change what is noted of it, or the Reader
   before anything reaches it. *)
LEMMA RestartNotesFlow ==
    ASSUME JSInv, FlowTyped, FlowTyped', FlowInv, RestartStats \/ RestartStarted \/ Flush
    PROVE  FlowInv'
<1>1. /\ UNCHANGED <<jobVars, connVars, readers, crashes, streamDone, file, totalGap>>
      /\ \/ restart' = restart
         \/ restart.step = "stat" /\ restart'.step = "create"
         \/ restart.step = "started" /\ restart'.step = "none"
  <2>1. CASE RestartStats
    <3> DEFINE seq == Len(file) + totalGap
               q == [restart EXCEPT !.step = "create", !.seq = seq, !.gap = totalGap]
    <3>1. restart.step = "stat" /\ restart' = q
          /\ UNCHANGED <<jobVars, connVars, readers, crashes, streamDone, file, totalGap>>
      BY <2>1 DEF RestartStats
    <3>2. seq \in Nat /\ totalGap \in Nat
      BY StoreTyped DEF JSInv, Stored
    <3> HIDE DEF seq
    <3>3. q.step = "create"
      BY <3>2, RestartFields DEF Restart
    <3> QED BY <3>1, <3>3
  <2>2. CASE RestartStarted
    BY <2>2 DEF RestartStarted, NoRestart
  <2>3. CASE Flush
    BY <2>3 DEF Flush
  <2> QED BY <2>1, <2>2, <2>3
<1>2. Stored <= Stored'
  BY <1>1 DEF FlowTyped, Stored
<1>3. streamDone' \in {"no", "read", "told"}
  BY <1>1 DEF FlowInv, ValuesOK
<1> QED BY <1>1, <1>2, <1>3, QuietFlow

LEMMA RestartCreatesReaderFlow ==
    ASSUME JSInv, FlowTyped, FlowTyped', FlowInv, RestartCreatesReader
    PROVE  FlowInv'
<1> DEFINE q == ReaderFrom(restart.seq)
<1>1. /\ restart.step = "create" /\ restart' = [restart EXCEPT !.step = "prepare"]
      /\ readers' = [readers EXCEPT ![restart.id] = q]
      /\ UNCHANGED <<jobVars, connVars, loops, crashes, storeVars>>
  BY DEF RestartCreatesReader
<1>2. restart.id = conn /\ restart.seq \in Nat /\ restart'.step = "prepare"
  BY <1>1, RestartFields DEF JSInv, RestartOK, Restart
<1>3. q.next = restart.seq /\ q.buffer = <<>> /\ q.early = {}
  BY <1>2, FreshReader
<1>4. q.known /\ q.closed = FALSE
  BY DEF ReaderFrom, NoReader
<1> HIDE DEF q
<1>5. /\ \A s \in Streams : readers'[s] = IF s = conn THEN q ELSE readers[s]
      /\ Current' = q /\ Current = NoReader /\ NoReader.next = 0 /\ NoReader.buffer = <<>>
  BY <1>1, <1>2 DEF FlowTyped, Current, FlowInv, OpeningOK, NoReader
<1>6. Stored' = Stored
  BY <1>1 DEF Stored
<1>7. ValuesOK' /\ LineOK'
  <2>1. \A s \in Streams : Len(readers'[s].buffer) <= RWnd /\ (readers'[s].closed => ~readers'[s].known)
    BY <1>3, <1>4, <1>5, JobStreamAssumption DEF FlowInv, ValuesOK
  <2> QED BY <1>1, <2>1 DEF FlowInv, ValuesOK, LineOK
<1>8. OpeningOK'
  <2>1. \A s \in Streams : s > conn => s # conn
    BY DEF FlowTyped, Streams
  <2> QED BY <1>1, <1>2, <1>3, <1>4, <1>5, <2>1 DEF FlowInv, OpeningOK
<1>9. FlowOK' /\ ClosedOK'
  BY <1>2, <1>4, <1>5 DEF FlowOK, ClosedOK, Corked
<1>10. Received \subseteq Received'
  <2>1. \A s \in Streams : readers'[s].next \in Nat /\ readers[s].next <= readers'[s].next
    <3>1. \A s \in Streams : readers[s].next \in Nat
      BY DEF FlowTyped
    <3>2. readers[conn].next = 0 /\ q.next \in Nat /\ 0 <= q.next
      BY <1>2, <1>3, <1>5 DEF Current
    <3> QED BY <1>5, <3>1, <3>2
  <2>2. Stored' \in Nat /\ Stored <= Stored'
    BY <1>6 DEF FlowTyped
  <2> QED BY <2>1, <2>2, ReceivedGrows
<1>11. AcksOK'
  <2>1. ReadPos(Current) = 0 /\ ReadPos(Current)' = restart.seq
    <3>1. Len(NoReader.buffer) = 0 /\ Len(q.buffer) = 0
      BY <1>3, <1>5
    <3>2. ReadPos(NoReader) = 0 /\ ReadPos(q) = restart.seq
      <4>1. NoReader.next - Len(NoReader.buffer) = 0
        BY DEF NoReader
      <4>2. q.next - Len(q.buffer) = restart.seq
        BY <1>2, <1>3, <3>1
      <4> QED BY <4>1, <4>2 DEF ReadPos
    <3> QED BY <1>5, <3>2 DEF ReadPos
  <2>2. restart.step \in Corked
    BY <1>1 DEF Corked
  <2> QED BY <1>1, <1>2, <1>10, <2>1, <2>2, AcksGrow DEF FlowInv
<1>12. HeadOK'
  BY <1>1, <1>10 DEF FlowInv, HeadOK
<1> QED BY <1>7, <1>8, <1>9, <1>11, <1>12 DEF FlowInv

(* The new Reader moves over the gap, to where the job manager goes on. *)
LEMMA RestartMovesFlow ==
    ASSUME JSInv, FlowTyped, FlowTyped', FlowInv, RestartPrepared, restart.answer # -1
    PROVE  FlowInv'
<1> DEFINE gap == Larger(0, restart.answer - restart.seq)
           next == Current.next + gap
           q == [Current EXCEPT !.next = next]
<1>1. /\ restart.step = "prepared" /\ restart.answer \notin {-1, -2}
      /\ totalGap' = GapRecorded(gap) /\ readers' = [readers EXCEPT ![restart.id].next = @ + gap]
      /\ restart' = [restart EXCEPT !.step = "start"]
      /\ UNCHANGED <<jobVars, conn, up, data, acks, crashes, file, streamDone>>
  <2>1. UNCHANGED crashes
    BY DEF RestartPrepared
  <2> QED BY <2>1 DEF RestartPrepared
<1>2. /\ restart.id = conn /\ restart.gap = totalGap /\ restart'.step = "start"
      /\ Current.next = restart.seq /\ Current.buffer = <<>> /\ Current.early \subseteq EmptyPackets
  BY <1>1, RestartFields DEF JSInv, RestartOK, Restart, Current
<1>3. /\ pending = conn /\ source.id = conn
      /\ head = restart.answer /\ source.sent = head /\ restart.seq <= head
  BY <1>1 DEF FlowInv, OpeningOK
<1>4. restart.seq \in Nat /\ head \in Nat /\ totalGap \in Nat /\ Len(file) \in Nat
  BY RestartFields, Bounds, StoreTyped DEF JSInv
<1>5. gap \in Nat /\ next = head
  BY <1>2, <1>3, <1>4 DEF Larger
<1>6. readers' = [readers EXCEPT ![conn] = q]
  BY <1>1, <1>2 DEF FlowTyped, Current
<1>7. Stored <= Stored' /\ Stored' \in Nat
  <2>1. totalGap' = totalGap + gap
    <3> HIDE DEF gap
    <3> QED BY <1>1, <1>2, <1>4, <1>5 DEF GapRecorded
  <2> HIDE DEF gap
  <2> QED BY <1>1, <1>4, <1>5, <2>1 DEF Stored
<1> HIDE DEF gap
<1>8. q.next = head /\ q.buffer = <<>> /\ q.early = Current.early /\ q.known = Current.known
      /\ q.routed = Current.routed /\ q.closed = Current.closed
  <2> HIDE DEF next
  <2> QED BY <1>2, <1>5 DEF FlowTyped, Reader
<1> HIDE DEF q, next
<1>9. /\ \A s \in Streams : readers'[s] = IF s = conn THEN q ELSE readers[s]
      /\ Current' = q
  BY <1>1, <1>6 DEF FlowTyped, Current
<1>10. EmptyPackets' = EmptyPackets
  BY <1>1, SamePackets
<1>11. ValuesOK' /\ LineOK'
  <2>1. \A s \in Streams : Len(readers'[s].buffer) <= RWnd /\ (readers'[s].closed => ~readers'[s].known)
    <3>1. \A s \in Streams : Len(readers[s].buffer) <= RWnd /\ (readers[s].closed => ~readers[s].known)
      BY DEF FlowInv, ValuesOK
    <3> QED BY <1>8, <1>9, <3>1, JobStreamAssumption DEF Current
  <2> QED BY <1>1, <2>1 DEF FlowInv, ValuesOK, LineOK
<1>12. OpeningOK'
  <2>1. \A s \in Streams : s > conn => s # conn
    BY DEF FlowTyped, Streams
  <2> QED BY <1>1, <1>2, <1>3, <1>8, <1>9, <1>10, <2>1 DEF FlowInv, OpeningOK
<1>13. restart.step \in Corked /\ restart'.step \in Corked
  BY <1>1, <1>2 DEF Corked
<1>14. FlowOK'
  <2>1. up /\ Current.known => \A p \in Current.early : p.seq + p.len <= source.sent
    BY <1>1, <1>3 DEF FlowInv, FlowOK
  <2> QED BY <1>1, <1>8, <1>9, <1>13, <2>1 DEF FlowOK
<1>15. ClosedOK'
  BY <1>1, <1>8, <1>9, <1>13 DEF FlowInv, ClosedOK, Finished
<1>16. Received \subseteq Received'
  <2>1. \A s \in Streams : readers'[s].next \in Nat /\ readers[s].next <= readers'[s].next
    <3>1. \A s \in Streams : readers[s].next \in Nat
      BY DEF FlowTyped
    <3>2. readers[conn].next <= q.next /\ q.next \in Nat
      BY <1>2, <1>3, <1>4, <1>8 DEF Current
    <3> QED BY <1>9, <3>1, <3>2
  <2> QED BY <1>7, <2>1, ReceivedGrows
<1>17. AcksOK'
  <2>1. ReadPos(Current) <= ReadPos(Current)'
    BY <1>2, <1>3, <1>4, <1>8, <1>9 DEF ReadPos
  <2> QED BY <1>1, <1>13, <1>16, <2>1, AcksGrow DEF FlowInv
<1>18. HeadOK'
  BY <1>1, <1>16 DEF FlowInv, HeadOK
<1> QED BY <1>11, <1>12, <1>14, <1>15, <1>17, <1>18 DEF FlowInv

(* Connections and crashes *)
LEMMA ConnectionFlow ==
    ASSUME JSInv, FlowTyped, FlowTyped', FlowInv, ConnectionDrops \/ Reconnect \/ Crash
    PROVE  FlowInv'
<1>1. acks' = <<>> /\ data' = <<>>
  BY DEF ConnectionDrops, Reconnect, Crash, FlowInv, LineOK, JSInv, WireOK
<1>2. /\ NoReader.known = FALSE /\ NoReader.routed = FALSE /\ NoReader.buffer = <<>>
      /\ NoReader.closed = FALSE
  BY DEF NoReader
<1>3. LineOK'
  BY <1>1 DEF LineOK
<1>4. AcksOK'
  BY <1>1 DEF AcksOK, TakenAcks
<1>5. CASE ConnectionDrops
  <2>1. up' = FALSE /\ UNCHANGED <<jobVars, conn, serverVars, storeVars>>
    BY <1>5 DEF ConnectionDrops
  <2>2. Current' = Current /\ Stored' = Stored /\ EmptyPackets' = EmptyPackets /\ Received' = Received
    BY <2>1, SamePackets DEF Current, Stored, Received
  <2>3. ValuesOK' /\ OpeningOK' /\ FlowOK' /\ ClosedOK' /\ HeadOK'
    BY <2>1, <2>2 DEF FlowInv, ValuesOK, OpeningOK, FlowOK, ClosedOK, HeadOK
  <2> QED BY <1>3, <1>4, <2>3 DEF FlowInv
<1>6. CASE Reconnect
  <2>1. /\ conn < MaxConns /\ conn' = conn + 1 /\ writers' = {}
        /\ restart' = [NoRestart EXCEPT !.step = "stat", !.id = conn + 1]
        /\ UNCHANGED <<head, total, terminalEvent, terminalEventSent, terminalEventAcked, source,
                       maxAcked, pending, jobStreamId, readers, loops, crashes, storeVars>>
    BY <1>6 DEF Reconnect
  <2>2. restart'.step = "stat"
    BY <2>1 DEF NoRestart
  <2>3. conn \in Nat /\ conn' \in Streams /\ \A s \in Streams : s >= conn' => s > conn
    BY <2>1 DEF FlowTyped, Streams
  <2>4. \A s \in Streams : s >= conn' => readers'[s] = NoReader
    BY <2>1, <2>3 DEF FlowInv, OpeningOK
  <2>5. \A s \in Streams : s > conn' \/ s = conn' => s >= conn'
    BY <2>3 DEF Streams
  <2>6. Current' = NoReader
    BY <2>3, <2>4, <2>5 DEF Current
  <2>7. ValuesOK'
    BY <2>1 DEF FlowInv, ValuesOK
  <2>8. OpeningOK'
    BY <2>2, <2>4, <2>5 DEF OpeningOK
  <2>9. FlowOK' /\ ClosedOK'
    BY <1>2, <2>6 DEF FlowOK, ClosedOK
  <2>10. HeadOK'
    BY <2>1 DEF FlowInv, HeadOK, Received, Stored
  <2> QED BY <1>3, <1>4, <2>7, <2>8, <2>9, <2>10 DEF FlowInv
<1>7. CASE Crash
  <2>1. /\ crashes' = crashes + 1 /\ up' = FALSE /\ readers' = [s \in Streams |-> NoReader]
        /\ restart' = NoRestart /\ UNCHANGED <<jobVars, conn, streamDone>>
    BY <1>7 DEF Crash
  <2>2. crashes' \in Nat /\ crashes' # 0
    BY <2>1 DEF FlowInv, ValuesOK
  <2>3. ValuesOK'
    <3>1. \A s \in Streams : Len(readers'[s].buffer) <= RWnd /\ (readers'[s].closed => ~readers'[s].known)
      BY <1>2, <2>1, JobStreamAssumption
    <3> QED BY <2>1, <2>2, <3>1 DEF FlowInv, ValuesOK
  <2>4. OpeningOK'
    BY <2>1 DEF OpeningOK, NoRestart
  <2>5. FlowOK' /\ ClosedOK' /\ HeadOK'
    BY <2>1, <2>2 DEF FlowOK, ClosedOK, HeadOK
  <2> QED BY <1>3, <1>4, <2>3, <2>4, <2>5 DEF FlowInv
<1> QED BY <1>5, <1>6, <1>7

LEMMA FlowInit == JobStarted => FlowInv
<1> SUFFICES ASSUME JobStarted PROVE FlowInv
  OBVIOUS
<1>1. /\ head = 0 /\ total = 0 /\ terminalEvent = "none" /\ terminalEventSent = FALSE
      /\ terminalEventAcked = FALSE /\ source = [id |-> 1, conn |-> 1, sent |-> 0, rwnd |-> RWnd]
      /\ maxAcked = <<0, 0>> /\ pending = 0 /\ writers = {1}
      /\ conn = 1 /\ up = TRUE /\ data = <<>> /\ acks = <<>>
      /\ readers = [s \in Streams |-> IF s = 1 THEN ReaderFrom(0) ELSE NoReader]
      /\ restart = NoRestart /\ crashes = 0
      /\ streamDone = "no" /\ file = <<>> /\ totalGap = 0
  BY DEF JobStarted
<1>2. /\ ReaderFrom(0).next = 0 /\ ReaderFrom(0).buffer = <<>> /\ ReaderFrom(0).early = {}
      /\ ReaderFrom(0).known = TRUE /\ ReaderFrom(0).closed = FALSE /\ NoReader.buffer = <<>>
      /\ NoReader.closed = FALSE
  <2>1. 0 \in Nat
    OBVIOUS
  <2>2. ReaderFrom(0).known = TRUE /\ ReaderFrom(0).closed = FALSE /\ NoReader.buffer = <<>>
        /\ NoReader.closed = FALSE
    BY DEF ReaderFrom, NoReader
  <2> QED BY <2>1, <2>2, FreshReader
<1>3. 1 \in Streams /\ RWnd \in Nat /\ MaxBytes \in Nat
  BY JobStreamAssumption DEF Streams
<1>4. Current = ReaderFrom(0)
  BY <1>1, <1>3 DEF Current
<1>5. restart.step = "none" /\ restart.step \notin Corked
  BY <1>1 DEF NoRestart, Corked
<1>6. ValuesOK
  <2>1. \A s \in Streams : Len(readers[s].buffer) <= RWnd /\ (readers[s].closed => ~readers[s].known)
    BY <1>1, <1>2, <1>3
  <2>2. source.rwnd = RWnd /\ RWnd \in 0..RWnd /\ maxAcked \in (0..MaxBytes) \X (0..RWnd)
    BY <1>1, <1>3
  <2>3. /\ total <= MaxBytes /\ terminalEvent \in {"none"} \cup Terminals
        /\ terminalEventSent \in BOOLEAN /\ terminalEventAcked \in BOOLEAN
        /\ writers \subseteq {conn} /\ streamDone \in {"no", "read", "told"} /\ crashes \in Nat
        /\ terminalEventSent => terminalEvent # "none" /\ head = total
    <3>1. total <= MaxBytes /\ crashes \in Nat
      BY <1>1, <1>3
    <3>2. terminalEvent \in {"none"} \cup Terminals /\ streamDone \in {"no", "read", "told"}
      BY <1>1
    <3>3. terminalEventSent \in BOOLEAN /\ terminalEventAcked \in BOOLEAN /\ ~terminalEventSent
      BY <1>1
    <3>4. writers \subseteq {conn}
      BY <1>1
    <3> QED BY <3>1, <3>2, <3>3, <3>4
  <2> QED BY <2>1, <2>2, <2>3 DEF ValuesOK
<1>7. LineOK /\ AcksOK
  BY <1>1 DEF LineOK, AcksOK, TakenAcks
<1>8. OpeningOK
  <2>1. \A s \in Streams : s > 1 => s # 1
    BY DEF Streams
  <2> QED BY <1>1, <1>5, <2>1 DEF OpeningOK
<1>9. FlowOK /\ ClosedOK
  <2>1. ReadPos(Current) = 0
    BY <1>2, <1>4 DEF ReadPos
  <2> QED BY <1>1, <1>2, <1>3, <1>4, <2>1 DEF FlowOK, ClosedOK
<1>10. HeadOK
  BY <1>1 DEF HeadOK, Received, Stored
<1> QED BY <1>6, <1>7, <1>8, <1>9, <1>10 DEF FlowInv

LEMMA FlowStep ==
    ASSUME JSInv, FlowTyped, FlowTyped', FlowInv, [JSNext]_jsVars
    PROVE  FlowInv'
<1>1. CASE JobManagerSteps
  BY <1>1, ProgramFlow, SendDataFlow, SendTerminalFlow, AckArrivesFlow, PrepareConnectFlow,
     StartStreamFlow DEF JobManagerSteps
<1>2. CASE DataArrives
  BY <1>2, DataArrivesFlow
<1>3. ASSUME NEW s \in Streams, OutputLoop(s) PROVE FlowInv'
  BY <1>3, LoopReadsFlow, LoopStepsFlow DEF OutputLoop
<1>4. CASE RestartStreaming
  BY <1>4, RestartNotesFlow, RestartCreatesReaderFlow, RestartMovesFlow, RestartStopsFlow
     DEF RestartStreaming
<1>5. CASE ConnectionDrops \/ Reconnect \/ Flush \/ Crash
  BY <1>5, ConnectionFlow, RestartNotesFlow
<1>6. CASE UNCHANGED jsVars
  <2>1. UNCHANGED <<jobVars, connVars, readers, crashes, restart, streamDone, file, totalGap>>
    BY <1>6 DEF jsVars
  <2>2. Stored <= Stored'
    BY <2>1 DEF FlowTyped, Stored
  <2>3. streamDone' \in {"no", "read", "told"}
    BY <2>1 DEF FlowInv, ValuesOK
  <2> QED BY <2>1, <2>2, <2>3, QuietFlow
<1> QED BY <1>1, <1>2, <1>3, <1>4, <1>5, <1>6 DEF JSNext

(* The flow of the stream, until an append comes late: what the job manager has sent
   fits the Reader's window, every ACK it will heed names bytes a Reader has received,
   and a Reader that has been closed has told it so. *)
THEOREM FlowCorrect == JSSpec => [](~lateAppend => FlowInv)
<1>1. JobStarted => FlowInv
  BY FlowInit
<1>2. JSInv /\ FlowTyped /\ FlowTyped' /\ FlowInv /\ [JSNext]_jsVars => FlowInv'
  BY FlowStep
<1>3. JSInv => FlowTyped
  BY FlowTypes
<1> QED BY <1>1, <1>2, <1>3, LateStays, JobStreamCorrect, PTL DEF JSSpec

(* The job manager lets go of no byte but those a Reader has received, or the file
   has, as long as the server does not crash and no append comes late: whatever ACKs,
   Cancels, takeovers and failed restarts do. *)
THEOREM HeadAlwaysReceived == JSSpec => []HeadWasReceived
<1>1. ASSUME JSInv, FlowTyped, FlowInv PROVE HeadWasReceived
  <2> SUFFICES ASSUME crashes = 0, NEW p \in 0..(head - 1)
               PROVE  \/ \E s \in Streams : p < readers[s].next
                      \/ p < Len(file) + totalGap
    BY DEF HeadWasReceived
  <2>1. head \in Received /\ head \in Nat /\ p \in Nat /\ p < head
    BY <1>1, Bounds DEF FlowInv, HeadOK
  <2>2. CASE head <= Stored
    <3>1. Stored \in Nat /\ p < Stored
      BY <1>1, <2>1, <2>2 DEF FlowTyped
    <3> QED BY <3>1 DEF Stored
  <2>3. ASSUME NEW s \in Streams, head <= readers[s].next
        PROVE  p < readers[s].next
    BY <1>1, <2>1, <2>3 DEF FlowTyped
  <2> QED BY <2>1, <2>2, <2>3 DEF Received
<1>2. lateAppend => HeadWasReceived
  BY DEF HeadWasReceived
<1> QED BY <1>1, <1>2, FlowTypes, JobStreamCorrect, FlowCorrect, PTL

-----------------------------------------------------------------------------
(* Whether or not an append came late *)

(* Nothing in q is past n, n + 1, ... *)
NotPast(q, n) == q \in Seq(Int) /\ \A i \in 1..Len(q) : q[i] <= n + i - 1

(* Where what a Reader holds may begin *)
FirstHeld(r) == r.next - Len(r.buffer)

GapManager ==
    /\ total \in Nat /\ head \in Nat /\ terminalEvent \in {"none", "eof", "error"}
    /\ source \in [id : 0..MaxConns, conn : 0..MaxConns, sent : Nat, rwnd : Int]

GapWire ==
    /\ conn \in Streams /\ up \in BOOLEAN
    /\ data \in Seq(Packet) /\ acks \in Seq(AckRecord)

StreamGap(r, l) ==
    /\ r \in Reader /\ l \in Loop
    /\ NotPast(r.buffer, FirstHeld(r)) /\ NotPast(l.chunk, Place(l, r))
    /\ l.step \in {"none", "read"} => l.chunk = <<>>

(* A loop's bytes, and then its Reader's, are at or before where the file ends. *)
GapStreams ==
    /\ readers \in [Streams -> Reader] /\ loops \in [Streams -> Loop]
    /\ \A s \in Streams : StreamGap(readers[s], loops[s])
    /\ \A s \in Streams : s > conn => loops[s].step = "none"
    /\ \A s \in Streams : loops[s].step # "none" => Place(loops[s], readers[s]) <= Stored

(* So is the new Reader, from Stat on. *)
GapRestart ==
    /\ restart \in Restart
    /\ restart.step # "none" => restart.id = conn /\ loops[conn].step = "none"
    /\ restart.step \in {"create", "prepare", "prepared"} =>
          restart.seq <= Stored /\ restart.gap = totalGap
    /\ restart.step \in {"prepare", "prepared"} => FirstHeld(readers[conn]) <= restart.seq
    /\ restart.step \in {"start", "started"} => FirstHeld(readers[conn]) <= Stored

(* Nothing in a file is at or past its size plus its gap. *)
GapFile(f, g) == f \in Seq(Int) /\ g \in Nat /\ \A i \in 1..Len(f) : f[i] < Len(f) + g

GapStore ==
    /\ GapFile(file, totalGap)
    /\ disk = [file |-> disk.file, gap |-> disk.gap] /\ GapFile(disk.file, disk.gap)

GapInv == GapManager /\ GapWire /\ GapStreams /\ GapRestart /\ GapStore

LEMMA NotPastEmpty == \A n \in Int : NotPast(<<>>, n)
BY DEF NotPast

LEMMA NotPastRun ==
    ASSUME NEW n \in Int, NEW len \in Nat
    PROVE  /\ NotPast([i \in 1..len |-> n + i - 1], n)
           /\ Len([i \in 1..len |-> n + i - 1]) = len
BY DEF NotPast

LEMMA NotPastJoin ==
    ASSUME NEW q, NEW t, NEW n \in Int, NotPast(q, n), NotPast(t, n + Len(q))
    PROVE  NotPast(q \o t, n) /\ Len(q \o t) = Len(q) + Len(t)
<1>1. q \in Seq(Int) /\ t \in Seq(Int) /\ Len(q) \in Nat /\ Len(t) \in Nat
  BY DEF NotPast
<1>2. q \o t \in Seq(Int) /\ Len(q \o t) = Len(q) + Len(t)
  BY <1>1
<1>3. ASSUME NEW i \in 1..Len(q \o t)
      PROVE  (q \o t)[i] <= n + i - 1
  <2>1. CASE i <= Len(q)
    BY <1>1, <1>2, <2>1 DEF NotPast
  <2>2. CASE i > Len(q)
    <3>1. (q \o t)[i] = t[i - Len(q)] /\ i - Len(q) \in 1..Len(t)
      BY <1>1, <1>2, <2>2
    <3> QED BY <1>1, <3>1 DEF NotPast
  <2> QED BY <1>1, <1>2, <2>1, <2>2
<1> QED BY <1>2, <1>3 DEF NotPast

LEMMA NotPastParts ==
    ASSUME NEW q, NEW n \in Int, NotPast(q, n), NEW k \in 0..Len(q)
    PROVE  /\ NotPast(SubSeq(q, 1, k), n) /\ Len(SubSeq(q, 1, k)) = k
           /\ NotPast(SubSeq(q, k + 1, Len(q)), n + k)
           /\ Len(SubSeq(q, k + 1, Len(q))) = Len(q) - k
<1>1. q \in Seq(Int) /\ Len(q) \in Nat /\ k \in Nat
  BY DEF NotPast
<1>2. SubSeq(q, 1, k) \in Seq(Int) /\ Len(SubSeq(q, 1, k)) = k
  BY <1>1
<1>3. SubSeq(q, k + 1, Len(q)) \in Seq(Int) /\ Len(SubSeq(q, k + 1, Len(q))) = Len(q) - k
  BY <1>1
<1>4. \A i \in 1..k : SubSeq(q, 1, k)[i] = q[i]
  BY <1>1
<1>5. \A i \in 1..(Len(q) - k) : SubSeq(q, k + 1, Len(q))[i] = q[i + k]
  BY <1>1
<1> QED BY <1>1, <1>2, <1>3, <1>4, <1>5 DEF NotPast

(* A later beginning allows the same bytes. *)
LEMMA NotPastLater ==
    ASSUME NEW q, NEW n \in Int, NEW m \in Int, n <= m, NotPast(q, n)
    PROVE  NotPast(q, m)
BY DEF NotPast

(* q is r with bytes come in order, or the same. *)
Advanced(r, q) ==
    q \in Reader /\ FirstHeld(q) = FirstHeld(r) /\ NotPast(q.buffer, FirstHeld(q))

LEMMA SameIsAdvanced ==
    ASSUME NEW r, NEW q, SameReader(r, q), NotPast(r.buffer, FirstHeld(r))
    PROVE  Advanced(r, q)
BY DEF SameReader, Advanced, FirstHeld

LEMMA OrderedAdvances ==
    ASSUME NEW r \in Reader, NotPast(r.buffer, FirstHeld(r)), NEW p \in Packet, p.seq = r.next
    PROVE  Advanced(r, Ordered(r, p)) /\ Ordered(r, p).early = r.early
<1> DEFINE run  == [i \in 1..p.len |-> p.seq + i - 1]
           all  == r.buffer \o run
           next == r.next + p.len
           q    == Ordered(r, p)
<1>1. p.seq \in Nat /\ p.len \in Nat /\ r.next \in Nat /\ r.buffer \in Seq(Int) /\ Len(r.buffer) \in Nat
  BY ReaderFields DEF Packet
<1>2. NotPast(run, r.next) /\ Len(run) = p.len
  BY <1>1, NotPastRun
<1>3. q = [r EXCEPT !.next = next, !.buffer = all, !.eof = (p.kind = "eof")]
  BY DEF Ordered
<1> HIDE DEF run
<1>4. NotPast(all, FirstHeld(r)) /\ Len(all) = Len(r.buffer) + p.len
  <2>1. FirstHeld(r) \in Int /\ FirstHeld(r) + Len(r.buffer) = r.next
    BY <1>1 DEF FirstHeld
  <2> QED BY <1>2, <2>1, NotPastJoin
<1>5. all \in Seq(Int) /\ next \in Nat
  BY <1>1, <1>4 DEF NotPast
<1> HIDE DEF all, next, q
<1>6. MovedReader(r, q, next, all, p.kind = "eof")
  BY <1>3, <1>5, ReaderMoves
<1>7. FirstHeld(q) = FirstHeld(r)
  BY <1>1, <1>4, <1>6 DEF FirstHeld, MovedReader, next
<1> QED BY <1>4, <1>6, <1>7 DEF Advanced, MovedReader, q

LEMMA WithEarlyAdvances ==
    ASSUME NEW r \in Reader, NotPast(r.buffer, FirstHeld(r))
    PROVE  Advanced(r, WithEarly(r))
<1>1. CASE \E p \in r.early : p.seq = r.next
  <2>1. PICK p \in r.early : p.seq = r.next /\ p = CHOOSE x \in r.early : x.seq = r.next
    BY <1>1
  <2> DEFINE q == Ordered(r, p)
             w == WithEarly(r)
  <2>2. p \in Packet
    BY ReaderFields
  <2>3. w = [q EXCEPT !.early = {}]
    BY <1>1, <2>1 DEF WithEarly
  <2>4. Advanced(r, q)
    BY <2>1, <2>2, OrderedAdvances
  <2> HIDE DEF q, w
  <2>5. w \in Reader /\ w.next = q.next /\ w.buffer = q.buffer
    BY <2>3, <2>4 DEF Advanced, Reader
  <2> QED BY <2>4, <2>5 DEF Advanced, FirstHeld, w
<1>2. CASE ~\E p \in r.early : p.seq = r.next
  BY <1>2 DEF WithEarly, Advanced
<1> QED BY <1>1, <1>2

(* What a packet makes of a Reader *)
LEMMA ReceivedAdvances ==
    ASSUME NEW r \in Reader, NotPast(r.buffer, FirstHeld(r)), NEW p \in Packet, p.seq = r.next,
           NEW kind
    PROVE  /\ WithEarly(Ordered(r, p)) \in Reader
           /\ Advanced(r, Told(WithEarly(Ordered(r, p)), kind))
<1> DEFINE o == Ordered(r, p)
           w == WithEarly(o)
           t == Told(w, kind)
<1>1. Advanced(r, o)
  BY OrderedAdvances
<1> HIDE DEF o
<1>2. Advanced(o, w)
  BY <1>1, WithEarlyAdvances DEF Advanced
<1> HIDE DEF w
<1>3. SameReader(w, t)
  BY <1>2, ToldIsSame DEF Advanced
<1> HIDE DEF t
<1>4. Advanced(w, t)
  BY <1>2, <1>3, SameIsAdvanced DEF Advanced
<1> QED BY <1>1, <1>2, <1>4 DEF Advanced, o, w, t

-----------------------------------------------------------------------------
(* What keeps GapInv *)

LEMMA GapFields ==
    ASSUME GapInv
    PROVE  /\ total \in Nat /\ head \in Nat /\ source.id \in 0..MaxConns
           /\ source.conn \in 0..MaxConns /\ source.sent \in Nat /\ source.rwnd \in Int
           /\ conn \in Streams /\ conn \in 1..MaxConns /\ MaxConns \in Nat
           /\ readers \in [Streams -> Reader] /\ loops \in [Streams -> Loop]
           /\ acks \in Seq(AckRecord) /\ data \in Seq(Packet) /\ up \in BOOLEAN
           /\ restart \in Restart /\ restart.seq \in Nat /\ restart.gap \in Nat
           /\ restart.answer \in Int /\ restart.id \in 0..MaxConns
           /\ file \in Seq(Int) /\ Len(file) \in Nat /\ totalGap \in Nat /\ Stored \in Nat
<1>1. /\ total \in Nat /\ head \in Nat /\ source.id \in 0..MaxConns
      /\ source.conn \in 0..MaxConns /\ source.sent \in Nat /\ source.rwnd \in Int
  BY DEF GapInv, GapManager
<1>2. /\ conn \in Streams /\ conn \in 1..MaxConns /\ MaxConns \in Nat
      /\ acks \in Seq(AckRecord) /\ data \in Seq(Packet) /\ up \in BOOLEAN
  BY JobStreamAssumption DEF GapInv, GapWire, Streams
<1>3. readers \in [Streams -> Reader] /\ loops \in [Streams -> Loop]
  BY DEF GapInv, GapStreams
<1>4. /\ restart \in Restart /\ restart.seq \in Nat /\ restart.gap \in Nat
      /\ restart.answer \in Int /\ restart.id \in 0..MaxConns
  BY DEF GapInv, GapRestart, Restart
<1>5. file \in Seq(Int) /\ Len(file) \in Nat /\ totalGap \in Nat /\ Stored \in Nat
  BY DEF GapInv, GapStore, GapFile, Stored
<1> QED BY <1>1, <1>2, <1>3, <1>4, <1>5

(* The restart goes on with what it has, or is over. *)
RestartGoes ==
    \/ restart' = restart \/ restart' = NoRestart
    \/ /\ restart' \in Restart
       /\ restart'.id = restart.id /\ restart'.seq = restart.seq /\ restart'.gap = restart.gap
       /\ \/ restart.step = "prepare" /\ restart'.step = "prepared"
          \/ restart.step = "start" /\ restart'.step = "started"

(* While the file stays the same, a Reader holds what comes before and after what
   its loop has in hand. *)
LEMMA StreamsMove ==
    ASSUME GapInv, UNCHANGED <<conn, file, totalGap, disk>>, GapManager', GapWire', RestartGoes,
           readers' \in [Streams -> Reader], loops' \in [Streams -> Loop],
           \A s \in Streams : StreamGap(readers'[s], loops'[s]),
           \A s \in Streams : loops[s].step = "none" =>
               loops'[s].step = "none" /\ FirstHeld(readers'[s]) = FirstHeld(readers[s]),
           \A s \in Streams : loops'[s].step # "none" =>
               Place(loops'[s], readers'[s]) = Place(loops[s], readers[s])
    PROVE  GapInv'
<1>1. Stored' = Stored
  BY DEF Stored
<1>2. GapStreams'
  <2>1. \A s \in Streams : StreamGap(readers[s], loops[s])' <=> StreamGap(readers'[s], loops'[s])
    BY DEF StreamGap, FirstHeld, Place
  <2>2. \A s \in Streams : Place(loops[s], readers[s])' = Place(loops'[s], readers'[s])
    BY DEF Place
  <2>3. \A s \in Streams : loops'[s].step # "none" => loops[s].step # "none"
    OBVIOUS
  <2> QED BY <1>1, <2>1, <2>2, <2>3 DEF GapInv, GapStreams
<1>3. GapRestart'
  <2>1. conn \in Streams
    BY GapFields
  <2>2. restart.step # "none" => /\ loops'[conn].step = "none" /\ restart.id = conn
                                 /\ FirstHeld(readers'[conn]) = FirstHeld(readers[conn])
    BY <2>1 DEF GapInv, GapRestart
  <2>3. FirstHeld(readers[conn])' = FirstHeld(readers'[conn])
    BY DEF FirstHeld
  <2>4. NoRestart \in Restart /\ NoRestart.step = "none"
    BY JobStreamAssumption DEF NoRestart, Restart
  <2> QED BY <1>1, <2>2, <2>3, <2>4 DEF GapInv, GapRestart, RestartGoes
<1>4. GapStore'
  BY DEF GapInv, GapStore, GapFile
<1> QED BY <1>2, <1>3, <1>4 DEF GapInv

(* The job manager's steps, and what the connection does *)
LEMMA ServerStays ==
    ASSUME GapInv, UNCHANGED <<conn, readers, loops, file, totalGap, disk>>,
           GapManager', GapWire', RestartGoes
    PROVE  GapInv'
BY StreamsMove DEF GapInv, GapStreams

-----------------------------------------------------------------------------

LEMMA ProgramGap ==
    ASSUME GapInv, ProgramWrites \/ \E kind \in Terminals : ProgramEnds(kind)
    PROVE  GapInv'
<1>1. /\ UNCHANGED <<conn, readers, loops, file, totalGap, disk, up, data, acks, source>> /\ restart' = restart
      /\ total' \in Nat /\ head' \in Nat /\ terminalEvent' \in {"none", "eof", "error"}
  <2>1. CASE ProgramWrites
    <3>1. total' = total + 1 /\ head' \in {head, Larger(head, total + 1 - CirBufSize)}
      BY <2>1 DEF ProgramWrites
    <3>2. Larger(head, total + 1 - CirBufSize) \in Nat /\ total + 1 \in Nat
      <4>1. head \in Nat /\ total \in Nat /\ CirBufSize \in Nat
        BY GapFields, JobStreamAssumption
      <4> QED BY <4>1 DEF Larger
    <3> QED BY <2>1, <3>1, <3>2, GapFields DEF ProgramWrites, GapInv, GapManager
  <2>2. CASE \E kind \in Terminals : ProgramEnds(kind)
    BY <2>2, GapFields, JobStreamAssumption DEF ProgramEnds, GapInv, GapManager
  <2> QED BY <2>1, <2>2
<1>2. GapManager' /\ GapWire'
  BY <1>1 DEF GapInv, GapManager, GapWire
<1> QED BY <1>1, <1>2, ServerStays DEF RestartGoes

LEMMA SendGap ==
    ASSUME GapInv, SendData \/ SendTerminal
    PROVE  GapInv'
<1>1. ASSUME NEW p \in Packet, Transmit(p)
      PROVE  data' \in Seq(Packet)
  BY <1>1, GapFields DEF Transmit
<1>2. Connected => source.id \in Streams
  BY GapFields DEF Connected, Streams
<1>3. CASE SendData
  <2> DEFINE room == Window - (source.sent - head)
             n == Smaller(Smaller(room, ChunkSize), total - source.sent)
             p == [id |-> source.id, seq |-> source.sent, len |-> n, kind |-> "data"]
  <2>1. /\ Connected /\ n > 0 /\ Transmit(p) /\ source' = [source EXCEPT !.sent = @ + n]
        /\ UNCHANGED <<conn, readers, loops, file, totalGap, disk, up, acks, total, head, terminalEvent>>
        /\ restart' = restart
    BY <1>3 DEF SendData
  <2>2. n \in Nat
    <3>1. Window \in Int /\ source.sent - head \in Int /\ total - source.sent \in Int
      BY GapFields, JobStreamAssumption DEF Smaller, Window
    <3>2. room \in Int /\ ChunkSize \in Int
      BY <3>1, JobStreamAssumption
    <3> HIDE DEF room
    <3>3. n \in Int
      BY <3>1, <3>2 DEF Smaller
    <3> QED BY <2>1, <3>3
  <2> HIDE DEF n
  <2>3. p \in Packet
    BY <1>2, <2>1, <2>2, GapFields DEF Packet
  <2>4. source' \in [id : 0..MaxConns, conn : 0..MaxConns, sent : Nat, rwnd : Int]
    BY <2>1, <2>2 DEF GapInv, GapManager
  <2>5. GapManager' /\ GapWire'
    BY <1>1, <2>1, <2>3, <2>4 DEF GapInv, GapManager, GapWire
  <2> QED BY <2>1, <2>5, ServerStays DEF RestartGoes
<1>4. CASE SendTerminal
  <2> DEFINE p == [id |-> source.id, seq |-> total, len |-> 0, kind |-> terminalEvent]
  <2>1. /\ Connected /\ Transmit(p) /\ terminalEvent # "none"
        /\ UNCHANGED <<conn, readers, loops, file, totalGap, disk, up, acks, total, head, terminalEvent, source>>
        /\ restart' = restart
    BY <1>4 DEF SendTerminal
  <2>2. p \in Packet
    BY <1>2, <2>1, GapFields DEF Packet, GapInv, GapManager
  <2>3. GapManager' /\ GapWire'
    BY <1>1, <2>1, <2>2 DEF GapInv, GapManager, GapWire
  <2> QED BY <2>1, <2>3, ServerStays DEF RestartGoes
<1> QED BY <1>3, <1>4

LEMMA AckArrivesGap ==
    ASSUME GapInv, AckArrives
    PROVE  GapInv'
<1> DEFINE ack == Head(acks)
<1>1. /\ acks # <<>> /\ acks' = Tail(acks)
      /\ UNCHANGED <<conn, readers, loops, file, totalGap, disk, up, data, total, terminalEvent>>
      /\ restart' = restart
  BY DEF AckArrives
<1>2. RecvAck(ack) \/ UNCHANGED <<head, source>>
  BY DEF AckArrives
<1>3. ack \in AckRecord /\ Tail(acks) \in Seq(AckRecord)
  BY <1>1, GapFields, TailTyped
<1>4. ack.seq \in Nat /\ ack.rwnd \in Int
  BY <1>3 DEF AckRecord
<1> HIDE DEF ack
<1>5. \/ UNCHANGED <<head, source>>
      \/ head' = ack.seq /\ source' = [source EXCEPT !.rwnd = ack.rwnd]
  BY <1>2 DEF RecvAck
<1>6. /\ head' \in Nat
      /\ source' \in [id : 0..MaxConns, conn : 0..MaxConns, sent : Nat, rwnd : Int]
  BY <1>4, <1>5 DEF GapInv, GapManager
<1>7. GapManager' /\ GapWire'
  BY <1>1, <1>3, <1>6 DEF GapInv, GapManager, GapWire
<1> QED BY <1>1, <1>7, ServerStays DEF RestartGoes

LEMMA RequestsGap ==
    ASSUME GapInv, PrepareConnect \/ StartStream
    PROVE  GapInv'
<1>1. NoSource \in [id : 0..MaxConns, conn : 0..MaxConns, sent : Nat, rwnd : Int]
  BY JobStreamAssumption DEF NoSource
<1>2. CASE PrepareConnect
  <2> DEFINE start == StartSeq(restart.seq)
             src == [id |-> restart.id, conn |-> conn, sent |-> start, rwnd |-> 0]
  <2>1. start \in Nat
    BY GapFields DEF StartSeq, Larger
  <2>2. src \in [id : 0..MaxConns, conn : 0..MaxConns, sent : Nat, rwnd : Int]
    BY <2>1, GapFields
  <2>3. /\ restart.step = "prepare"
        /\ UNCHANGED <<conn, readers, loops, file, totalGap, disk, up, data, acks, total, terminalEvent>>
        /\ \E a \in {-1, -2, start} : restart' = [restart EXCEPT !.step = "prepared", !.answer = a]
        /\ head' \in {head, start} /\ source' \in {source, NoSource, src}
    <3>1. CASE terminalEventAcked
      BY <1>2, <3>1 DEF PrepareConnect
    <3>2. CASE ~terminalEventAcked /\ restart.seq > total
      BY <1>2, <3>2 DEF PrepareConnect
    <3>3. CASE ~terminalEventAcked /\ ~(restart.seq > total)
      BY <1>2, <3>3 DEF PrepareConnect
    <3> QED BY <3>1, <3>2, <3>3
  <2> HIDE DEF start, src
  <2>4. PICK a \in {-1, -2, start} : restart' = [restart EXCEPT !.step = "prepared", !.answer = a]
    BY <2>3
  <2>5. a \in Int
    BY <2>1
  <2>6. RestartGoes
    BY <2>3, <2>4, <2>5, GapFields DEF RestartGoes, Restart, Corked
  <2>7. GapManager' /\ GapWire'
    BY <1>1, <2>1, <2>2, <2>3 DEF GapInv, GapManager, GapWire
  <2> QED BY <2>3, <2>6, <2>7, ServerStays
<1>3. CASE StartStream
  <2>1. /\ restart.step = "start" /\ source' = [source EXCEPT !.rwnd = RWnd]
        /\ restart' = [restart EXCEPT !.step = "started"]
        /\ UNCHANGED <<conn, readers, loops, file, totalGap, disk, up, data, acks, total, head, terminalEvent>>
    BY <1>3 DEF StartStream
  <2>2. RestartGoes
    BY <2>1, GapFields DEF RestartGoes, Restart
  <2>3. source' \in [id : 0..MaxConns, conn : 0..MaxConns, sent : Nat, rwnd : Int]
    BY <2>1, JobStreamAssumption DEF GapInv, GapManager
  <2>4. GapManager' /\ GapWire'
    BY <2>1, <2>3 DEF GapInv, GapManager, GapWire
  <2> QED BY <2>1, <2>2, <2>4, ServerStays
<1> QED BY <1>2, <1>3

(* A Reader that goes on leaves its stream as it was, as the file sees it. *)
LEMMA AdvancedKeeps ==
    ASSUME NEW r, NEW l, StreamGap(r, l), NEW q, Advanced(r, q)
    PROVE  StreamGap(q, l) /\ Place(l, q) = Place(l, r)
BY DEF StreamGap, Advanced, Place, FirstHeld

LEMMA ReadersAdvance ==
    ASSUME GapInv, UNCHANGED <<conn, file, totalGap, disk, loops>>, GapManager', GapWire', RestartGoes,
           readers' \in [Streams -> Reader],
           \A s \in Streams : Advanced(readers[s], readers'[s])
    PROVE  GapInv'
<1>1. \A s \in Streams : /\ StreamGap(readers'[s], loops[s])
                         /\ Place(loops[s], readers'[s]) = Place(loops[s], readers[s])
  BY AdvancedKeeps DEF GapInv, GapStreams
<1> QED BY <1>1, GapFields, StreamsMove DEF Advanced

LEMMA GapReaders ==
    ASSUME GapInv, NEW s \in Streams
    PROVE  readers[s] \in Reader /\ NotPast(readers[s].buffer, FirstHeld(readers[s]))
           /\ Advanced(readers[s], readers[s])
BY DEF GapInv, GapStreams, StreamGap, Advanced

LEMMA DataArrivesGap ==
    ASSUME GapInv, DataArrives
    PROVE  GapInv'
<1> DEFINE p  == Head(data)
           r  == readers[p.id]
           in == WithEarly(Ordered(r, p))
           Receiving == ~r.closed /\ ~r.eof /\ ~r.err
           kind == IF in.eof THEN "fin" ELSE "data"
<1>1. /\ data # <<>> /\ data' = Tail(data) /\ restart' = restart
      /\ UNCHANGED <<conn, file, totalGap, disk, loops, up, total, head, terminalEvent, source>>
  BY DEF DataArrives
<1>2. p \in Packet /\ Tail(data) \in Seq(Packet)
  BY <1>1, GapFields, TailTyped
<1>3. p.id \in Streams /\ p.seq \in Nat
  BY <1>2 DEF Packet
<1>4. r \in Reader /\ NotPast(r.buffer, FirstHeld(r))
  BY <1>3, GapReaders
<1>5. GapManager'
  BY <1>1 DEF GapInv, GapManager
<1>6. ASSUME acks' \in Seq(AckRecord) PROVE GapWire'
  BY <1>1, <1>2, <1>6 DEF GapInv, GapWire
<1>7. CASE UNCHANGED readers /\ acks' \in Seq(AckRecord)
  BY <1>1, <1>5, <1>6, <1>7, ServerStays DEF RestartGoes
<1>8. ASSUME NEW q, readers' = [readers EXCEPT ![p.id] = q], acks' \in Seq(AckRecord), Advanced(r, q)
      PROVE  GapInv'
  <2>1. /\ readers' \in [Streams -> Reader]
        /\ \A s \in Streams : readers'[s] = IF s = p.id THEN q ELSE readers[s]
    BY <1>8, GapFields DEF Advanced
  <2>2. \A s \in Streams : Advanced(readers[s], readers'[s])
    BY <1>8, <2>1, GapReaders
  <2> QED BY <1>1, <1>5, <1>6, <1>8, <2>1, <2>2, ReadersAdvance DEF RestartGoes
<1>9. acks \in Seq(AckRecord)
  BY GapFields
<1>10. CASE ~r.known
  <2> DEFINE a == [id |-> p.id, seq |-> p.seq, rwnd |-> 0, kind |-> "cancel"]
  <2>1. UNCHANGED readers /\ (UNCHANGED acks \/ Answer(<<a>>))
    BY <1>10 DEF DataArrives
  <2>2. a \in AckRecord
    BY <1>3 DEF AckRecord
  <2> HIDE DEF a
  <2>3. acks' \in Seq(AckRecord)
    BY <1>9, <2>1, <2>2, AnswerTyped
  <2> QED BY <1>7, <2>1, <2>3
<1>11. CASE r.known /\ Receiving /\ p.kind = "error"
  <2> DEFINE e == [r EXCEPT !.err = TRUE]
             q == Told(e, "fin")
             a == Ack(p.id, r, "fin")
  <2>1. readers' = [readers EXCEPT ![p.id] = q] /\ Answer(<<a>>)
    BY <1>11 DEF DataArrives
  <2>2. e \in Reader /\ e.next = r.next /\ e.buffer = r.buffer
    BY <1>4 DEF Reader
  <2> HIDE DEF e
  <2>3. SameReader(e, q)
    BY <2>2, ToldIsSame
  <2>4. Advanced(r, q)
    BY <1>4, <2>2, <2>3 DEF SameReader, Advanced, FirstHeld
  <2>5. a \in AckRecord
    BY <1>3, <1>4, AckTyped
  <2> HIDE DEF q, a
  <2> QED BY <1>8, <1>9, <2>1, <2>4, <2>5, AnswerTyped
<1>12. CASE r.known /\ Receiving /\ p.kind # "error" /\ p.seq > r.next
  <2> DEFINE q == [r EXCEPT !.early = @ \cup {p}]
  <2>0. p.seq # r.next
    BY <1>3, <1>4, <1>12, ReaderFields
  <2>1. readers' = [readers EXCEPT ![p.id].early = @ \cup {p}] /\ UNCHANGED acks
    BY <1>12, <2>0 DEF DataArrives
  <2>2. readers' = [readers EXCEPT ![p.id] = q]
    BY <2>1
  <2>3. q \in Reader /\ q.next = r.next /\ q.buffer = r.buffer
    <3>1. r.early \cup {p} \in SUBSET Packet
      BY <1>2, <1>4, ReaderFields
    <3> QED BY <1>4, <3>1 DEF Reader
  <2> HIDE DEF q
  <2>4. Advanced(r, q)
    BY <1>4, <2>3 DEF Advanced, FirstHeld
  <2> QED BY <1>8, <1>9, <2>1, <2>2, <2>4
<1>13. CASE r.known /\ Receiving /\ p.kind # "error" /\ p.seq = r.next
  <2> DEFINE q == Told(in, kind)
             a == Ack(p.id, in, kind)
  <2>1. readers' = [readers EXCEPT ![p.id] = q] /\ Answer(<<a>>)
    BY <1>3, <1>4, <1>13, ReaderFields DEF DataArrives
  <2>2. in \in Reader /\ Advanced(r, q)
    BY <1>2, <1>4, <1>13, ReceivedAdvances
  <2>3. a \in AckRecord
    BY <1>3, <2>2, AckTyped
  <2> HIDE DEF q, a
  <2> QED BY <1>8, <1>9, <2>1, <2>2, <2>3, AnswerTyped
<1>14. CASE /\ ~(~r.known) /\ ~(r.known /\ Receiving /\ p.kind = "error")
            /\ ~(r.known /\ Receiving /\ p.kind # "error" /\ p.seq > r.next)
            /\ ~(r.known /\ Receiving /\ p.kind # "error" /\ p.seq = r.next)
  <2>1. UNCHANGED <<readers, acks>>
    BY <1>14 DEF DataArrives
  <2> QED BY <1>7, <1>9, <2>1
<1> QED BY <1>10, <1>11, <1>12, <1>13, <1>14

-----------------------------------------------------------------------------
(* The output loops *)

(* One stream's loop and Reader move. *)
LEMMA OneStreamMoves ==
    ASSUME GapInv, NEW s \in Streams, loops[s].step # "none",
           UNCHANGED <<conn, up, data, total, head, terminalEvent, source, file, totalGap, disk>>,
           restart' = restart, acks' \in Seq(AckRecord), NEW q, NEW m, StreamGap(q, m),
           readers' = [readers EXCEPT ![s] = q], loops' = [loops EXCEPT ![s] = m],
           m.step # "none" => Place(m, q) = Place(loops[s], readers[s])
    PROVE  GapInv'
<1>1. q \in Reader /\ m \in Loop
  BY DEF StreamGap
<1>2. /\ readers' \in [Streams -> Reader] /\ loops' \in [Streams -> Loop]
      /\ \A x \in Streams : /\ readers'[x] = IF x = s THEN q ELSE readers[x]
                            /\ loops'[x] = IF x = s THEN m ELSE loops[x]
  BY <1>1, GapFields
<1>3. \A x \in Streams : StreamGap(readers'[x], loops'[x])
  BY <1>2 DEF GapInv, GapStreams
<1>4. GapManager' /\ GapWire'
  BY DEF GapInv, GapManager, GapWire
<1>5. \A x \in Streams : loops[x].step = "none" =>
          loops'[x].step = "none" /\ FirstHeld(readers'[x]) = FirstHeld(readers[x])
  BY <1>2
<1>6. \A x \in Streams : loops'[x].step # "none" =>
          Place(loops'[x], readers'[x]) = Place(loops[x], readers[x])
  BY <1>2
<1> QED BY <1>2, <1>3, <1>4, <1>5, <1>6, StreamsMove DEF RestartGoes

LEMMA LoopReadsGap ==
    ASSUME GapInv, NEW s \in Streams, LoopReads(s)
    PROVE  GapInv'
<1> DEFINE r == readers[s]
           l == loops[s]
           n == Smaller(ChunkSize, Len(r.buffer))
           chunk == SubSeq(r.buffer, 1, n)
           left  == SubSeq(r.buffer, n + 1, Len(r.buffer))
           rest  == [r EXCEPT !.buffer = left]
<1>1. /\ l.step = "read" /\ restart' = restart
      /\ UNCHANGED <<conn, up, data, total, head, terminalEvent, source, file, totalGap, disk>>
  BY DEF LoopReads
<1>2. StreamGap(r, l) /\ r \in Reader /\ l \in Loop
  BY DEF GapInv, GapStreams, StreamGap
<1>3. l.chunk = <<>> /\ l.step # "none"
  BY <1>1, <1>2 DEF StreamGap
<1>4. r.next \in Nat /\ Len(r.buffer) \in Nat /\ r.buffer \in Seq(Int) /\ acks \in Seq(AckRecord)
  BY <1>2, ReaderFields, GapFields
<1>5. Place(l, r) = FirstHeld(r)
  BY <1>3, <1>4 DEF Place, FirstHeld
<1>6. readers \in [Streams -> Reader] /\ loops \in [Streams -> Loop]
  BY GapFields
<1>7. CASE ReadEnds(r)
  <2> DEFINE m == [l EXCEPT !.step = "check", !.ended = TRUE]
  <2>1. loops' = [loops EXCEPT ![s] = m] /\ UNCHANGED <<readers, acks>>
    BY <1>7 DEF LoopReads
  <2>2. MovedLoop(m, "check", <<>>, TRUE)
    BY <1>2, <1>3 DEF Loop, MovedLoop
  <2> HIDE DEF m
  <2>3. Place(m, r) = Place(l, r)
    BY <1>3, <2>2 DEF Place, MovedLoop
  <2>4. StreamGap(r, m)
    BY <1>2, <1>3, <2>2, <2>3 DEF StreamGap, MovedLoop
  <2>5. readers' = [readers EXCEPT ![s] = r]
    BY <1>6, <2>1
  <2> QED BY <1>1, <1>3, <1>4, <2>1, <2>3, <2>4, <2>5, OneStreamMoves
<1>8. CASE ~ReadEnds(r)
  <2> DEFINE m == [l EXCEPT !.step = "check", !.chunk = chunk]
  <2>1. n > 0 /\ loops' = [loops EXCEPT ![s] = m]
        /\ \/ Answer(<<Ack(s, rest, "data")>>) /\ readers' = [readers EXCEPT ![s] = Told(rest, "data")]
           \/ readers' = [readers EXCEPT ![s] = rest] /\ UNCHANGED acks
    BY <1>8 DEF LoopReads
  <2>2. n \in 0..Len(r.buffer)
    BY <1>4, <2>1, JobStreamAssumption DEF Smaller
  <2> HIDE DEF n
  <2>3. /\ NotPast(chunk, FirstHeld(r)) /\ Len(chunk) = n
        /\ NotPast(left, FirstHeld(r) + n) /\ Len(left) = Len(r.buffer) - n
    <3>1. NotPast(r.buffer, FirstHeld(r)) /\ FirstHeld(r) \in Int
      BY <1>2, <1>4 DEF StreamGap, FirstHeld
    <3> QED BY <2>2, <3>1, NotPastParts
  <2>4. chunk \in Seq(Int) /\ left \in Seq(Int)
    BY <2>3 DEF NotPast
  <2> HIDE DEF chunk, left
  <2>5. MovedLoop(m, "check", chunk, l.ended)
    BY <1>2, <2>4 DEF Loop, MovedLoop
  <2> HIDE DEF m
  <2>6. rest \in Reader /\ rest.next = r.next /\ rest.buffer = left
    BY <1>2, <2>4 DEF Reader
  <2> HIDE DEF rest
  <2>7. FirstHeld(rest) = FirstHeld(r) + n
    BY <1>4, <2>2, <2>3, <2>6 DEF FirstHeld
  <2>8. ASSUME NEW q \in Reader, q.next = rest.next, q.buffer = rest.buffer
        PROVE  StreamGap(q, m) /\ Place(m, q) = Place(l, r)
    <3>1. FirstHeld(q) = FirstHeld(r) + n
      BY <2>7, <2>8 DEF FirstHeld
    <3>2. Place(m, q) = FirstHeld(q) - n
      BY <2>3, <2>5 DEF Place, FirstHeld, MovedLoop
    <3>3. Place(m, q) = FirstHeld(r)
      BY <1>4, <2>2, <3>1, <3>2 DEF FirstHeld
    <3> QED BY <1>5, <2>3, <2>5, <2>6, <2>8, <3>1, <3>3 DEF StreamGap, MovedLoop
  <2>9. CASE Answer(<<Ack(s, rest, "data")>>) /\ readers' = [readers EXCEPT ![s] = Told(rest, "data")]
    <3>1. SameReader(rest, Told(rest, "data"))
      BY <2>6, ToldIsSame
    <3>2. acks' \in Seq(AckRecord)
      BY <1>4, <2>6, <2>9, AckTyped, AnswerTyped
    <3>3. StreamGap(Told(rest, "data"), m) /\ Place(m, Told(rest, "data")) = Place(l, r)
      BY <2>8, <3>1 DEF SameReader
    <3> QED BY <1>1, <1>3, <2>1, <2>9, <3>2, <3>3, OneStreamMoves
  <2>10. CASE readers' = [readers EXCEPT ![s] = rest] /\ UNCHANGED acks
    <3>1. StreamGap(rest, m) /\ Place(m, rest) = Place(l, r)
      BY <2>6, <2>8
    <3> QED BY <1>1, <1>3, <1>4, <2>1, <2>10, <3>1, OneStreamMoves
  <2> QED BY <2>1, <2>9, <2>10
<1> QED BY <1>7, <1>8

LEMMA LoopLeavesGap ==
    ASSUME GapInv, NEW s \in Streams, loops[s].step # "none",
           CloseReader(s), loops' = [loops EXCEPT ![s] = NoLoop], restart' = restart,
           UNCHANGED <<conn, up, data, total, head, terminalEvent, source, file, totalGap, disk>>
    PROVE  GapInv'
<1>1. /\ readers' \in [Streams -> Reader] /\ acks' \in Seq(AckRecord)
      /\ SameReader(readers[s], readers'[s])
  BY GapFields, CloseReaderEffect
<1>2. readers' = [readers EXCEPT ![s] = readers'[s]]
  <2>1. \A x \in Streams : x # s => readers'[x] = readers[x]
    BY GapFields DEF CloseReader
  <2> QED BY <1>1, <2>1, GapFields
<1>3. Advanced(readers[s], readers'[s])
  BY <1>1, GapReaders, SameIsAdvanced
<1>4. NoLoop \in Loop /\ NoLoop.step = "none" /\ NoLoop.chunk = <<>>
  BY LoopStops DEF MovedLoop
<1> DEFINE q == readers'[s]
<1>5. q \in Reader /\ NotPast(q.buffer, FirstHeld(q))
  BY <1>3 DEF Advanced
<1>6. StreamGap(q, NoLoop)
  <2>1. Place(NoLoop, q) \in Int
    BY <1>4, <1>5, ReaderFields DEF Place
  <2> QED BY <1>4, <1>5, <2>1, NotPastEmpty DEF StreamGap
<1> HIDE DEF q
<1> QED BY <1>1, <1>2, <1>4, <1>6, OneStreamMoves DEF q

LEMMA LoopChecksGap ==
    ASSUME GapInv, NEW s \in Streams, LoopChecks(s)
    PROVE  GapInv'
<1> DEFINE l == loops[s]
<1>1. /\ l.step = "check" /\ restart' = restart
      /\ UNCHANGED <<conn, up, data, total, head, terminalEvent, source, file, totalGap, disk>>
  BY DEF LoopChecks
<1>2. CASE ~IsJobStream(s)
  <2>1. CloseReader(s) /\ loops' = [loops EXCEPT ![s] = NoLoop]
    BY <1>2 DEF LoopChecks
  <2> QED BY <1>1, <2>1, LoopLeavesGap
<1>3. CASE IsJobStream(s)
  <2> DEFINE step == IF l.ended THEN "end" ELSE "append"
             m == [l EXCEPT !.step = step]
  <2>1. loops' = [loops EXCEPT ![s] = m] /\ UNCHANGED <<readers, acks>>
    BY <1>3 DEF LoopChecks
  <2>2. StreamGap(readers[s], l) /\ l \in Loop
    BY DEF GapInv, GapStreams, StreamGap
  <2>3. MovedLoop(m, step, l.chunk, l.ended) /\ step \in {"end", "append"}
    BY <2>2, LoopFields DEF Loop, MovedLoop
  <2> HIDE DEF m, step
  <2>4. Place(m, readers[s]) = Place(l, readers[s])
    BY <2>3 DEF Place, MovedLoop
  <2>5. StreamGap(readers[s], m)
    BY <2>2, <2>3, <2>4 DEF StreamGap, MovedLoop
  <2>6. readers' = [readers EXCEPT ![s] = readers[s]] /\ acks' \in Seq(AckRecord)
    BY <2>1, GapFields
  <2> QED BY <1>1, <2>1, <2>4, <2>5, <2>6, OneStreamMoves
<1> QED BY <1>2, <1>3

LEMMA LoopEndsGap ==
    ASSUME GapInv, NEW s \in Streams, LoopEnds(s)
    PROVE  GapInv'
BY LoopLeavesGap DEF LoopEnds

LEMMA PlaceTyped ==
    ASSUME NEW r \in Reader, NEW l \in Loop
    PROVE  /\ Place(l, r) \in Int /\ FirstHeld(r) \in Int
           /\ FirstHeld(r) = Place(l, r) + Len(l.chunk)
<1>1. r.next \in Nat /\ Len(r.buffer) \in Nat /\ Len(l.chunk) \in Nat
  BY ReaderFields, LoopFields
<1> QED BY <1>1 DEF Place, FirstHeld

LEMMA IdlePlace ==
    ASSUME NEW r \in Reader, NEW l \in Loop, l.chunk = <<>>
    PROVE  Place(l, r) = FirstHeld(r)
<1>1. r.next \in Nat /\ Len(r.buffer) \in Nat /\ Len(l.chunk) = 0
  BY ReaderFields
<1> QED BY <1>1 DEF Place, FirstHeld

(* What a file becomes when bytes not past its end are appended *)
LEMMA GapFileGrows ==
    ASSUME NEW f, NEW g, GapFile(f, g), NEW q, NEW n \in Int, NotPast(q, n), n <= Len(f) + g
    PROVE  GapFile(f \o q, g) /\ Len(f \o q) = Len(f) + Len(q) /\ Len(q) \in Nat
<1>1. f \in Seq(Int) /\ q \in Seq(Int) /\ g \in Nat /\ Len(f) \in Nat /\ Len(q) \in Nat
  BY DEF GapFile, NotPast
<1>2. f \o q \in Seq(Int) /\ Len(f \o q) = Len(f) + Len(q)
  BY <1>1
<1>3. ASSUME NEW i \in 1..Len(f \o q) PROVE (f \o q)[i] < Len(f \o q) + g
  <2>1. CASE i <= Len(f)
    <3>1. (f \o q)[i] = f[i] /\ i \in 1..Len(f) /\ f[i] \in Int
      BY <1>1, <1>2, <2>1
    <3>2. f[i] < Len(f) + g
      BY <3>1 DEF GapFile
    <3> QED BY <1>1, <1>2, <3>1, <3>2
  <2>2. CASE i > Len(f)
    <3>1. (f \o q)[i] = q[i - Len(f)] /\ i - Len(f) \in 1..Len(q) /\ q[i - Len(f)] \in Int
      BY <1>1, <1>2, <2>2
    <3>2. q[i - Len(f)] <= n + (i - Len(f)) - 1
      BY <3>1 DEF NotPast
    <3> QED BY <1>1, <1>2, <3>1, <3>2
  <2> QED BY <1>1, <1>2, <2>1, <2>2
<1> QED BY <1>1, <1>2, <1>3 DEF GapFile

LEMMA LoopAppendsGap ==
    ASSUME GapInv, NEW s \in Streams, LoopAppends(s)
    PROVE  GapInv'
<1> DEFINE r == readers[s]
           l == loops[s]
<1>1. /\ l.step = "append" /\ file' = file \o l.chunk /\ loops' = [loops EXCEPT ![s] = AtRead]
      /\ UNCHANGED <<conn, up, data, acks, total, head, terminalEvent, source, readers,
                     restart, totalGap, disk>>
  BY DEF LoopAppends
<1>2. StreamGap(r, l) /\ r \in Reader /\ l \in Loop /\ Place(l, r) <= Stored
  BY <1>1 DEF GapInv, GapStreams, StreamGap
<1>3. r.next \in Nat /\ Len(r.buffer) \in Nat /\ Len(l.chunk) \in Nat
  BY <1>2, ReaderFields, LoopFields
<1>4. GapFile(file', totalGap) /\ Len(file') = Len(file) + Len(l.chunk)
  <2>1. NotPast(l.chunk, Place(l, r)) /\ Place(l, r) \in Int
    BY <1>2, PlaceTyped DEF StreamGap
  <2>2. GapFile(file, totalGap) /\ Place(l, r) <= Len(file) + totalGap
    BY <1>2 DEF GapInv, GapStore, Stored
  <2> QED BY <1>1, <2>1, <2>2, GapFileGrows
<1>5. Stored' = Stored + Len(l.chunk) /\ Stored \in Nat
  BY <1>1, <1>4, GapFields, <1>3 DEF Stored
<1>6. AtRead \in Loop /\ AtRead.step = "read" /\ AtRead.chunk = <<>>
  BY LoopStarts DEF MovedLoop
<1>7. /\ loops' \in [Streams -> Loop]
      /\ \A x \in Streams : loops'[x] = IF x = s THEN AtRead ELSE loops[x]
  BY <1>1, <1>6, GapFields
<1>8. Place(AtRead, r) = Place(l, r) + Len(l.chunk) /\ Place(AtRead, r) \in Int /\ Place(l, r) \in Int
  <2>1. Place(AtRead, r) = FirstHeld(r)
    BY <1>2, <1>6, IdlePlace
  <2> QED BY <1>2, <2>1, PlaceTyped
<1>9. StreamGap(r, AtRead)
  BY <1>2, <1>6, <1>8, NotPastEmpty DEF StreamGap
<1>10. GapStreams'
  <2>1. \A x \in Streams : StreamGap(readers[x], loops[x])' <=> StreamGap(readers[x], loops'[x])
    BY <1>1 DEF StreamGap, FirstHeld, Place
  <2>2. \A x \in Streams : Place(loops[x], readers[x])' = Place(loops'[x], readers[x])
    BY <1>1 DEF Place
  <2>3. Place(AtRead, r) <= Stored'
    BY <1>2, <1>3, <1>5, <1>8
  <2>4. ASSUME NEW x \in Streams, loops[x].step # "none" PROVE Place(loops[x], readers[x]) <= Stored'
    <3>1. Place(loops[x], readers[x]) <= Stored /\ readers[x] \in Reader /\ loops[x] \in Loop
      BY <2>4 DEF GapInv, GapStreams
    <3>2. Place(loops[x], readers[x]) \in Int
      BY <3>1, PlaceTyped
    <3> QED BY <1>3, <1>5, <3>1, <3>2
  <2>5. \A x \in Streams : StreamGap(readers[x], loops'[x])
    BY <1>7, <1>9 DEF GapInv, GapStreams
  <2>6. \A x \in Streams : loops'[x].step # "none" => Place(loops'[x], readers[x]) <= Stored'
    BY <1>7, <2>3, <2>4
  <2>7. \A x \in Streams : x > conn => loops'[x].step = "none"
    BY <1>1, <1>7 DEF GapInv, GapStreams
  <2> QED BY <1>1, <1>7, <2>1, <2>2, <2>5, <2>6, <2>7, GapFields DEF GapStreams
<1>11. GapRestart'
  <2>1. conn \in Streams /\ (restart.step # "none" => loops'[conn].step = "none")
    BY <1>1, <1>7, GapFields DEF GapInv, GapRestart
  <2>2. \A n \in Int : n <= Stored => n <= Stored'
    BY <1>3, <1>5
  <2>3. FirstHeld(readers[conn]) \in Int /\ restart.seq \in Int
    <3>1. readers[conn] \in Reader /\ loops[conn] \in Loop
      BY GapFields
    <3> QED BY <3>1, PlaceTyped, GapFields
  <2>4. FirstHeld(readers[conn])' = FirstHeld(readers[conn])
    BY <1>1 DEF FirstHeld
  <2> QED BY <1>1, <2>1, <2>2, <2>3, <2>4 DEF GapInv, GapRestart
<1>12. GapManager' /\ GapWire' /\ GapStore'
  BY <1>1, <1>4 DEF GapInv, GapManager, GapWire, GapStore, GapFile
<1> QED BY <1>10, <1>11, <1>12 DEF GapInv

-----------------------------------------------------------------------------
(* restartStreaming *)

LEMMA RestartStopsGap ==
    ASSUME GapInv, restart' = NoRestart, CloseReader(restart.id), restart.step # "none",
           UNCHANGED <<conn, up, data, total, head, terminalEvent, source, loops,
                       file, totalGap, disk>>
    PROVE  GapInv'
<1>1. restart.id \in Streams
  BY GapFields DEF GapInv, GapRestart
<1>2. /\ readers' \in [Streams -> Reader] /\ acks' \in Seq(AckRecord)
      /\ \A x \in Streams : SameReader(readers[x], readers'[x])
  BY <1>1, GapFields, CloseReaderEffect
<1>3. \A x \in Streams : Advanced(readers[x], readers'[x])
  BY <1>2, GapReaders, SameIsAdvanced
<1>4. GapManager' /\ GapWire'
  BY <1>2 DEF GapInv, GapManager, GapWire
<1> QED BY <1>2, <1>3, <1>4, ReadersAdvance DEF RestartGoes

LEMMA RestartStatsGap ==
    ASSUME GapInv, RestartStats
    PROVE  GapInv'
<1> DEFINE seq == Len(file) + totalGap
           q == [restart EXCEPT !.step = "create", !.seq = seq, !.gap = totalGap]
<1>1. /\ restart.step = "stat" /\ restart' = q
      /\ UNCHANGED <<conn, up, data, acks, total, head, terminalEvent, source, readers, loops,
                     file, totalGap, disk>>
  BY DEF RestartStats
<1>2. seq \in Nat /\ totalGap \in Nat /\ seq = Stored
  BY GapFields DEF Stored
<1> HIDE DEF seq
<1>3. RestartAt(q, "create", restart.id, seq, totalGap)
  BY <1>2, GapFields DEF Restart, RestartAt, Corked
<1> HIDE DEF q
<1>4. Stored' = Stored
  BY <1>1 DEF Stored
<1>5. GapRestart'
  BY <1>1, <1>2, <1>3, <1>4 DEF GapInv, GapRestart, RestartAt
<1>6. GapManager' /\ GapWire' /\ GapStreams' /\ GapStore'
  BY <1>1, <1>4 DEF GapInv, GapManager, GapWire, GapStreams, StreamGap, FirstHeld, Place, GapStore, GapFile
<1> QED BY <1>5, <1>6 DEF GapInv

(* The new Reader of the restart, whose stream has no loop yet *)
LEMMA NewReaderGap ==
    ASSUME GapInv, restart.step # "none", NEW q \in Reader, NotPast(q.buffer, FirstHeld(q)),
           readers' = [readers EXCEPT ![conn] = q], UNCHANGED <<conn, loops>>,
           Stored' \in Nat, Stored <= Stored'
    PROVE  GapStreams' /\ readers'[conn] = q
<1>1. /\ conn \in Streams /\ loops[conn].step = "none" /\ loops[conn].chunk = <<>>
      /\ loops[conn] \in Loop
  BY GapFields DEF GapInv, GapRestart, GapStreams, StreamGap
<1>2. /\ readers' \in [Streams -> Reader]
      /\ \A x \in Streams : readers'[x] = IF x = conn THEN q ELSE readers[x]
  BY GapFields
<1>3. StreamGap(q, loops[conn])
  <2>1. Place(loops[conn], q) \in Int
    BY <1>1, ReaderFields DEF Place
  <2> QED BY <1>1, <2>1, NotPastEmpty DEF StreamGap
<1>4. \A x \in Streams : StreamGap(readers'[x], loops[x])
  BY <1>2, <1>3 DEF GapInv, GapStreams
<1>5. ASSUME NEW x \in Streams, loops[x].step # "none" PROVE Place(loops[x], readers'[x]) <= Stored'
  <2>1. readers'[x] = readers[x]
    BY <1>1, <1>2, <1>5
  <2>2. Place(loops[x], readers[x]) <= Stored /\ readers[x] \in Reader /\ loops[x] \in Loop
    BY <1>5 DEF GapInv, GapStreams
  <2>3. Place(loops[x], readers[x]) \in Int /\ Stored \in Int
    BY <2>2, PlaceTyped, GapFields
  <2> QED BY <2>1, <2>2, <2>3
<1>6. \A x \in Streams : (StreamGap(readers[x], loops[x])' <=> StreamGap(readers'[x], loops[x]))
                         /\ Place(loops[x], readers[x])' = Place(loops[x], readers'[x])
  BY DEF StreamGap, FirstHeld, Place
<1>7. GapStreams'
  BY <1>2, <1>4, <1>5, <1>6 DEF GapInv, GapStreams
<1> QED BY <1>1, <1>2, <1>7

LEMMA RestartCreatesReaderGap ==
    ASSUME GapInv, RestartCreatesReader
    PROVE  GapInv'
<1> DEFINE q == [restart EXCEPT !.step = "prepare"]
           r == ReaderFrom(restart.seq)
<1>1. /\ restart.step = "create" /\ restart' = q /\ readers' = [readers EXCEPT ![restart.id] = r]
      /\ UNCHANGED <<conn, up, data, acks, total, head, terminalEvent, source, loops,
                     file, totalGap, disk>>
  BY DEF RestartCreatesReader
<1>2. /\ restart.id = conn /\ loops[conn].step = "none" /\ restart.seq <= Stored
      /\ restart.gap = totalGap /\ restart.seq \in Nat /\ Stored \in Nat
  BY <1>1, GapFields DEF GapInv, GapRestart
<1>3. r \in Reader /\ FirstHeld(r) = restart.seq /\ r.buffer = <<>>
  <2>1. r \in Reader /\ r.next = restart.seq /\ r.buffer = <<>>
    BY <1>2, FreshReader
  <2> HIDE DEF r
  <2> QED BY <1>2, <2>1 DEF FirstHeld
<1> HIDE DEF r
<1>4. RestartAt(q, "prepare", restart.id, restart.seq, restart.gap)
  BY GapFields DEF Restart, RestartAt, Corked
<1> HIDE DEF q
<1>5. Stored' = Stored
  BY <1>1 DEF Stored
<1>6. NotPast(r.buffer, FirstHeld(r)) /\ Stored' \in Nat /\ Stored <= Stored'
  <2>1. restart.seq \in Int
    BY <1>2
  <2>2. NotPast(r.buffer, FirstHeld(r))
    BY <1>3, <2>1, NotPastEmpty
  <2> QED BY <1>2, <1>5, <2>2
<1>7. GapStreams' /\ readers'[conn] = r
  BY <1>1, <1>2, <1>3, <1>5, <1>6, NewReaderGap
<1>8. FirstHeld(readers[conn])' = FirstHeld(r)
  BY <1>1, <1>7 DEF FirstHeld
<1>9. GapRestart'
  BY <1>1, <1>2, <1>3, <1>4, <1>5, <1>8 DEF GapRestart, RestartAt
<1>10. GapManager' /\ GapWire' /\ GapStore'
  BY <1>1 DEF GapInv, GapManager, GapWire, GapStore, GapFile
<1> QED BY <1>7, <1>9, <1>10 DEF GapInv

LEMMA RestartPreparedGap ==
    ASSUME GapInv, RestartPrepared
    PROVE  GapInv'
<1> DEFINE gap == Larger(0, restart.answer - restart.seq)
           r == readers[conn]
           moved == [r EXCEPT !.next = @ + gap]
           q == [restart EXCEPT !.step = "start"]
<1>1. /\ restart.step = "prepared"
      /\ UNCHANGED <<conn, up, data, total, head, terminalEvent, source, loops, file, disk>>
  BY DEF RestartPrepared
<1>2. /\ restart.id = conn /\ loops[conn].step = "none" /\ restart.seq <= Stored
      /\ restart.gap = totalGap /\ FirstHeld(r) <= restart.seq
  BY <1>1 DEF GapInv, GapRestart
<1>3. /\ restart.seq \in Nat /\ restart.answer \in Int /\ Stored \in Nat /\ totalGap \in Nat
      /\ r \in Reader /\ r.next \in Nat /\ r.buffer \in Seq(Int) /\ Len(r.buffer) \in Nat
  BY GapFields, ReaderFields
<1>4. CASE restart.answer = -1
  <2>1. CloseReader(restart.id) /\ restart' = NoRestart /\ totalGap' = totalGap
    BY <1>4 DEF RestartPrepared
  <2> QED BY <1>1, <2>1, RestartStopsGap
<1>5. CASE restart.answer # -1
  <2>1. /\ totalGap' = GapRecorded(gap) /\ restart' = q /\ acks' = acks
        /\ readers' = [readers EXCEPT ![restart.id].next = @ + gap]
    BY <1>5 DEF RestartPrepared
  <2>2. gap \in Nat
    BY <1>3 DEF Larger
  <2> HIDE DEF gap
  <2>3. totalGap' = totalGap + gap
    BY <1>2, <1>3, <2>1, <2>2 DEF GapRecorded
  <2>4. Stored' = Stored + gap
    BY <1>1, <2>2, <2>3, GapFields DEF Stored
  <2>5. readers' = [readers EXCEPT ![conn] = moved]
    BY <1>2, <2>1
  <2>6. moved \in Reader /\ moved.next = r.next + gap /\ moved.buffer = r.buffer
    <3> DEFINE next == r.next + gap
    <3>1. next \in Nat /\ moved = [r EXCEPT !.next = next]
      BY <1>3, <2>2
    <3> HIDE DEF next, moved
    <3>2. moved \in Reader /\ moved.next = next /\ moved.buffer = r.buffer
      BY <1>3, <3>1 DEF Reader
    <3> QED BY <3>2 DEF next
  <2> HIDE DEF moved
  <2>7. FirstHeld(moved) = FirstHeld(r) + gap /\ FirstHeld(r) \in Int
    <3> DEFINE b == Len(r.buffer)
    <3>1. b \in Nat /\ FirstHeld(moved) = (r.next + gap) - b /\ FirstHeld(r) = r.next - b
      BY <1>3, <2>6 DEF FirstHeld
    <3> HIDE DEF b
    <3> QED BY <1>3, <2>2, <3>1
  <2>8. NotPast(moved.buffer, FirstHeld(moved))
    <3>1. NotPast(r.buffer, FirstHeld(r))
      BY GapFields, GapReaders
    <3> QED BY <2>2, <2>6, <2>7, <3>1, NotPastLater
  <2>9. GapStreams' /\ readers'[conn] = moved
    <3>1. Stored' \in Nat /\ Stored <= Stored'
      BY <1>3, <2>2, <2>4
    <3> QED BY <1>1, <2>5, <2>6, <2>8, <3>1, NewReaderGap
  <2>10. RestartAt(q, "start", restart.id, restart.seq, restart.gap)
    BY GapFields DEF Restart, RestartAt, Corked
  <2> HIDE DEF q
  <2>11. GapRestart'
    <3>1. FirstHeld(readers[conn])' = FirstHeld(moved)
      BY <1>1, <2>9 DEF FirstHeld
    <3>2. FirstHeld(moved) <= Stored'
      BY <1>2, <1>3, <2>2, <2>4, <2>7
    <3> QED BY <1>1, <1>2, <2>1, <2>10, <3>1, <3>2 DEF GapRestart, RestartAt
  <2>12. GapStore'
    <3>1. GapFile(file, totalGap')
      <4>1. \A i \in 1..Len(file) : file[i] < Len(file) + totalGap /\ file[i] \in Int
        BY GapFields DEF GapInv, GapStore, GapFile
      <4>2. \A i \in 1..Len(file) : file[i] < Len(file) + totalGap'
        <5> SUFFICES ASSUME NEW i \in 1..Len(file) PROVE file[i] < Len(file) + totalGap'
          OBVIOUS
        <5>1. Len(file) \in Nat /\ file[i] \in Int /\ file[i] < Len(file) + totalGap
          BY <4>1, GapFields
        <5> QED BY <1>3, <2>2, <2>3, <5>1
      <4> QED BY <1>3, <2>2, <2>3, <4>2, GapFields DEF GapFile
    <3> QED BY <1>1, <3>1 DEF GapInv, GapStore, GapFile
  <2>13. GapManager' /\ GapWire'
    BY <1>1, <2>1 DEF GapInv, GapManager, GapWire
  <2> QED BY <2>9, <2>11, <2>12, <2>13 DEF GapInv
<1> QED BY <1>4, <1>5

LEMMA RestartStartedGap ==
    ASSUME GapInv, RestartStarted
    PROVE  GapInv'
<1>1. /\ restart.step = "started" /\ restart' = NoRestart
      /\ loops' = [loops EXCEPT ![restart.id] = AtRead]
      /\ UNCHANGED <<conn, up, data, acks, total, head, terminalEvent, source, readers,
                     file, totalGap, disk>>
  BY DEF RestartStarted
<1>2. restart.id = conn /\ FirstHeld(readers[conn]) <= Stored /\ conn \in Streams
  BY <1>1, GapFields DEF GapInv, GapRestart
<1>3. AtRead \in Loop /\ AtRead.step = "read" /\ AtRead.chunk = <<>>
  BY LoopStarts DEF MovedLoop
<1>4. /\ loops' \in [Streams -> Loop]
      /\ \A x \in Streams : loops'[x] = IF x = conn THEN AtRead ELSE loops[x]
  BY <1>1, <1>2, <1>3, GapFields
<1>5. /\ readers[conn] \in Reader /\ NotPast(readers[conn].buffer, FirstHeld(readers[conn]))
      /\ readers[conn].next \in Nat /\ Len(readers[conn].buffer) \in Nat
  BY <1>2, GapReaders, ReaderFields
<1>6. Place(AtRead, readers[conn]) = FirstHeld(readers[conn]) /\ FirstHeld(readers[conn]) \in Int
  BY <1>3, <1>5 DEF Place, FirstHeld
<1>7. StreamGap(readers[conn], AtRead)
  BY <1>3, <1>5, <1>6, NotPastEmpty DEF StreamGap
<1>8. Stored' = Stored
  BY <1>1 DEF Stored
<1>9. GapStreams'
  <2>1. \A x \in Streams : (StreamGap(readers[x], loops[x])' <=> StreamGap(readers[x], loops'[x]))
                           /\ Place(loops[x], readers[x])' = Place(loops'[x], readers[x])
    BY <1>1 DEF StreamGap, FirstHeld, Place
  <2>2. \A x \in Streams : StreamGap(readers[x], loops'[x])
    BY <1>4, <1>7 DEF GapInv, GapStreams
  <2>3. \A x \in Streams : loops'[x].step # "none" => Place(loops'[x], readers[x]) <= Stored
    BY <1>2, <1>4, <1>6 DEF GapInv, GapStreams
  <2>4. conn \in Nat /\ \A x \in Streams : x > conn => loops'[x].step = "none"
    <3>1. conn \in Nat
      BY GapFields
    <3>2. \A x \in Streams : x > conn => x # conn /\ loops[x].step = "none"
      BY <3>1 DEF GapInv, GapStreams
    <3> QED BY <1>4, <3>1, <3>2
  <2> QED BY <1>1, <1>4, <1>8, <2>1, <2>2, <2>3, <2>4, GapFields DEF GapStreams
<1>10. GapRestart'
  BY <1>1, JobStreamAssumption DEF GapRestart, NoRestart, Restart
<1>11. GapManager' /\ GapWire' /\ GapStore'
  BY <1>1 DEF GapInv, GapManager, GapWire, GapStore, GapFile
<1> QED BY <1>9, <1>10, <1>11 DEF GapInv

LEMMA RestartFailsGap ==
    ASSUME GapInv, RestartFails
    PROVE  GapInv'
BY RestartStopsGap DEF RestartFails

-----------------------------------------------------------------------------
(* Connections, the file store, and crashes *)

LEMMA Nobody ==
    /\ NoReader \in Reader /\ NoReader.buffer = <<>> /\ NoReader.next = 0
    /\ NoLoop \in Loop /\ NoLoop.chunk = <<>> /\ NoLoop.step = "none"
    /\ NoRestart \in Restart /\ NoRestart.step = "none"
<1>1. NoReader \in Reader /\ NoReader.buffer = <<>> /\ NoReader.next = 0
  BY DEF NoReader, Reader
<1>2. NoRestart \in Restart /\ NoRestart.step = "none"
  BY JobStreamAssumption DEF NoRestart, Restart
<1> QED BY <1>1, <1>2, LoopStops DEF MovedLoop

LEMMA ConnectionGap ==
    ASSUME GapInv, ConnectionDrops \/ Reconnect
    PROVE  GapInv'
<1>1. <<>> \in Seq(Packet) /\ <<>> \in Seq(AckRecord)
  OBVIOUS
<1>2. CASE ConnectionDrops
  <2>1. /\ up' = FALSE /\ data' = <<>> /\ acks' = <<>> /\ restart' = restart
        /\ UNCHANGED <<conn, total, head, terminalEvent, source, readers, loops,
                       file, totalGap, disk>>
    BY <1>2 DEF ConnectionDrops
  <2>2. GapManager' /\ GapWire'
    BY <1>1, <2>1 DEF GapInv, GapManager, GapWire
  <2> QED BY <2>1, <2>2, ServerStays DEF RestartGoes
<1>3. CASE Reconnect
  <2> DEFINE q == [NoRestart EXCEPT !.step = "stat", !.id = conn + 1]
  <2>1. /\ conn < MaxConns /\ conn' = conn + 1 /\ up' = TRUE /\ restart' = q
        /\ UNCHANGED <<data, acks, total, head, terminalEvent, source, readers, loops,
                       file, totalGap, disk>>
    BY <1>3 DEF Reconnect
  <2>2. conn + 1 \in Streams /\ conn + 1 \in 0..MaxConns /\ conn \in Nat
    <3>1. conn \in Nat /\ conn >= 1 /\ MaxConns \in Nat
      BY GapFields
    <3> QED BY <2>1, <3>1 DEF Streams
  <2>3. q \in Restart /\ q.step = "stat" /\ q.id = conn + 1
    <3> DEFINE t == [NoRestart EXCEPT !.step = "stat"]
    <3>1. t \in Restart /\ t.step = "stat"
      BY Nobody DEF Restart, Corked
    <3>2. q = [t EXCEPT !.id = conn + 1]
      OBVIOUS
    <3> HIDE DEF q, t
    <3> QED BY <2>2, <3>1, <3>2 DEF Restart
  <2> HIDE DEF q
  <2>4. loops[conn + 1].step = "none"
    BY <2>2 DEF GapInv, GapStreams
  <2>5. GapRestart'
    BY <2>1, <2>3, <2>4 DEF GapRestart
  <2>6. GapStreams'
    <3>1. \A s \in Streams : s > conn + 1 => loops[s].step = "none"
      BY <2>2 DEF GapInv, GapStreams, Streams
    <3> QED BY <2>1, <3>1 DEF GapInv, GapStreams, StreamGap, FirstHeld, Place, Stored
  <2>7. GapManager' /\ GapWire' /\ GapStore'
    BY <2>1, <2>2 DEF GapInv, GapManager, GapWire, GapStore, GapFile
  <2> QED BY <2>5, <2>6, <2>7 DEF GapInv
<1> QED BY <1>2, <1>3

LEMMA FlushGap ==
    ASSUME GapInv, Flush
    PROVE  GapInv'
<1>1. /\ disk' = [file |-> file, gap |-> totalGap] /\ restart' = restart
      /\ UNCHANGED <<conn, up, data, acks, total, head, terminalEvent, source, readers, loops,
                     file, totalGap>>
  BY DEF Flush, Flushed
<1>2. GapStore'
  BY <1>1 DEF GapInv, GapStore, GapFile
<1>3. GapManager' /\ GapWire' /\ GapStreams' /\ GapRestart'
  BY <1>1 DEF GapInv, GapManager, GapWire, GapStreams, GapRestart, StreamGap, FirstHeld, Place, Stored
<1> QED BY <1>2, <1>3 DEF GapInv

LEMMA BareStreams ==
    ASSUME NEW r \in Reader, r.buffer = <<>>, NEW l \in Loop, l.chunk = <<>>
    PROVE  StreamGap(r, l) /\ Place(l, r) = r.next
<1>1. r.next \in Nat /\ FirstHeld(r) \in Int /\ Place(l, r) \in Int /\ Place(l, r) = r.next
  BY ReaderFields DEF FirstHeld, Place
<1> QED BY <1>1, NotPastEmpty DEF StreamGap

LEMMA CrashGap ==
    ASSUME GapInv, Crash
    PROVE  GapInv'
<1>1. /\ up' = FALSE /\ data' = <<>> /\ acks' = <<>>
      /\ readers' = [s \in Streams |-> NoReader] /\ loops' = [s \in Streams |-> NoLoop]
      /\ restart' = NoRestart /\ file' = disk.file /\ totalGap' = disk.gap
      /\ UNCHANGED <<conn, total, head, terminalEvent, source, disk>>
  BY DEF Crash
<1>2. GapStore'
  BY <1>1 DEF GapInv, GapStore, GapFile
<1>3. GapManager' /\ GapWire'
  <2>1. <<>> \in Seq(Packet) /\ <<>> \in Seq(AckRecord)
    OBVIOUS
  <2> QED BY <1>1, <2>1 DEF GapInv, GapManager, GapWire
<1>4. GapStreams'
  <2>1. /\ readers' \in [Streams -> Reader] /\ loops' \in [Streams -> Loop]
        /\ \A s \in Streams : readers'[s] = NoReader /\ loops'[s] = NoLoop
    BY <1>1, Nobody
  <2>2. \A s \in Streams : StreamGap(readers'[s], loops'[s]) /\ loops'[s].step = "none"
    BY <2>1, Nobody, BareStreams
  <2>3. \A s \in Streams : StreamGap(readers[s], loops[s])' <=> StreamGap(readers'[s], loops'[s])
    BY DEF StreamGap, FirstHeld, Place
  <2> QED BY <2>1, <2>2, <2>3 DEF GapStreams
<1>5. GapRestart'
  BY <1>1, Nobody DEF GapRestart
<1> QED BY <1>2, <1>3, <1>4, <1>5 DEF GapInv

LEMMA JobStartedGap == JobStarted => GapInv
<1> SUFFICES ASSUME JobStarted PROVE GapInv
  OBVIOUS
<1>1. GapManager
  BY JobStreamAssumption DEF JobStarted, GapManager
<1>2. GapWire
  BY JobStreamAssumption DEF JobStarted, GapWire, Streams
<1>3. GapStore
  BY DEF JobStarted, GapStore, GapFile
<1>4. /\ file = <<>> /\ totalGap = 0 /\ Stored = 0 /\ conn = 1
      /\ readers = [s \in Streams |-> IF s = 1 THEN ReaderFrom(0) ELSE NoReader]
      /\ loops = [s \in Streams |-> IF s = 1 THEN AtRead ELSE NoLoop]
  BY DEF JobStarted, Stored
<1>5. GapStreams
  <2>1. /\ ReaderFrom(0) \in Reader /\ ReaderFrom(0).buffer = <<>> /\ ReaderFrom(0).next = 0
        /\ AtRead \in Loop /\ AtRead.chunk = <<>>
    BY FreshReader, LoopStarts DEF MovedLoop
  <2>2. readers \in [Streams -> Reader] /\ loops \in [Streams -> Loop]
    BY <1>4, <2>1, Nobody
  <2>3. \A s \in Streams : readers[s].buffer = <<>> /\ readers[s].next = 0 /\ loops[s].chunk = <<>>
    BY <1>4, <2>1, Nobody
  <2>4. \A s \in Streams : StreamGap(readers[s], loops[s]) /\ Place(loops[s], readers[s]) = 0
    BY <2>2, <2>3, BareStreams
  <2>5. \A s \in Streams : s > conn => loops[s].step = "none"
    BY <1>4, Nobody DEF Streams
  <2> QED BY <1>4, <2>2, <2>4, <2>5 DEF GapStreams
<1>6. GapRestart
  BY Nobody DEF JobStarted, GapRestart
<1> QED BY <1>1, <1>2, <1>3, <1>5, <1>6 DEF GapInv

LEMMA GapStutter ==
    ASSUME GapInv, UNCHANGED jsVars
    PROVE  GapInv'
<1>1. /\ UNCHANGED <<conn, up, data, acks, total, head, terminalEvent, source, readers, loops,
                     file, totalGap, disk>>
      /\ restart' = restart
  BY DEF jsVars
<1>2. GapManager' /\ GapWire'
  BY <1>1 DEF GapInv, GapManager, GapWire
<1> QED BY <1>1, <1>2, ServerStays DEF RestartGoes

LEMMA GapStep ==
    ASSUME GapInv, [JSNext]_jsVars
    PROVE  GapInv'
<1>1. CASE JobManagerSteps
  BY <1>1, ProgramGap, SendGap, AckArrivesGap, RequestsGap DEF JobManagerSteps
<1>2. CASE DataArrives
  BY <1>2, DataArrivesGap
<1>3. CASE \E s \in Streams : OutputLoop(s)
  BY <1>3, LoopReadsGap, LoopChecksGap, LoopAppendsGap, LoopEndsGap DEF OutputLoop
<1>4. CASE RestartStreaming
  BY <1>4, RestartStatsGap, RestartCreatesReaderGap, RestartPreparedGap, RestartStartedGap,
     RestartFailsGap DEF RestartStreaming
<1>5. CASE ConnectionDrops \/ Reconnect
  BY <1>5, ConnectionGap
<1>6. CASE Flush
  BY <1>6, FlushGap
<1>7. CASE Crash
  BY <1>7, CrashGap
<1>8. CASE UNCHANGED jsVars
  BY <1>8, GapStutter
<1> QED BY <1>1, <1>2, <1>3, <1>4, <1>5, <1>6, <1>7, <1>8 DEF JSNext

(* At any pace of the output loops, over reconnects, requests refused, gaps and
   crashes: neither a loop nor a Reader holds a byte past where the file ends when
   that byte's turn comes. *)
THEOREM GapInvariant == JSSpec => []GapInv
<1>1. JobStarted => GapInv
  BY JobStartedGap
<1>2. GapInv /\ [JSNext]_jsVars => GapInv'
  BY GapStep
<1> QED BY <1>1, <1>2, PTL DEF JSSpec

(* size + totalgap, from which restartStreaming asks to go on, is never before the
   end of what the file has: the bytes that are missing are all accounted for,
   whatever the pace at which superseded loops check and append. *)
THEOREM GapAlwaysAccounts == JSSpec => []GapAccountsForLoss
<1>1. ASSUME GapInv PROVE GapAccountsForLoss
  <2>1. GapFile(file, totalGap)
    BY <1>1 DEF GapInv, GapStore
  <2>2. file # <<>> => Len(file) \in 1..Len(file)
    BY <2>1 DEF GapFile
  <2>3. file # <<>> => file[Len(file)] < Len(file) + totalGap
    BY <2>1, <2>2 DEF GapFile
  <2> QED BY <2>3 DEF GapAccountsForLoss, Last
<1> QED BY <1>1, GapInvariant, PTL

(* When restartStreaming takes the size and the gap of the file (Stat), no byte the
   file has is at or past the position it is about to ask for: what the file then
   gets twice is what an output loop appends after that. *)
AsksPastTheFile ==
    RestartStats => \A i \in 1..Len(file) : file[i] < restart'.seq

THEOREM StatAsksPastTheFile == JSSpec => [][AsksPastTheFile]_jsVars
<1>1. ASSUME GapInv PROVE AsksPastTheFile
  <2> SUFFICES ASSUME RestartStats, NEW i \in 1..Len(file) PROVE file[i] < restart'.seq
    BY DEF AsksPastTheFile
  <2>1. restart'.seq = Len(file) + totalGap
    BY <1>1, GapFields DEF RestartStats, Restart
  <2> QED BY <1>1, <2>1 DEF GapInv, GapStore, GapFile
<1> QED BY <1>1, GapInvariant, PTL

-----------------------------------------------------------------------------
(* The values of the variables *)

(* What the job manager holds and has sent was written, late appends or not. *)
TypesOK ==
    /\ total \in 0..MaxBytes /\ head \in 0..total /\ source.sent \in 0..total
    /\ terminalEvent \in {"none"} \cup Terminals
    /\ terminalEventSent \in BOOLEAN /\ terminalEventAcked \in BOOLEAN
    /\ pending \in 0..MaxConns /\ writers \subseteq Streams
    /\ jobStreamId \in 0..MaxConns
    /\ streamDone \in {"no", "read", "told"} /\ lateAppend \in BOOLEAN

ManagerTypes == <<total, head, source, terminalEvent, terminalEventSent, terminalEventAcked,
                  pending, writers>>
ServerTypes  == <<jobStreamId, streamDone, lateAppend>>

LEMMA ProgramTypes ==
    ASSUME GapInv, TypesOK, ProgramWrites \/ \E kind \in Terminals : ProgramEnds(kind)
    PROVE  TypesOK'
<1>1. CASE ProgramWrites
  <2>1. total < MaxBytes /\ total' = total + 1 /\ UNCHANGED <<source, ServerTypes>>
        /\ UNCHANGED <<terminalEvent, terminalEventSent, terminalEventAcked, pending, writers>>
    BY <1>1 DEF ProgramWrites, ServerTypes
  <2>2. head' \in {head, total + 1 - CirBufSize} /\ (head' # head => head' >= head)
    BY <1>1, GapFields, JobStreamAssumption DEF ProgramWrites, Larger
  <2>3. total' \in 0..MaxBytes /\ head' \in 0..total' /\ source'.sent \in 0..total'
    BY <2>1, <2>2, JobStreamAssumption DEF TypesOK
  <2> QED BY <2>1, <2>3 DEF TypesOK, ServerTypes
<1>2. CASE \E kind \in Terminals : ProgramEnds(kind)
  BY <1>2 DEF ProgramEnds, TypesOK
<1> QED BY <1>1, <1>2

LEMMA SendTypes ==
    ASSUME GapInv, TypesOK, SendData \/ SendTerminal
    PROVE  TypesOK'
<1>1. CASE SendData
  <2> DEFINE room == Window - (source.sent - head)
             n == Smaller(Smaller(room, ChunkSize), total - source.sent)
  <2>1. /\ n > 0 /\ source' = [source EXCEPT !.sent = @ + n]
        /\ UNCHANGED <<total, head, terminalEvent, terminalEventSent, terminalEventAcked, pending, writers>>
        /\ UNCHANGED ServerTypes
    BY <1>1 DEF SendData, ServerTypes
  <2>2. room \in Int /\ ChunkSize \in Int
    <3>1. RWnd \in Int /\ ChunkSize \in Int
      BY JobStreamAssumption
    <3>2. source.rwnd \in Int /\ source.sent \in Int /\ head \in Int
      BY GapFields
    <3>3. Window \in Int
      BY <3>1, <3>2 DEF Smaller, Window
    <3> HIDE DEF Window
    <3> QED BY <3>1, <3>2, <3>3
  <2> HIDE DEF room
  <2>3. n \in Int /\ n <= total - source.sent
    <3>1. total \in Int /\ source.sent \in Int
      BY GapFields
    <3>2. Smaller(room, ChunkSize) \in Int
      BY <2>2 DEF Smaller
    <3> QED BY <3>1, <3>2 DEF Smaller
  <2> HIDE DEF n
  <2>4. source'.sent = source.sent + n
    BY <2>1 DEF GapInv, GapManager
  <2>5. source'.sent \in 0..total
    <3>1. n \in Int /\ n > 0 /\ n <= total - source.sent /\ source'.sent = source.sent + n
      BY <2>1, <2>3, <2>4
    <3>2. source.sent \in Nat /\ total \in Nat
      BY GapFields
    <3> QED BY <3>1, <3>2
  <2> QED BY <2>1, <2>5 DEF TypesOK, ServerTypes
<1>2. CASE SendTerminal
  BY <1>2 DEF SendTerminal, TypesOK
<1> QED BY <1>1, <1>2

LEMMA AckArrivesTypes ==
    ASSUME GapInv, TypesOK, AckArrives
    PROVE  TypesOK'
<1> DEFINE ack == Head(acks)
<1>1. UNCHANGED <<total, terminalEvent, terminalEventSent, pending, ServerTypes>>
  BY DEF AckArrives, ServerTypes
<1>2. /\ writers' \subseteq writers
      /\ RecvAck(ack) \/ UNCHANGED <<head, source, terminalEventAcked>>
  BY DEF AckArrives
<1> HIDE DEF ack
<1>3. /\ terminalEventAcked' \in {TRUE, terminalEventAcked}
      /\ \/ UNCHANGED <<head, source>>
         \/ /\ ack.seq \in head..source.sent /\ head' = ack.seq
            /\ source' = [source EXCEPT !.rwnd = ack.rwnd]
  BY <1>2 DEF RecvAck
<1>4. head' \in 0..total /\ source'.sent = source.sent
  <2>1. /\ total \in Nat /\ head \in 0..total /\ source.sent \in 0..total
        /\ source \in [id : 0..MaxConns, conn : 0..MaxConns, sent : Nat, rwnd : Int]
    BY DEF TypesOK, GapInv, GapManager
  <2>2. source'.sent = source.sent
    BY <1>3, <2>1
  <2>3. head' \in 0..total
    <3>1. head' = head \/ head' \in head..source.sent
      BY <1>3
    <3>2. head \in Nat /\ source.sent \in Nat /\ head <= total /\ source.sent <= total
      BY <2>1
    <3> QED BY <2>1, <3>1, <3>2
  <2> QED BY <2>2, <2>3
<1> QED BY <1>1, <1>2, <1>3, <1>4 DEF TypesOK, ServerTypes

LEMMA RequestsTypes ==
    ASSUME GapInv, TypesOK, PrepareConnect \/ StartStream
    PROVE  TypesOK'
<1>1. CASE PrepareConnect
  <2>1. UNCHANGED <<total, terminalEvent, terminalEventAcked, ServerTypes>>
    BY <1>1 DEF PrepareConnect, ServerTypes
  <2>2. \/ UNCHANGED ManagerTypes
        \/ /\ writers' = writers \ {source.id} /\ terminalEventSent' = FALSE
           /\ \/ source' = NoSource /\ UNCHANGED <<head, pending>>
              \/ /\ ~(restart.seq > total)
                 /\ head' = Larger(head, restart.seq) /\ pending' = restart.id
                 /\ source' = [id |-> restart.id, conn |-> conn,
                               sent |-> Larger(head, restart.seq), rwnd |-> 0]
    BY <1>1 DEF PrepareConnect, StartSeq, ManagerTypes
  <2>3. Larger(head, restart.seq) \in 0..total \/ restart.seq > total
    BY GapFields DEF Larger, TypesOK
  <2>4. NoSource.sent \in 0..total
    BY GapFields DEF NoSource
  <2>5. pending' \in 0..MaxConns /\ writers' \subseteq Streams /\ terminalEventSent' \in BOOLEAN
    BY <2>1, <2>2, GapFields DEF TypesOK, ManagerTypes
  <2>6. head' \in 0..total /\ source'.sent \in 0..total
    <3>1. CASE source' = NoSource /\ head' = head
      BY <2>4, <3>1 DEF TypesOK
    <3>2. CASE /\ ~(restart.seq > total) /\ head' = Larger(head, restart.seq)
               /\ source'.sent = Larger(head, restart.seq)
      BY <2>3, <3>2
    <3>3. CASE UNCHANGED ManagerTypes
      BY <3>3 DEF ManagerTypes, TypesOK
    <3> QED BY <2>2, <3>1, <3>2, <3>3
  <2> QED BY <2>1, <2>2, <2>5, <2>6 DEF TypesOK, ServerTypes, ManagerTypes
<1>2. CASE StartStream
  <2>1. /\ pending # 0 /\ writers' = writers \cup {pending} /\ pending' = 0
        /\ source' = [source EXCEPT !.rwnd = RWnd]
        /\ UNCHANGED <<total, head, terminalEvent, terminalEventSent, terminalEventAcked, ServerTypes>>
    BY <1>2 DEF StartStream, ServerTypes
  <2>2. source'.sent = source.sent
    BY <2>1 DEF GapInv, GapManager
  <2>3. pending \in Streams /\ pending' \in 0..MaxConns
    BY <2>1, GapFields DEF TypesOK, Streams
  <2> QED BY <2>1, <2>2, <2>3 DEF TypesOK, ServerTypes
<1> QED BY <1>1, <1>2

(* The server's steps and those of the connection *)
LEMMA ServerTypesStep ==
    ASSUME GapInv, TypesOK,
           \/ DataArrives \/ RestartStreaming
           \/ \E s \in Streams : OutputLoop(s)
           \/ ConnectionDrops \/ Reconnect \/ Flush \/ Crash
    PROVE  TypesOK'
<1>1. restart.id \in 0..MaxConns /\ 0 \in 0..MaxConns
  BY GapFields
<1>2. CASE DataArrives
  BY <1>2 DEF DataArrives, TypesOK
<1>3. CASE RestartStreaming
  BY <1>1, <1>3 DEF RestartStreaming, RestartStats, RestartCreatesReader, RestartPrepared,
                    RestartStarted, RestartFails, TypesOK
<1>4. CASE \E s \in Streams : OutputLoop(s)
  BY <1>4 DEF OutputLoop, LoopReads, LoopChecks, LoopAppends, LoopEnds, TypesOK
<1>5. CASE ConnectionDrops \/ Reconnect \/ Flush \/ Crash
  BY <1>1, <1>5 DEF ConnectionDrops, Reconnect, Flush, Crash, TypesOK
<1> QED BY <1>2, <1>3, <1>4, <1>5

(* Every variable keeps its type: the job manager never holds nor sends what was not
   written, at any pace of the loops; until an append comes late, no Reader buffers
   more than its window, and neither a Reader nor the file is past what was written. *)
THEOREM JSTypeCorrect == JSSpec => []JSTypeOK
<1>1. JobStarted => TypesOK
  <2>1. 1 \in Streams /\ 1 \in 0..MaxConns /\ 0 \in 0..MaxConns /\ 0 \in 0..MaxBytes
    BY JobStreamAssumption DEF Streams
  <2> SUFFICES ASSUME JobStarted PROVE TypesOK
    OBVIOUS
  <2>2. total \in 0..MaxBytes /\ head \in 0..total
    BY <2>1 DEF JobStarted
  <2>3. source.sent \in 0..total
    BY DEF JobStarted
  <2>4. pending \in 0..MaxConns /\ writers \subseteq Streams /\ jobStreamId \in 0..MaxConns
    BY <2>1 DEF JobStarted
  <2> QED BY <2>2, <2>3, <2>4 DEF JobStarted, TypesOK
<1>2. GapInv /\ TypesOK /\ [JSNext]_jsVars => TypesOK'
  <2>1. GapInv /\ TypesOK /\ JobManagerSteps => TypesOK'
    BY ProgramTypes, SendTypes, AckArrivesTypes, RequestsTypes DEF JobManagerSteps
  <2>2. TypesOK /\ UNCHANGED jsVars => TypesOK'
    BY DEF TypesOK, jsVars
  <2> QED BY <2>1, <2>2, ServerTypesStep DEF JSNext
<1>3. JSInv /\ FlowTyped /\ FlowInv => WithinBounds
  <2> SUFFICES ASSUME JSInv, FlowTyped, FlowInv PROVE WithinBounds
    OBVIOUS
  <2>1. source.rwnd \in 0..RWnd /\ maxAcked \in (0..MaxBytes) \X (0..RWnd)
    BY DEF FlowInv, ValuesOK
  <2>2. \A s \in Streams : readers[s].next <= total /\ Len(readers[s].buffer) <= RWnd
    BY DEF FlowTyped, FlowInv, ValuesOK
  <2>3. Len(file) + totalGap <= total
    BY DEF FlowTyped, Stored
  <2> QED BY <2>1, <2>2, <2>3 DEF WithinBounds
<1>4. ASSUME GapInv, TypesOK, ~lateAppend => WithinBounds PROVE JSTypeOK
  <2>1. source \in [id : 0..MaxConns, conn : 0..MaxConns, sent : 0..MaxBytes, rwnd : Int]
    <3>1. source.sent \in 0..MaxBytes
      BY <1>4, GapFields, JobStreamAssumption DEF TypesOK
    <3> QED BY <1>4, <3>1 DEF GapInv, GapManager
  <2>2. \A s \in Streams : /\ readers[s].next \in Nat
                          /\ loops[s].step \in {"none", "read", "check", "append", "end"}
    BY <1>4, GapFields DEF Reader, Loop
  <2>3. restart.step \in {"none", "stat", "create", "prepare", "prepared", "start", "started"}
    BY <1>4, GapFields DEF Restart, Corked
  <2> QED BY <1>4, <2>1, <2>2, <2>3, GapFields DEF TypesOK, JSTypeOK
<1>5. JSInv => FlowTyped
  BY FlowTypes
<1> QED BY <1>1, <1>2, <1>3, <1>4, <1>5, GapInvariant, JobStreamCorrect, FlowCorrect, PTL DEF JSSpec
=============================================================================
