-------------------------- MODULE ReorderQueueProof --------------------------
(***************************************************************************)
(* Proofs about the reorder queue, for every set of items and sessions,    *)
(* every capacity and timeout: QueueInv is inductive.  Then the same for   *)
(* the queue inside the job's input (module JobInput), which uses it as    *)
(* QueueSpec says; and the order of what the input gives to the PTY, for   *)
(* which OrderInv is inductive.                                            *)
(***************************************************************************)
EXTENDS JobInput, FiniteSetTheorems, SequenceTheorems, WellFoundedInduction, TLAPS

USE DEF queueVars

IsSeq(s) == \E S : s \in Seq(S)

(* The running timer runs out no later than any item in the buffer. *)
TimerInTime ==
    buffer # {} => timer \in 0..Timeout /\ \A i \in buffer : age[i] + timer <= Timeout

QueueInv ==
    /\ buffer \subseteq Items /\ IsFiniteSet(buffer)
    /\ age \in [Items -> Nat]
    /\ IsSeq(outCh)
    /\ timer \in {NoTimer} \cup 0..Timeout
    /\ TimerInTime
    /\ NeverBlocks

-----------------------------------------------------------------------------
(* Lemmas about sequences, the order of items and the largest of a set *)

LEMMA EmptyIsSeq == IsSeq(<<>>) /\ Len(<<>>) = 0
<1>1. <<>> \in Seq({})
  OBVIOUS
<1> QED BY <1>1 DEF IsSeq

LEMMA ConcatIsSeq ==
    ASSUME NEW s, NEW t, IsSeq(s), IsSeq(t)
    PROVE  IsSeq(s \o t) /\ Len(s \o t) = Len(s) + Len(t)
<1>1. PICK S : s \in Seq(S)
  BY DEF IsSeq
<1>2. PICK T : t \in Seq(T)
  BY DEF IsSeq
<1>3. s \in Seq(S \cup T) /\ t \in Seq(S \cup T)
  BY <1>1, <1>2
<1>4. s \o t \in Seq(S \cup T) /\ Len(s \o t) = Len(s) + Len(t)
  BY <1>3
<1> QED BY <1>4 DEF IsSeq

LEMMA SingletonIsSeq ==
    ASSUME NEW i
    PROVE  IsSeq(<<i>>) /\ Len(<<i>>) = 1
<1>1. <<i>> \in Seq({i}) /\ Len(<<i>>) = 1
  OBVIOUS
<1> QED BY <1>1 DEF IsSeq

LEMMA AppendIsSeq ==
    ASSUME NEW s, NEW i, IsSeq(s)
    PROVE  IsSeq(Append(s, i)) /\ Len(Append(s, i)) = Len(s) + 1
<1>1. PICK S : s \in Seq(S)
  BY DEF IsSeq
<1>2. s \in Seq(S \cup {i})
  BY <1>1
<1>3. Append(s, i) \in Seq(S \cup {i}) /\ Len(Append(s, i)) = Len(s) + 1
  BY <1>2
<1> QED BY <1>3 DEF IsSeq

LEMMA TailIsSeq ==
    ASSUME NEW s, IsSeq(s), s # <<>>
    PROVE  IsSeq(Tail(s)) /\ Len(Tail(s)) = Len(s) - 1
<1>1. PICK S : s \in Seq(S)
  BY DEF IsSeq
<1>2. Tail(s) \in Seq(S) /\ Len(Tail(s)) = Len(s) - 1
  BY <1>1
<1> QED BY <1>2 DEF IsSeq

LEMMA LenType == ASSUME NEW s, IsSeq(s) PROVE Len(s) \in Nat
BY DEF IsSeq

(* A set that is sorted becomes as long a sequence. *)
LEMMA SortedIsSeq ==
    ASSUME NEW S, IsFiniteSet(S)
    PROVE  IsSeq(Sorted(S)) /\ Len(Sorted(S)) = Cardinality(S)
<1> DEFINE at(k)  == CHOOSE i \in S : Cardinality({j \in S : Before(j, i)}) = k - 1
           n      == Cardinality(S)
           places == {at(k) : k \in 1..n}
<1>1. n \in Nat
  BY FS_CardinalityType
<1>2. Sorted(S) = [k \in 1..n |-> at(k)]
  BY DEF Sorted
<1>3. [k \in 1..n |-> at(k)] \in [1..n -> places]
  OBVIOUS
<1> HIDE DEF at, n, places
<1>4. Sorted(S) \in Seq(places) /\ Len(Sorted(S)) = n
  BY <1>1, <1>2, <1>3
<1> QED BY <1>4 DEF IsSeq, n

(* A finite set of numbers has a largest: the one that the fewest are above. *)
LEMMA MaxOfFinite ==
    ASSUME NEW S, S \subseteq Nat, S # {}, IsFiniteSet(S)
    PROVE  QMaxOf(S) \in S /\ \A k \in S : k <= QMaxOf(S)
<1> DEFINE above(n) == {k \in S : k > n}
           sets     == {above(n) : n \in S}
<1>1. sets \subseteq FiniteSubsetsOf(S) /\ sets # {}
  <2>1. \A n \in S : above(n) \subseteq S /\ IsFiniteSet(above(n))
    BY FS_Subset
  <2>2. \A n \in S : above(n) \in FiniteSubsetsOf(S)
    BY <2>1, Zenon DEF FiniteSubsetsOf
  <2> HIDE DEF above
  <2> QED BY <2>2
<1>2. PICK A \in sets : \A B \in sets : ~ (<<B, A>> \in StrictSubsetOrdering(S))
  <2> HIDE DEF sets
  <2> QED BY <1>1, WFMin, FS_StrictSubsetOrderingWellFounded
<1>3. PICK n \in S : A = above(n)
  BY <1>2
<1>4. ASSUME NEW k \in S, k > n PROVE FALSE
  <2>0. \A j \in S : j > k => j > n
    BY <1>4
  <2>1. above(k) \subseteq above(n)
    BY <2>0, Zenon
  <2>2. k \in above(n) /\ k \notin above(k)
    BY <1>4
  <2>3. <<above(k), above(n)>> \in StrictSubsetOrdering(S)
    BY <2>1, <2>2 DEF StrictSubsetOrdering
  <2> QED BY <1>2, <1>3, <2>3
<1>5. \A k \in S : k <= n
  BY <1>4
<1> QED BY <1>5 DEF QMaxOf

-----------------------------------------------------------------------------
(* The steps of the queue *)

LEMMA QueueInit == MakeQuickReorderQueue => QueueInv
<1> SUFFICES ASSUME MakeQuickReorderQueue PROVE QueueInv
  OBVIOUS
<1>1. IsFiniteSet(buffer) /\ Cardinality(buffer) = 0 /\ IsSeq(outCh) /\ Len(outCh) = 0
  BY FS_EmptySet, EmptyIsSeq DEF MakeQuickReorderQueue
<1> QED BY <1>1, QueueAssumption
        DEF MakeQuickReorderQueue, QueueInv, TimerInTime, NeverBlocks, NoTimer

LEMMA EnsureTimerInTime ==
    ASSUME QueueInv, ensureTimer
    PROVE  timer' \in 0..Timeout /\ (timer = NoTimer \/ timer' = timer)
BY QueueAssumption DEF QueueInv, ensureTimer, NoTimer

LEMMA StartsSessionKeeps ==
    ASSUME QueueInv, NEW i \in Items \ buffer, HasRoom, StartsSession(i)
    PROVE  QueueInv'
<1>1. /\ IsSeq(Sorted(buffer)) /\ Len(Sorted(buffer)) = Cardinality(buffer)
      /\ Cardinality(buffer) \in Nat /\ Len(outCh) \in Nat
  BY SortedIsSeq, FS_CardinalityType, LenType DEF QueueInv
<1>2. IsSeq(outCh \o Sorted(buffer)) /\ Len(outCh \o Sorted(buffer)) = Len(outCh) + Cardinality(buffer)
  BY <1>1, ConcatIsSeq DEF QueueInv
<1>3. age' \in [Items -> Nat] /\ age'[i] = 0
  BY DEF StartsSession, QueueInv
<1>4. CASE i.seqNum <= 1
  <2>1. outCh' = outCh \o Sorted(buffer) \o <<i>> /\ buffer' = {}
    BY <1>4 DEF StartsSession
  <2>2. IsSeq(outCh') /\ Len(outCh') = Len(outCh) + Cardinality(buffer) + 1
    BY <1>2, <2>1, SingletonIsSeq, ConcatIsSeq
  <2>3. IsFiniteSet(buffer') /\ Cardinality(buffer') = 0
    BY <2>1, FS_EmptySet
  <2>4. timer' \in {NoTimer} \cup 0..Timeout
    BY <1>4 DEF StartsSession, StopTimer, QueueInv
  <2>5. NeverBlocks'
    BY <1>1, <2>2, <2>3, QueueAssumption DEF NeverBlocks, HasRoom
  <2> QED BY <1>3, <2>1, <2>2, <2>3, <2>4, <2>5 DEF QueueInv, TimerInTime
<1>5. CASE ~ (i.seqNum <= 1)
  <2>1. outCh' = outCh \o Sorted(buffer) /\ buffer' = {i}
    BY <1>5 DEF StartsSession
  <2>2. IsFiniteSet(buffer') /\ Cardinality(buffer') = 1
    BY <2>1, FS_Singleton
  <2>3. timer' \in 0..Timeout
    BY <1>5, QueueAssumption, EnsureTimerInTime DEF StartsSession
  <2>4. NeverBlocks'
    BY <1>1, <1>2, <2>1, <2>2, QueueAssumption DEF NeverBlocks, HasRoom
  <2>5. age'[i] + timer' <= Timeout
    <3>1. timer' \in Nat /\ timer' <= Timeout
      BY <2>3, QueueAssumption
    <3> QED BY <1>3, <3>1
  <2>6. \A j \in buffer' : age'[j] + timer' <= Timeout
    BY <2>1, <2>5, Zenon
  <2>7. TimerInTime'
    BY <2>3, <2>6 DEF TimerInTime
  <2> QED BY <1>2, <1>3, <2>1, <2>2, <2>3, <2>4, <2>7 DEF QueueInv
<1> QED BY <1>4, <1>5

LEMMA PassesThroughKeeps ==
    ASSUME QueueInv, NEW i \in Items \ buffer, HasRoom, PassesThrough(i)
    PROVE  QueueInv'
<1>1. IsSeq(outCh') /\ Len(outCh') = Len(outCh) + 1
  BY AppendIsSeq DEF PassesThrough, QueueInv
<1>2. NeverBlocks'
  BY <1>1, LenType, FS_CardinalityType, QueueAssumption DEF NeverBlocks, HasRoom, PassesThrough, QueueInv
<1> QED BY <1>1, <1>2 DEF QueueInv, PassesThrough, TimerInTime

LEMMA ArrivesInOrderKeeps ==
    ASSUME QueueInv, NEW i \in Items \ buffer, HasRoom, ArrivesInOrder(i)
    PROVE  QueueInv'
<1> DEFINE run == RunAfter(nextSeqNum)
<1>1. run \subseteq buffer
  BY DEF RunAfter
<1>2. outCh' = outCh \o <<i>> \o Sorted(run) /\ buffer' = buffer \ run
  BY DEF ArrivesInOrder
<1> HIDE DEF run
<1>3. /\ IsFiniteSet(run) /\ Cardinality(run) \in Nat
      /\ IsFiniteSet(buffer') /\ Cardinality(buffer') = Cardinality(buffer) - Cardinality(run)
  <2>1. IsFiniteSet(run) /\ Cardinality(run) \in Nat
    BY <1>1, FS_Subset, FS_CardinalityType DEF QueueInv
  <2>2. buffer \cap run = run
    BY <1>1
  <2>3. IsFiniteSet(buffer') /\ Cardinality(buffer') = Cardinality(buffer) - Cardinality(buffer \cap run)
    BY <1>2, <2>1, FS_Difference DEF QueueInv
  <2> QED BY <2>1, <2>2, <2>3
<1>4. IsSeq(outCh') /\ Len(outCh') = Len(outCh) + 1 + Cardinality(run)
  <2>1. IsSeq(outCh \o <<i>>) /\ Len(outCh \o <<i>>) = Len(outCh) + 1
    BY SingletonIsSeq, ConcatIsSeq DEF QueueInv
  <2>2. IsSeq(Sorted(run)) /\ Len(Sorted(run)) = Cardinality(run)
    BY <1>3, SortedIsSeq
  <2> QED BY <1>2, <2>1, <2>2, ConcatIsSeq
<1>5. NeverBlocks'
  BY <1>3, <1>4, LenType, FS_CardinalityType, QueueAssumption DEF NeverBlocks, HasRoom, QueueInv
<1>6. buffer' \subseteq buffer /\ UNCHANGED <<age, timer>>
  BY <1>2 DEF ArrivesInOrder
<1> QED BY <1>3, <1>4, <1>5, <1>6 DEF QueueInv, TimerInTime

LEMMA ArrivesEarlyKeeps ==
    ASSUME QueueInv, NEW i \in Items \ buffer, HasRoom, ArrivesEarly(i)
    PROVE  QueueInv'
<1>1. /\ buffer' = buffer \cup {i} /\ UNCHANGED outCh
      /\ age' = [age EXCEPT ![i] = 0]
  BY DEF ArrivesEarly
<1>2. IsFiniteSet(buffer') /\ Cardinality(buffer') = Cardinality(buffer) + 1
  BY <1>1, FS_AddElement DEF QueueInv
<1>3. NeverBlocks'
  BY <1>1, <1>2, LenType, FS_CardinalityType, QueueAssumption DEF NeverBlocks, HasRoom, QueueInv
<1>4. timer' \in 0..Timeout /\ (timer = NoTimer \/ timer' = timer)
  BY EnsureTimerInTime DEF ArrivesEarly
<1>5. ASSUME NEW j \in buffer' PROVE age'[j] + timer' <= Timeout
  <2>1. CASE j = i
    BY <1>1, <1>4, <2>1, QueueAssumption DEF QueueInv
  <2>2. CASE j # i
    <3>1. j \in buffer /\ age'[j] = age[j]
      BY <1>1, <2>2 DEF QueueInv
    <3>2. timer \in 0..Timeout /\ age[j] + timer <= Timeout
      BY <3>1 DEF QueueInv, TimerInTime
    <3> QED BY <1>4, <3>1, <3>2, QueueAssumption DEF NoTimer
  <2> QED BY <2>1, <2>2
<1>6. TimerInTime'
  BY <1>4, <1>5 DEF TimerInTime
<1> QED BY <1>1, <1>2, <1>3, <1>4, <1>6 DEF QueueInv

LEMMA QueueItemKeeps ==
    ASSUME QueueInv, NEW i \in Items \ buffer, QueueItem(i)
    PROVE  QueueInv'
BY StartsSessionKeeps, PassesThroughKeeps, ArrivesInOrderKeeps, ArrivesEarlyKeeps DEF QueueItem

LEMMA ReceiveKeeps ==
    ASSUME QueueInv, Receive
    PROVE  QueueInv'
<1>1. IsSeq(outCh') /\ Len(outCh') = Len(outCh) - 1
  BY TailIsSeq DEF Receive, QueueInv
<1>2. NeverBlocks'
  BY <1>1, LenType, FS_CardinalityType, QueueAssumption DEF NeverBlocks, Receive, QueueInv
<1> QED BY <1>1, <1>2 DEF QueueInv, Receive, TimerInTime

(* What the callback leaves behind has waited less than the timeout. *)
LEMMA RearmedInTime ==
    ASSUME QueueInv, NEW waiting, waiting \subseteq buffer \ TimedOut
    PROVE  /\ Rearmed(waiting) \in {NoTimer} \cup 0..Timeout
           /\ waiting # {} => /\ Rearmed(waiting) \in 0..Timeout
                              /\ \A i \in waiting : age[i] + Rearmed(waiting) <= Timeout
<1> DEFINE ages == {age[i] : i \in waiting}
<1>1. CASE waiting = {}
  BY <1>1 DEF Rearmed
<1>2. CASE waiting # {}
  <2>1. \A i \in waiting : age[i] \in Nat /\ age[i] < Timeout
    BY QueueAssumption DEF QueueInv, TimedOut
  <2>2. IsFiniteSet(waiting)
    BY FS_Subset DEF QueueInv
  <2>3. IsFiniteSet(ages)
    <3>1. [i \in waiting |-> age[i]] \in Surjection(waiting, ages)
      BY DEF Surjection
    <3> QED BY <2>2, <3>1, FS_Surjection
  <2>4. ages \subseteq Nat /\ ages # {} /\ \A n \in ages : n < Timeout
    BY <1>2, <2>1
  <2>5. \A i \in waiting : age[i] \in ages
    OBVIOUS
  <2>6. Rearmed(waiting) = Timeout - QMaxOf(ages)
    BY <1>2 DEF Rearmed
  <2> DEFINE oldest == QMaxOf(ages)
  <2> HIDE DEF ages
  <2>7. oldest \in ages /\ \A n \in ages : n <= oldest
    BY <2>3, <2>4, MaxOfFinite
  <2>8. oldest \in Nat /\ oldest < Timeout /\ \A i \in waiting : age[i] <= oldest
    BY <2>4, <2>5, <2>7
  <2> HIDE DEF oldest
  <2>9. Timeout - oldest \in 0..Timeout /\ \A i \in waiting : age[i] + (Timeout - oldest) <= Timeout
    BY <2>1, <2>8, QueueAssumption
  <2> QED BY <2>6, <2>9 DEF oldest
<1> QED BY <1>1, <1>2

LEMMA OnTimeoutKeeps ==
    ASSUME QueueInv, onTimeout
    PROVE  QueueInv'
<1>1. Flushed \subseteq buffer /\ TimedOut \subseteq Flushed
  BY DEF Flushed, TimedOut
<1>2. /\ outCh' = outCh \o Sorted(Flushed) /\ buffer' = buffer \ Flushed
      /\ timer' = Rearmed(buffer') /\ UNCHANGED age
  BY DEF onTimeout
<1>3. /\ IsFiniteSet(Flushed) /\ Cardinality(Flushed) \in Nat
      /\ IsFiniteSet(buffer') /\ Cardinality(buffer') = Cardinality(buffer) - Cardinality(Flushed)
  <2>1. IsFiniteSet(Flushed) /\ Cardinality(Flushed) \in Nat
    BY <1>1, FS_Subset, FS_CardinalityType DEF QueueInv
  <2>2. buffer \cap Flushed = Flushed
    BY <1>1
  <2>3. IsFiniteSet(buffer') /\ Cardinality(buffer') = Cardinality(buffer) - Cardinality(buffer \cap Flushed)
    BY <1>2, <2>1, FS_Difference DEF QueueInv
  <2> QED BY <2>1, <2>2, <2>3
<1>4. IsSeq(outCh') /\ Len(outCh') = Len(outCh) + Cardinality(Flushed)
  BY <1>2, <1>3, SortedIsSeq, ConcatIsSeq DEF QueueInv
<1>5. NeverBlocks'
  BY <1>3, <1>4, LenType, FS_CardinalityType, QueueAssumption DEF NeverBlocks, QueueInv
<1>6. buffer' \subseteq buffer \ TimedOut
  BY <1>1, <1>2
<1>7. timer' \in {NoTimer} \cup 0..Timeout /\ TimerInTime'
  BY <1>2, <1>6, RearmedInTime DEF TimerInTime
<1> QED BY <1>2, <1>3, <1>4, <1>5, <1>6, <1>7 DEF QueueInv

LEMMA TickKeeps ==
    ASSUME QueueInv, Tick
    PROVE  QueueInv'
<1>1. /\ UNCHANGED <<buffer, outCh>> /\ timer # 0
      /\ timer' = IF timer = NoTimer THEN NoTimer ELSE timer - 1
      /\ age' = [i \in Items |-> IF i \in buffer /\ age[i] <= Timeout THEN age[i] + 1 ELSE age[i]]
  BY DEF Tick
<1>2. age' \in [Items -> Nat]
  BY <1>1 DEF QueueInv
<1>3. timer' \in {NoTimer} \cup 0..Timeout
  BY <1>1, QueueAssumption DEF QueueInv, NoTimer
<1>4. ASSUME NEW i \in buffer PROVE timer' \in 0..Timeout /\ age'[i] + timer' <= Timeout
  <2>1. timer \in 0..Timeout /\ age[i] + timer <= Timeout /\ age[i] \in Nat
    BY DEF QueueInv, TimerInTime
  <2>2. timer' = timer - 1 /\ age'[i] = age[i] + 1
    BY <1>1, <2>1, QueueAssumption DEF NoTimer, QueueInv
  <2> QED BY <1>1, <2>1, <2>2, QueueAssumption
<1>5. TimerInTime'
  BY <1>1, <1>4 DEF TimerInTime
<1> QED BY <1>1, <1>2, <1>3, <1>5 DEF QueueInv, NeverBlocks

LEMMA QueueStep ==
    ASSUME QueueInv, [QueueNext]_queueVars
    PROVE  QueueInv'
<1>1. ASSUME NEW i \in Items \ buffer, QueueItem(i) PROVE QueueInv'
  BY <1>1, QueueItemKeeps
<1>2. CASE Receive
  BY <1>2, ReceiveKeeps
<1>3. CASE TimerFires \/ StrayFires
  BY <1>3, OnTimeoutKeeps DEF TimerFires, StrayFires
<1>4. CASE Tick
  BY <1>4, TickKeeps
<1>5. CASE UNCHANGED queueVars
  BY <1>5 DEF QueueInv, TimerInTime, NeverBlocks
<1> QED BY <1>1, <1>2, <1>3, <1>4, <1>5 DEF QueueNext

LEMMA QueueInvImplies == QueueInv => NeverBlocks /\ BoundedWait
<1>1. ASSUME QueueInv, NEW i \in buffer PROVE age[i] <= Timeout
  <2>1. timer \in 0..Timeout /\ age[i] + timer <= Timeout /\ age[i] \in Nat
    BY <1>1 DEF QueueInv, TimerInTime
  <2> QED BY <2>1, QueueAssumption
<1> QED BY <1>1 DEF QueueInv, BoundedWait

(* The queue by itself: it never sends to a full channel, and no item waits
   longer than the timeout. *)
THEOREM QueueCorrect == QueueSpec => []QueueInv
BY QueueInit, QueueStep, PTL DEF QueueSpec

-----------------------------------------------------------------------------
(* The queue inside the job's input *)

(* A request carries a number its controller gave out, and is not also in the
   queue. *)
InputInv ==
    /\ inputSeqNum \in [Sessions -> Nat]
    /\ controller \in Sessions \cup {NoSession}
    /\ requests \subseteq Items
    /\ requests \cap buffer = {}
    /\ \A i \in requests \cup buffer :
           i.session \in Sessions /\ i.seqNum \in 1..inputSeqNum[i.session]

LEMMA InputInit == JIInit => InputInv
BY QueueAssumption DEF JIInit, MakeQuickReorderQueue, InputInv

LEMMA ItemsForm ==
    ASSUME NEW s \in Sessions, NEW n \in 1..MaxInputs[s]
    PROVE  [session |-> s, seqNum |-> n] \in Items
BY InputAssumption

(* The buffer gains at most the item that is queued. *)
LEMMA BufferGains ==
    ASSUME NEW i, QueueItem(i)
    PROVE  buffer' \subseteq buffer \cup {i}
BY DEF QueueItem, StartsSession, PassesThrough, ArrivesInOrder, ArrivesEarly

LEMMA SendInputKeeps ==
    ASSUME InputInv, SendInput
    PROVE  InputInv'
<1> DEFINE n == inputSeqNum[controller] + 1
           i == [session |-> controller, seqNum |-> n]
<1>1. /\ controller \in Sessions /\ inputSeqNum[controller] \in Nat
      /\ inputSeqNum[controller] < MaxInputs[controller] /\ MaxInputs[controller] \in Nat
      /\ UNCHANGED <<buffer, controller>>
  BY InputAssumption DEF SendInput, InputInv
<1>2. inputSeqNum' = [inputSeqNum EXCEPT ![controller] = n]
  BY DEF SendInput
<1>3. inputSeqNum' \in [Sessions -> Nat] /\ inputSeqNum'[controller] = n
  BY <1>1, <1>2 DEF InputInv
<1>4. \A s \in Sessions : inputSeqNum[s] \in Nat /\ inputSeqNum'[s] \in Nat /\ inputSeqNum[s] <= inputSeqNum'[s]
  BY <1>1, <1>2 DEF InputInv
<1>5. i \in Items
  BY <1>1, ItemsForm
<1>6. i \notin buffer
  BY <1>1 DEF InputInv
<1>7. requests' \subseteq requests \cup {i}
  BY <1>3 DEF SendInput
<1>8. ASSUME NEW j \in requests' \cup buffer'
      PROVE  j.session \in Sessions /\ j.seqNum \in 1..inputSeqNum'[j.session]
  <2>1. CASE j = i
    BY <1>1, <1>3, <2>1
  <2>2. CASE j \in requests \cup buffer
    BY <1>4, <2>2 DEF InputInv
  <2> QED BY <1>1, <1>7, <2>1, <2>2
<1> HIDE DEF i
<1> QED BY <1>1, <1>3, <1>5, <1>6, <1>7, <1>8 DEF InputInv

LEMMA JobInputCommandKeeps ==
    ASSUME InputInv, NEW i \in requests, JobInputCommand(i)
    PROVE  InputInv'
<1>1. requests' = requests \ {i} /\ UNCHANGED <<controller, inputSeqNum>>
  BY DEF JobInputCommand
<1>2. buffer' \subseteq buffer \cup {i}
  BY BufferGains DEF JobInputCommand
<1> QED BY <1>1, <1>2 DEF InputInv

(* Steps of the queue alone take nothing in. *)
LEMMA QueueAloneKeeps ==
    ASSUME InputInv, buffer' \subseteq buffer, UNCHANGED <<controller, inputSeqNum, requests>>
    PROVE  InputInv'
BY DEF InputInv

LEMMA InputStep ==
    ASSUME InputInv, [JINext]_jiVars
    PROVE  InputInv' /\ [QueueNext]_queueVars
<1>1. ASSUME NEW s \in Sessions, NewController(s) PROVE InputInv' /\ [QueueNext]_queueVars
  BY <1>1 DEF NewController, InputInv
<1>2. CASE SendInput
  BY <1>2, SendInputKeeps DEF SendInput
<1>3. CASE StartJob
  BY <1>3 DEF StartJob, InputInv
<1>4. CASE processInputQueue
  BY <1>4, QueueAloneKeeps DEF processInputQueue, Receive, QueueNext
<1>5. CASE TimePasses
  BY <1>5, QueueAloneKeeps DEF TimePasses, Tick, QueueNext
<1>6. CASE CallbackRuns
  <2>1. buffer' \subseteq buffer
    BY <1>6 DEF CallbackRuns, TimerFires, StrayFires, onTimeout
  <2> QED BY <1>6, <2>1, QueueAloneKeeps DEF CallbackRuns, inputVars, QueueNext
<1>7. ASSUME NEW i \in requests, RequestLost(i) PROVE InputInv' /\ [QueueNext]_queueVars
  BY <1>7 DEF RequestLost, InputInv
<1>8. ASSUME NEW i \in requests, JobInputCommand(i) PROVE InputInv' /\ [QueueNext]_queueVars
  <2>1. i \in Items \ buffer
    BY DEF InputInv
  <2>2. QueueItem(i) \/ UNCHANGED queueVars
    BY <1>8 DEF JobInputCommand
  <2> QED BY <1>8, <2>1, <2>2, JobInputCommandKeeps DEF QueueNext
<1>9. CASE UNCHANGED jiVars
  BY <1>9 DEF jiVars, inputVars, InputInv
<1> QED BY <1>1, <1>2, <1>3, <1>4, <1>5, <1>6, <1>7, <1>8, <1>9 DEF JINext

(* The job's input uses the queue as QueueSpec says: whatever requests arrive,
   in whatever order, none is queued again while it waits. *)
THEOREM InputUsesQueue == JISpec => QueueSpec
<1>1. JISpec => MakeQuickReorderQueue /\ InputInv
  BY InputInit DEF JISpec, JIInit
<1>2. InputInv /\ [JINext]_jiVars => InputInv' /\ [QueueNext]_queueVars
  BY InputStep
<1> QED BY <1>1, <1>2, PTL DEF JISpec, QueueSpec

(* An input handler never blocks on the output channel while it holds the
   lock of the queue. *)
THEOREM InputNeverBlocks == JISpec => []NeverBlocks
BY InputUsesQueue, QueueCorrect, QueueInvImplies, PTL

(* No input waits in the buffer for longer than the timeout. *)
THEOREM InputWaitsBounded == JISpec => []BoundedWait
BY InputUsesQueue, QueueCorrect, QueueInvImplies, PTL

-----------------------------------------------------------------------------
(* Sorted puts items of one session in the order of their numbers *)

LEMMA ItemForm ==
    ASSUME NEW i \in Items
    PROVE  /\ i.session \in Sessions \cup {NoSession} /\ i.seqNum \in Nat
           /\ i = [session |-> i.session, seqNum |-> i.seqNum]
BY QueueAssumption

LEMMA SameSessionOrder ==
    ASSUME sessionOrder \in [Sessions -> Nat], NEW i \in Items, NEW j \in Items,
           i.session = j.session
    PROVE  /\ Before(i, j) <=> i.seqNum < j.seqNum
           /\ i.seqNum = j.seqNum => i = j
<1>1. OrderOf(i.session) \in Nat
  BY DEF OrderOf
<1>2. i.seqNum = j.seqNum => i = j
  BY ItemForm
<1> QED BY <1>1, <1>2, ItemForm DEF Before, Precedes

LEMMA SortedInOrder ==
    ASSUME sessionOrder \in [Sessions -> Nat], NEW S, S \subseteq Items, IsFiniteSet(S),
           \A i, j \in S : i.session = j.session
    PROVE  LET s == Sorted(S)
           IN  /\ s \in Seq(S)
               /\ \A m, n \in 1..Len(s) : m < n => s[m].seqNum < s[n].seqNum
<1> DEFINE before(i) == {j \in S : Before(j, i)}
           n         == Cardinality(S)
           rank      == [i \in S |-> Cardinality(before(i))]
           at(k)     == CHOOSE i \in S : Cardinality(before(i)) = k - 1
<1>1. n \in Nat
  BY FS_CardinalityType
<1>2. \A i, j \in S : (j \in before(i) <=> j.seqNum < i.seqNum)
  BY SameSessionOrder
<1>3. \A i \in S : i.seqNum \in Nat
  BY ItemForm
<1>4. \A i \in S : before(i) \subseteq S /\ i \notin before(i)
  BY <1>2, <1>3
<1>5. \A i \in S : IsFiniteSet(before(i)) /\ Cardinality(before(i)) \in 0..(n - 1)
  <2> SUFFICES ASSUME NEW i \in S
               PROVE  IsFiniteSet(before(i)) /\ Cardinality(before(i)) \in 0..(n - 1)
    OBVIOUS
  <2>1. before(i) \in SUBSET S /\ before(i) # S
    BY <1>4
  <2> HIDE DEF before
  <2>2. IsFiniteSet(before(i)) /\ Cardinality(before(i)) <= n /\ Cardinality(before(i)) # n
    BY <2>1, FS_Subset
  <2>3. Cardinality(before(i)) \in Nat
    BY <2>2, FS_CardinalityType
  <2> HIDE DEF n
  <2> QED BY <1>1, <2>2, <2>3
<1>6. \A i, j \in S : i.seqNum < j.seqNum => Cardinality(before(i)) < Cardinality(before(j))
  <2> SUFFICES ASSUME NEW i \in S, NEW j \in S, i.seqNum < j.seqNum
               PROVE  Cardinality(before(i)) < Cardinality(before(j))
    OBVIOUS
  <2>1. before(i) \in SUBSET before(j)
    BY <1>2, <1>3, <1>4
  <2>2. before(i) # before(j)
    BY <1>2, <1>4
  <2> HIDE DEF before, n
  <2>3. Cardinality(before(i)) <= Cardinality(before(j)) /\ Cardinality(before(i)) # Cardinality(before(j))
    BY <1>5, <2>1, <2>2, FS_Subset
  <2> QED BY <1>1, <1>5, <2>3
<1>7. \A i, j \in S : rank[i] = rank[j] => i = j
  <2> SUFFICES ASSUME NEW i \in S, NEW j \in S, Cardinality(before(i)) = Cardinality(before(j))
               PROVE  i = j
    BY Zenon
  <2> HIDE DEF before, n
  <2>1. ~(i.seqNum < j.seqNum) /\ ~(j.seqNum < i.seqNum)
    BY <1>1, <1>5, <1>6
  <2>2. i.seqNum = j.seqNum
    BY <1>3, <2>1
  <2> QED BY <2>2, SameSessionOrder
<1>8. rank \in Surjection(S, 0..(n - 1))
  <2>1. rank \in Injection(S, 0..(n - 1))
    <3> HIDE DEF before, n
    <3>1. rank \in [S -> 0..(n - 1)]
      BY <1>5
    <3> QED BY <1>7, <3>1 DEF Injection, IsInjective
  <2>2. IsFiniteSet(0..(n - 1)) /\ Cardinality(0..(n - 1)) = n
    <3> HIDE DEF n
    <3>1. n - 1 \in Int /\ 0 \in Int
      BY <1>1
    <3>2. IsFiniteSet(0..(n - 1)) /\ Cardinality(0..(n - 1)) = IF 0 > n - 1 THEN 0 ELSE (n - 1) - 0 + 1
      BY <3>1, FS_Interval
    <3> QED BY <1>1, <3>2
  <2> HIDE DEF rank
  <2> QED BY <2>1, <2>2, FS_Injection DEF n
<1>9. \A k \in 1..n : at(k) \in S /\ Cardinality(before(at(k))) = k - 1
  <2> SUFFICES ASSUME NEW k \in 1..n PROVE at(k) \in S /\ Cardinality(before(at(k))) = k - 1
    OBVIOUS
  <2>1. k - 1 \in 0..(n - 1)
    BY <1>1
  <2>2. \E i \in S : rank[i] = k - 1
    BY <1>8, <2>1, Zenon DEF Surjection
  <2>3. \E i \in S : Cardinality(before(i)) = k - 1
    BY <2>2
  <2> HIDE DEF before, rank, n
  <2> QED BY <2>3
<1>10. Sorted(S) = [k \in 1..n |-> at(k)]
  BY DEF Sorted
<1> HIDE DEF at, before, n, rank
<1>11. Sorted(S) \in Seq(S) /\ Len(Sorted(S)) = n /\ \A k \in 1..n : Sorted(S)[k] = at(k)
  BY <1>1, <1>9, <1>10
<1>12. \A k, m \in 1..n : k < m => at(k).seqNum < at(m).seqNum
  <2> SUFFICES ASSUME NEW k \in 1..n, NEW m \in 1..n, k < m PROVE at(k).seqNum < at(m).seqNum
    OBVIOUS
  <2>1. at(k) \in S /\ at(m) \in S /\ Cardinality(before(at(k))) < Cardinality(before(at(m)))
    BY <1>1, <1>9
  <2>2. at(k) # at(m) /\ ~(at(m).seqNum < at(k).seqNum)
    BY <1>1, <1>5, <1>6, <2>1
  <2>3. at(k).seqNum # at(m).seqNum
    BY <2>1, <2>2, SameSessionOrder
  <2> QED BY <1>3, <2>1, <2>2, <2>3
<1> QED BY <1>11, <1>12

(* What goes out behind the item that was waited for: the numbers that follow,
   as many as there are without a gap. *)
LEMMA RunNumbers ==
    ASSUME sessionOrder \in [Sessions -> Nat], buffer \subseteq Items, IsFiniteSet(buffer),
           currentSessionId \in Sessions, nextSeqNum \in Nat,
           \A i \in buffer : i.session = currentSessionId /\ i.seqNum > nextSeqNum
    PROVE  LET run  == RunAfter(nextSeqNum)
               last == nextSeqNum + Cardinality(run)
           IN  /\ Cardinality(run) \in Nat
               /\ \A i \in run : i.seqNum \in nextSeqNum + 1 .. last
               /\ \A n \in nextSeqNum + 1 .. last :
                      [session |-> currentSessionId, seqNum |-> n] \in run
<1> DEFINE run     == RunAfter(nextSeqNum)
           item(n) == [session |-> currentSessionId, seqNum |-> n]
<1>1. sessionOrder[currentSessionId] \in Nat
  OBVIOUS
<1>2. \A i \in buffer : i.seqNum \in Nat /\ ~Precedes(i, currentSessionId, nextSeqNum + 1)
  BY <1>1, ItemForm DEF Precedes, OrderOf
<1>3. \A i : i \in run <=> /\ i \in buffer
                           /\ \A m \in nextSeqNum + 1 .. i.seqNum : item(m) \in buffer
  BY <1>2 DEF RunAfter
<1>4. \A i \in buffer : i = item(i.seqNum)
  BY ItemForm
<1>5. \A n : item(n).seqNum = n /\ item(n).session = currentSessionId
  OBVIOUS
<1>6. \A m, n : item(m) = item(n) => m = n
  BY <1>5
<1> HIDE DEF run, item
<1>7. run \subseteq buffer /\ IsFiniteSet(run)
  BY <1>3, FS_Subset
<1>8. CASE run = {}
  <2>1. Cardinality(run) = 0
    BY <1>8, FS_EmptySet
  <2> QED BY <1>8, <2>1 DEF run
<1>9. CASE run # {}
  <2> DEFINE numbers == {i.seqNum : i \in run}
             last    == QMaxOf(numbers)
  <2>1. IsFiniteSet(numbers)
    <3>1. [i \in run |-> i.seqNum] \in Surjection(run, numbers)
      BY DEF Surjection
    <3> QED BY <1>7, <3>1, FS_Surjection
  <2>2. numbers \subseteq Nat /\ numbers # {} /\ \A i \in run : i.seqNum \in numbers
    BY <1>2, <1>7, <1>9
  <2>2a. \A k \in numbers : \E i \in run : i.seqNum = k
    OBVIOUS
  <2> HIDE DEF numbers
  <2>3. last \in numbers /\ \A k \in numbers : k <= last
    BY <2>1, <2>2, MaxOfFinite
  <2>4. PICK top \in run : top.seqNum = last
    BY <2>2a, <2>3
  <2> HIDE DEF last
  <2>5. last \in Nat /\ nextSeqNum < last
    BY <1>2, <1>7, <2>2, <2>3, <2>4
  <2>6. \A n \in nextSeqNum + 1 .. last : item(n) \in buffer
    BY <1>3, <2>4
  <2>7. ASSUME NEW n \in nextSeqNum + 1 .. last PROVE item(n) \in run
    <3>1. \A m \in nextSeqNum + 1 .. n : m \in nextSeqNum + 1 .. last
      BY <2>5
    <3>2. \A m \in nextSeqNum + 1 .. item(n).seqNum : item(m) \in buffer
      BY <1>5, <2>6, <3>1
    <3> QED BY <1>3, <2>6, <3>2
  <2>8. \A i \in run : i.seqNum \in nextSeqNum + 1 .. last
    BY <1>2, <1>7, <2>2, <2>3, <2>5
  <2> DEFINE f == [n \in nextSeqNum + 1 .. last |-> item(n)]
  <2>9. f \in Bijection(nextSeqNum + 1 .. last, run)
    <3>1. f \in [nextSeqNum + 1 .. last -> run]
      BY <2>7
    <3>2. \A m, n \in nextSeqNum + 1 .. last : f[m] = f[n] => m = n
      BY <1>6
    <3>3. \A i \in run : i.seqNum \in nextSeqNum + 1 .. last /\ f[i.seqNum] = i
      BY <1>4, <1>7, <2>8
    <3> HIDE DEF f
    <3> QED BY <3>1, <3>2, <3>3 DEF Bijection, Injection, Surjection, IsInjective
  <2>10. IsFiniteSet(nextSeqNum + 1 .. last) /\ Cardinality(nextSeqNum + 1 .. last) = last - nextSeqNum
    <3>1. nextSeqNum + 1 \in Int /\ last \in Int /\ ~(nextSeqNum + 1 > last)
          /\ last - (nextSeqNum + 1) + 1 = last - nextSeqNum
      BY <2>5
    <3> QED BY <3>1, FS_Interval
  <2>11. Cardinality(run) = last - nextSeqNum
    <3>1. ExistsBijection(nextSeqNum + 1 .. last, run)
      BY <2>9 DEF ExistsBijection
    <3> QED BY <2>10, <3>1, FS_Bijection
  <2>12. Cardinality(run) \in Nat /\ nextSeqNum + Cardinality(run) = last
    BY <2>5, <2>11
  <2> QED BY <2>7, <2>8, <2>12 DEF run, item
<1> QED BY <1>8, <1>9

-----------------------------------------------------------------------------
(* The order in which inputs go to the PTY *)

Out == pty \o outCh

(* The pairs of items that may go out one after the other. *)
GoodPairs == {p \in Items \X Items : p[1] # p[2] /\ (Before(p[2], p[1]) => p[2] \in late)}

AllPairsGood(s, pairs) == \A m, n \in 1..Len(s) : m < n => <<s[m], s[n]>> \in pairs

(* Sessions are numbered in the order they were first seen in, the current one
   was the last, and it waits for a number that has been given out or is next. *)
SessionsOrdered ==
    /\ sessionOrder \in [Sessions -> Nat]
    /\ currentSessionId \in Sessions \cup {NoSession} /\ nextSeqNum \in Nat
    /\ \A s \in Sessions : sessionOrder[s] <= OrderOf(currentSessionId)
    /\ \A s, t \in Sessions : sessionOrder[s] = sessionOrder[t] /\ sessionOrder[s] > 0 => s = t
    /\ currentSessionId \in Sessions =>
           sessionOrder[currentSessionId] > 0 /\ nextSeqNum <= inputSeqNum[currentSessionId] + 1

(* What has gone out is before the number that is waited for; what is buffered
   is not. *)
Passed ==
    {i \in Items :
        /\ i.session \in Sessions /\ sessionOrder[i.session] > 0
        /\ i.seqNum \in 1..inputSeqNum[i.session]
        /\ Precedes(i, currentSessionId, nextSeqNum)
        /\ i \notin requests}

Frontier ==
    /\ \A i \in buffer : i.session = currentSessionId /\ i.seqNum >= nextSeqNum
    /\ \A k \in 1..Len(Out) : Out[k] \in Passed

(* A request whose number was given up, or has later ones waiting behind it, has
   been overtaken for as long as they waited. *)
OvertakenCounts ==
    /\ overtaken \in [Items -> Nat]
    /\ \A i \in requests :
           i.session = currentSessionId /\ i.seqNum < nextSeqNum => overtaken[i] >= Timeout
    /\ \A i \in requests, j \in buffer :
           j.session = i.session /\ j.seqNum > i.seqNum =>
               overtaken[i] >= Timeout \/ overtaken[i] >= age[j]

OrderInv ==
    /\ QueueInv /\ InputInv
    /\ pty \in Seq(Items) /\ outCh \in Seq(Items)
    /\ SessionsOrdered /\ Frontier /\ OvertakenCounts
    /\ AllPairsGood(Out, GoodPairs)

LEMMA OutType == OrderInv => Out \in Seq(Items)
BY DEF OrderInv, Out

LEMMA OrderInvImplies == OrderInv => InOrderUnlessLate
<1> SUFFICES ASSUME OrderInv PROVE InOrderUnlessLate
  OBVIOUS
<1>1. DOMAIN Out = 1..Len(Out) /\ Len(Out) \in Nat
  BY OutType
<1>2. \A m, n \in DOMAIN Out : m < n => <<Out[m], Out[n]>> \in GoodPairs
  BY <1>1 DEF OrderInv, AllPairsGood
<1>3. \A i, j : <<i, j>> \in GoodPairs => i # j /\ (Before(j, i) => j \in late)
  BY DEF GoodPairs
<1>4. \A m, n \in DOMAIN Out : m < n => Out[m] # Out[n] /\ (Before(Out[n], Out[m]) => Out[n] \in late)
  BY <1>2, <1>3
<1> QED BY <1>4 DEF InOrderUnlessLate, Out

LEMMA PairsOfConcat ==
    ASSUME NEW S, NEW s \in Seq(S), NEW t \in Seq(S), NEW pairs,
           AllPairsGood(s, pairs), AllPairsGood(t, pairs),
           \A m \in 1..Len(s), n \in 1..Len(t) : <<s[m], t[n]>> \in pairs
    PROVE  AllPairsGood(s \o t, pairs)
<1> DEFINE a == Len(s)
           b == Len(t)
<1>1. /\ a \in Nat /\ b \in Nat /\ Len(s \o t) = a + b
      /\ \A k \in 1..a : (s \o t)[k] = s[k]
      /\ \A k \in (a + 1)..(a + b) : (s \o t)[k] = t[k - a]
  OBVIOUS
<1>2. \A m, n \in 1..a : m < n => <<s[m], s[n]>> \in pairs
  BY DEF AllPairsGood
<1>3. \A m, n \in 1..b : m < n => <<t[m], t[n]>> \in pairs
  BY DEF AllPairsGood
<1>4. \A m \in 1..a, n \in 1..b : <<s[m], t[n]>> \in pairs
  OBVIOUS
<1> HIDE DEF a, b
<1>5. ASSUME NEW m \in 1..(a + b), NEW n \in 1..(a + b), m < n
      PROVE  <<(s \o t)[m], (s \o t)[n]>> \in pairs
  <2>1. CASE n <= a
    BY <1>1, <1>2, <1>5, <2>1
  <2>2. CASE m <= a /\ ~(n <= a)
    <3>1. m \in 1..a /\ n \in (a + 1)..(a + b) /\ n - a \in 1..b
      BY <1>1, <2>2
    <3> QED BY <1>1, <1>4, <3>1
  <2>3. CASE ~(m <= a) /\ ~(n <= a)
    <3>1. m \in (a + 1)..(a + b) /\ n \in (a + 1)..(a + b) /\ m - a \in 1..b /\ n - a \in 1..b
          /\ m - a < n - a
      BY <1>1, <1>5, <2>3
    <3> QED BY <1>1, <1>3, <3>1
  <2> QED BY <1>1, <1>5, <2>1, <2>2, <2>3
<1> QED BY <1>1, <1>5 DEF AllPairsGood

(* A step that sends seg out after all that went before. *)
LEMMA GoesOut ==
    ASSUME OrderInv, NEW seg \in Seq(Items), Out' = Out \o seg,
           late \subseteq late', Passed \subseteq Passed',
           \A i, j \in Passed : Before(i, j)' => Before(i, j),
           \A n \in 1..Len(seg) : seg[n] \in Passed',
           AllPairsGood(seg, GoodPairs'),
           \A i \in Passed, n \in 1..Len(seg) : <<i, seg[n]>> \in GoodPairs'
    PROVE  (\A k \in 1..Len(Out') : Out'[k] \in Passed') /\ AllPairsGood(Out', GoodPairs')
<1>1. Out \in Seq(Items) /\ \A k \in 1..Len(Out) : Out[k] \in Passed
  BY OutType DEF OrderInv, Frontier
<1>2. \A i, j \in Passed : <<i, j>> \in GoodPairs => <<i, j>> \in GoodPairs'
  <2>1. \A i, j : <<i, j>> \in GoodPairs => i \in Items /\ j \in Items /\ i # j /\ (Before(j, i) => j \in late)
    BY DEF GoodPairs
  <2>2. \A i, j \in Items : i # j /\ (Before(j, i)' => j \in late') => <<i, j>> \in GoodPairs'
    BY DEF GoodPairs
  <2> QED BY <2>1, <2>2
<1>3. AllPairsGood(Out, GoodPairs')
  BY <1>1, <1>2 DEF OrderInv, AllPairsGood
<1>4. AllPairsGood(Out \o seg, GoodPairs')
  BY <1>1, <1>3, PairsOfConcat
<1> DEFINE a == Len(Out)
           b == Len(seg)
<1>5. /\ a \in Nat /\ b \in Nat /\ Len(Out \o seg) = a + b
      /\ \A k \in 1..(a + b) : (Out \o seg)[k] = IF k <= a THEN Out[k] ELSE seg[k - a]
  BY <1>1, ConcatProperties, LenProperties
<1>6. \A k \in 1..a : Out[k] \in Passed'
  BY <1>1
<1>7. \A k \in 1..b : seg[k] \in Passed'
  OBVIOUS
<1> HIDE DEF a, b
<1>8. ASSUME NEW k \in 1..(a + b) PROVE (Out \o seg)[k] \in Passed'
  <2>1. CASE k <= a
    BY <1>5, <1>6, <2>1
  <2>2. CASE ~(k <= a)
    <3>1. k - a \in 1..b
      BY <1>5, <2>2
    <3> QED BY <1>5, <1>7, <2>2, <3>1
  <2> QED BY <2>1, <2>2
<1> QED BY <1>4, <1>5, <1>8

(* A step that sends nothing out. *)
LEMMA NothingGoesOut ==
    ASSUME OrderInv, Out' = Out, late \subseteq late', Passed \subseteq Passed', UNCHANGED sessionOrder
    PROVE  (\A k \in 1..Len(Out') : Out'[k] \in Passed') /\ AllPairsGood(Out', GoodPairs')
<1> DEFINE none == <<>>
<1>1. none \in Seq(Items) /\ Out' = Out \o none /\ \A n \in 1..Len(none) : FALSE
  BY OutType, ConcatEmptySeq
<1>2. \A i, j \in Passed : Before(i, j)' => Before(i, j)
  BY DEF Before, Precedes, OrderOf
<1> HIDE DEF none
<1>3. AllPairsGood(none, GoodPairs')
  BY <1>1 DEF AllPairsGood
<1> QED BY <1>1, <1>2, <1>3, GoesOut

(* An item that comes before another may go out before it. *)
LEMMA BeforeIsGood ==
    ASSUME sessionOrder' \in [Sessions -> Nat], NEW i \in Items, NEW j \in Items, Before(i, j)'
    PROVE  <<i, j>> \in GoodPairs'
<1>1. OrderOf(i.session)' \in Nat /\ OrderOf(j.session)' \in Nat
  BY DEF OrderOf
<1>2. i # j /\ ~Before(j, i)'
  BY <1>1, ItemForm DEF Before, Precedes
<1> QED BY <1>2 DEF GoodPairs

LEMMA AscendingIsGood ==
    ASSUME sessionOrder' \in [Sessions -> Nat], NEW S, S \subseteq Items,
           \A i, j \in S : i.session = j.session,
           NEW s \in Seq(S), \A m, n \in 1..Len(s) : m < n => s[m].seqNum < s[n].seqNum
    PROVE  AllPairsGood(s, GoodPairs')
<1>1. \A m \in 1..Len(s) : s[m] \in S
  BY ElementOfSeq
<1>2. ASSUME NEW m \in 1..Len(s), NEW n \in 1..Len(s), m < n PROVE <<s[m], s[n]>> \in GoodPairs'
  <2>1. s[m] \in Items /\ s[n] \in Items /\ s[m].session = s[n].session /\ s[m].seqNum < s[n].seqNum
    BY <1>1, <1>2
  <2>2. Before(s[m], s[n])'
    BY <2>1 DEF Before, Precedes, OrderOf
  <2> QED BY <2>1, <2>2, BeforeIsGood
<1> QED BY <1>2 DEF AllPairsGood

(* What holds of the sessions at a glance. *)
LEMMA StartedSession ==
    ASSUME OrderInv, NEW s \in Sessions, sessionOrder[s] > 0
    PROVE  /\ currentSessionId \in Sessions /\ sessionOrder[currentSessionId] \in Nat
           /\ sessionOrder[s] <= sessionOrder[currentSessionId]
           /\ sessionOrder[s] = sessionOrder[currentSessionId] => s = currentSessionId
BY QueueAssumption DEF OrderInv, SessionsOrdered, OrderOf

(* What is buffered comes after all that has gone out. *)
LEMMA PassedBeforeBuffer ==
    ASSUME OrderInv, NEW i \in Passed, NEW j \in buffer
    PROVE  Before(i, j)
<1>1. j.session = currentSessionId /\ j.seqNum >= nextSeqNum /\ j.seqNum \in Nat /\ i.seqNum \in Nat
      /\ nextSeqNum \in Nat /\ j \in Items
  BY ItemForm DEF OrderInv, Frontier, Passed, QueueInv, SessionsOrdered
<1> QED BY <1>1 DEF Passed, Before, Precedes

LEMMA SortedBuffer ==
    ASSUME OrderInv, NEW S, S \subseteq buffer
    PROVE  /\ S \subseteq Items /\ IsFiniteSet(S) /\ \A i, j \in S : i.session = j.session
           /\ Sorted(S) \in Seq(S) /\ Sorted(S) \in Seq(Items)
           /\ \A m, n \in 1..Len(Sorted(S)) : m < n => Sorted(S)[m].seqNum < Sorted(S)[n].seqNum
           /\ \A n \in 1..Len(Sorted(S)) : Sorted(S)[n] \in S
<1>1. S \subseteq Items /\ IsFiniteSet(S) /\ \A i, j \in S : i.session = j.session
  BY FS_Subset DEF OrderInv, QueueInv, Frontier
<1>2. /\ Sorted(S) \in Seq(S)
      /\ \A m, n \in 1..Len(Sorted(S)) : m < n => Sorted(S)[m].seqNum < Sorted(S)[n].seqNum
  BY <1>1, SortedInOrder DEF OrderInv, SessionsOrdered
<1>3. Sorted(S) \in Seq(Items) /\ \A n \in 1..Len(Sorted(S)) : Sorted(S)[n] \in S
  BY <1>1, <1>2, SeqMonotonic, ElementOfSeq
<1> QED BY <1>1, <1>2, <1>3

-----------------------------------------------------------------------------
(* An item is queued *)

(* The place of the new session is after all others. *)
LEMMA NewPlace ==
    ASSUME OrderInv
    PROVE  LET new == 1 + QMaxOf({0} \cup {sessionOrder[s] : s \in Sessions})
           IN  new \in Nat /\ \A s \in Sessions : sessionOrder[s] < new
<1> DEFINE orders == {sessionOrder[s] : s \in Sessions}
           all    == {0} \cup orders
<1>1. IsFiniteSet(orders)
  <2>1. [s \in Sessions |-> sessionOrder[s]] \in Surjection(Sessions, orders)
    BY DEF Surjection
  <2> QED BY <2>1, FS_Surjection, QueueAssumption
<1>2. orders \subseteq Nat /\ \A s \in Sessions : sessionOrder[s] \in orders
  BY DEF OrderInv, SessionsOrdered
<1> HIDE DEF orders
<1>3. IsFiniteSet(all)
  BY <1>1, FS_Singleton, FS_Union
<1>4. all \subseteq Nat /\ all # {}
  BY <1>2
<1>5. QMaxOf(all) \in Nat /\ \A k \in all : k <= QMaxOf(all)
  BY <1>3, <1>4, MaxOfFinite
<1>6. \A s \in Sessions : sessionOrder[s] \in all /\ sessionOrder[s] \in Nat
  BY <1>2
<1> DEFINE top == QMaxOf(all)
<1> HIDE DEF all, top
<1>7. 1 + top \in Nat /\ \A s \in Sessions : sessionOrder[s] < 1 + top
  BY <1>5, <1>6 DEF top
<1> QED BY <1>7 DEF top, all, orders

(* What the requests and numbers of a job's input do while one is queued *)
TakesRequest(i) ==
    /\ requests' = requests \ {i}
    /\ late' = IF overtaken[i] >= Timeout \/ OutOfSession(i) THEN late \cup {i} ELSE late
    /\ UNCHANGED <<inputSeqNum, overtaken, pty>>

LEMMA RequestForm ==
    ASSUME OrderInv, NEW i \in requests
    PROVE  /\ i \in Items /\ i.session \in Sessions /\ i.seqNum \in 1..inputSeqNum[i.session]
           /\ inputSeqNum[i.session] \in Nat /\ i.seqNum \in Nat /\ i.seqNum >= 1
           /\ i \notin buffer /\ i \notin Passed
BY DEF OrderInv, InputInv, Passed

LEMMA SegmentOut ==
    ASSUME OrderInv, NEW seg \in Seq(Items), outCh' = outCh \o seg, UNCHANGED pty
    PROVE  Out' = Out \o seg /\ outCh' \in Seq(Items) /\ pty' \in Seq(Items)
<1>1. pty \in Seq(Items) /\ outCh \in Seq(Items)
  BY DEF OrderInv
<1>2. outCh' \in Seq(Items)
  BY <1>1, ConcatProperties
<1>3. pty \o (outCh \o seg) = (pty \o outCh) \o seg
  BY <1>1, ConcatAssociative
<1> QED BY <1>1, <1>2, <1>3 DEF Out

(* What was buffered for the old session goes out; the new one is after it. *)
LEMMA StartsSessionOrder ==
    ASSUME OrderInv, NEW i \in requests, IsNew(i), StartsSession(i), TakesRequest(i),
           QueueInv', InputInv'
    PROVE  OrderInv'
<1> DEFINE new == 1 + QMaxOf({0} \cup {sessionOrder[s] : s \in Sessions})
<1>1. new \in Nat /\ \A s \in Sessions : sessionOrder[s] < new
  BY NewPlace
<1>2. /\ sessionOrder' = [sessionOrder EXCEPT ![i.session] = new]
      /\ currentSessionId' = i.session /\ age' = [age EXCEPT ![i] = 0]
      /\ nextSeqNum' = IF i.seqNum = 1 THEN 2 ELSE 1
  BY DEF StartsSession
<1>3. IF i.seqNum <= 1 THEN outCh' = outCh \o Sorted(buffer) \o <<i>> /\ buffer' = {}
                       ELSE outCh' = outCh \o Sorted(buffer) /\ buffer' = {i}
  BY DEF StartsSession
<1> HIDE DEF new
<1>4. /\ i \in Items /\ i.session \in Sessions /\ i.seqNum \in 1..inputSeqNum[i.session]
      /\ inputSeqNum[i.session] \in Nat /\ i.seqNum \in Nat /\ i.seqNum >= 1
  BY RequestForm
<1>5. /\ sessionOrder \in [Sessions -> Nat] /\ sessionOrder' \in [Sessions -> Nat]
      /\ sessionOrder[i.session] = 0 /\ sessionOrder'[i.session] = new /\ new > 0
      /\ \A s \in Sessions \ {i.session} : sessionOrder'[s] = sessionOrder[s] /\ sessionOrder'[s] < new
  BY <1>1, <1>2, <1>4 DEF OrderInv, SessionsOrdered, IsNew
<1>6. OrderOf(currentSessionId)' = new /\ nextSeqNum' \in {1, 2}
  BY <1>2, <1>4, <1>5 DEF OrderOf
<1>7. SessionsOrdered'
  <2>1. \A s \in Sessions : sessionOrder'[s] <= new
    BY <1>1, <1>5
  <2>2. \A s, t \in Sessions : sessionOrder'[s] = sessionOrder'[t] /\ sessionOrder'[s] > 0 => s = t
    BY <1>1, <1>5 DEF OrderInv, SessionsOrdered
  <2>3. sessionOrder'[i.session] > 0 /\ nextSeqNum' <= inputSeqNum'[i.session] + 1
    BY <1>4, <1>5, <1>6, <1>2 DEF TakesRequest
  <2> QED BY <1>2, <1>4, <1>5, <1>6, <2>1, <2>2, <2>3 DEF SessionsOrdered
<1> DEFINE old == Passed \cup buffer
<1>8. \A j \in old : /\ j \in Items /\ j.session \in Sessions \ {i.session} /\ sessionOrder[j.session] > 0
                     /\ j.seqNum \in 1..inputSeqNum[j.session] /\ j \notin requests
  <2>1. \A j \in buffer : j \in Items /\ j.session = currentSessionId /\ j.session \in Sessions
                          /\ j.seqNum \in 1..inputSeqNum[j.session] /\ j \notin requests
    BY DEF OrderInv, QueueInv, InputInv, Frontier
  <2>2. \A j \in buffer : sessionOrder[j.session] > 0
    BY <2>1 DEF OrderInv, SessionsOrdered
  <2> QED BY <1>5, <2>1, <2>2 DEF Passed
<1>9. old \subseteq Passed'
  <2>1. ASSUME NEW j \in old PROVE j \in Passed'
    <3>1. sessionOrder'[j.session] > 0 /\ sessionOrder'[j.session] < new
      BY <1>5, <1>8
    <3>2. Precedes(j, currentSessionId, nextSeqNum)'
      BY <1>6, <1>8, <3>1 DEF Precedes, OrderOf
    <3> QED BY <1>8, <3>1, <3>2 DEF Passed, TakesRequest
  <2> QED BY <2>1
<1>10. \A j, k \in old : Before(j, k)' <=> Before(j, k)
  BY <1>5, <1>8 DEF Before, Precedes, OrderOf
<1>11. late \subseteq late'
  BY DEF TakesRequest
<1> DEFINE seg == Sorted(buffer)
<1>12. /\ seg \in Seq(Items) /\ \A n \in 1..Len(seg) : seg[n] \in buffer
       /\ AllPairsGood(seg, GoodPairs')
  <2>1. /\ buffer \subseteq Items /\ seg \in Seq(buffer) /\ \A j, k \in buffer : j.session = k.session
        /\ \A m, n \in 1..Len(seg) : m < n => seg[m].seqNum < seg[n].seqNum
        /\ seg \in Seq(Items) /\ \A n \in 1..Len(seg) : seg[n] \in buffer
    BY SortedBuffer
  <2> HIDE DEF seg
  <2> QED BY <1>5, <2>1, AscendingIsGood
<1> HIDE DEF seg, old
<1>13. \A j \in Passed, n \in 1..Len(seg) : <<j, seg[n]>> \in GoodPairs'
  <2>1. ASSUME NEW j \in Passed, NEW k \in buffer PROVE <<j, k>> \in GoodPairs'
    <3>1. Before(j, k)'
      BY <1>10, PassedBeforeBuffer DEF old
    <3> QED BY <1>5, <1>8, <3>1, BeforeIsGood DEF old
  <2> QED BY <1>12, <2>1
<1>14. \A j \in old : <<j, i>> \in GoodPairs'
  <2>1. ASSUME NEW j \in old PROVE <<j, i>> \in GoodPairs'
    <3>1. Before(j, i)'
      BY <1>4, <1>5, <1>8 DEF Before, Precedes, OrderOf
    <3> QED BY <1>4, <1>5, <1>8, <3>1, BeforeIsGood
  <2> QED BY <2>1
<1>15. OvertakenCounts'
  <2>1. \A j \in requests' : j \in Items /\ j # i /\ j.seqNum >= 1 /\ j.seqNum \in Nat
        /\ j \in requests /\ overtaken'[j] = overtaken[j] /\ overtaken[j] \in Nat
    BY RequestForm DEF TakesRequest, OrderInv, OvertakenCounts
  <2>2. ASSUME NEW j \in requests', j.session = currentSessionId', j.seqNum < nextSeqNum' PROVE FALSE
    <3>1. nextSeqNum' = 2 /\ j.seqNum = 1 /\ i.seqNum = 1
      BY <1>2, <2>1, <2>2
    <3>2. j = i
      BY <1>2, <1>4, <2>1, <2>2, <3>1, ItemForm
    <3> QED BY <2>1, <3>2
  <2>3. \A k \in buffer' : age'[k] = 0
    BY <1>2, <1>3, <1>4 DEF OrderInv, QueueInv
  <2>4. overtaken' \in [Items -> Nat]
    BY DEF TakesRequest, OrderInv, OvertakenCounts
  <2> QED BY <2>1, <2>2, <2>3, <2>4 DEF OvertakenCounts
<1>16. \A j \in buffer' : j.session = currentSessionId' /\ j.seqNum >= nextSeqNum'
  BY <1>2, <1>3, <1>4
<1>17. CASE i.seqNum <= 1
  <2> DEFINE all == seg \o <<i>>
  <2>0. <<i>> \in Seq(Items) /\ Len(<<i>>) = 1 /\ <<i>>[1] = i
    BY <1>4
  <2>1. all \in Seq(Items)
    BY <1>12, <2>0, ConcatProperties
  <2>2. outCh' = outCh \o all
    <3>1. outCh \in Seq(Items) /\ outCh' = (outCh \o seg) \o <<i>>
      BY <1>3, <1>17 DEF OrderInv, seg
    <3> QED BY <1>12, <2>0, <3>1, ConcatAssociative
  <2>3. i \in Passed'
    <3>1. nextSeqNum' = 2 /\ i.seqNum = 1
      BY <1>2, <1>4, <1>17
    <3>2. Precedes(i, currentSessionId, nextSeqNum)'
      BY <1>2, <1>6, <3>1 DEF Precedes
    <3> QED BY <1>4, <1>5, <3>2 DEF Passed, TakesRequest
  <2>4. \A n \in 1..Len(all) : all[n] \in buffer \cup {i}
    <3>1. seg \in Seq(buffer \cup {i}) /\ <<i>> \in Seq(buffer \cup {i})
      BY SortedBuffer DEF seg
    <3>2. all \in Seq(buffer \cup {i})
      BY <3>1, ConcatProperties
    <3> QED BY <3>2, ElementOfSeq
  <2>5. AllPairsGood(all, GoodPairs')
    <3>1. AllPairsGood(<<i>>, GoodPairs')
      BY <2>0 DEF AllPairsGood
    <3>2. \A m \in 1..Len(seg), n \in 1..Len(<<i>>) : <<seg[m], <<i>>[n]>> \in GoodPairs'
      BY <1>12, <1>14, <2>0 DEF old
    <3> QED BY <1>12, <2>0, <3>1, <3>2, PairsOfConcat
  <2>6. \A j \in Passed, n \in 1..Len(all) : <<j, all[n]>> \in GoodPairs'
    <3>1. ASSUME NEW j \in Passed, NEW k \in buffer PROVE <<j, k>> \in GoodPairs'
      <4>1. Before(j, k)'
        BY <1>10, PassedBeforeBuffer DEF old
      <4> QED BY <1>5, <1>8, <4>1, BeforeIsGood DEF old
    <3> QED BY <1>14, <2>4, <3>1 DEF old
  <2>7. \A n \in 1..Len(all) : all[n] \in Passed'
    BY <1>9, <2>3, <2>4 DEF old
  <2>8. Passed \subseteq Passed' /\ \A j, k \in Passed : Before(j, k)' => Before(j, k)
    BY <1>9, <1>10 DEF old
  <2> HIDE DEF all
  <2>9. Out' = Out \o all /\ outCh' \in Seq(Items) /\ pty' \in Seq(Items)
    BY <2>1, <2>2, SegmentOut DEF TakesRequest
  <2>10. (\A k \in 1..Len(Out') : Out'[k] \in Passed') /\ AllPairsGood(Out', GoodPairs')
    BY <1>11, <2>1, <2>5, <2>6, <2>7, <2>8, <2>9, GoesOut
  <2> QED BY <1>7, <1>15, <1>16, <2>9, <2>10 DEF OrderInv, Frontier
<1>18. CASE ~(i.seqNum <= 1)
  <2>1. Out' = Out \o seg /\ outCh' \in Seq(Items) /\ pty' \in Seq(Items)
    BY <1>3, <1>12, <1>18, SegmentOut DEF TakesRequest, seg
  <2>2. \A n \in 1..Len(seg) : seg[n] \in Passed'
    BY <1>9, <1>12 DEF old
  <2>3. Passed \subseteq Passed' /\ \A j, k \in Passed : Before(j, k)' => Before(j, k)
    BY <1>9, <1>10 DEF old
  <2>4. (\A k \in 1..Len(Out') : Out'[k] \in Passed') /\ AllPairsGood(Out', GoodPairs')
    BY <1>11, <1>12, <1>13, <2>1, <2>2, <2>3, GoesOut
  <2> QED BY <1>7, <1>15, <1>16, <2>1, <2>4 DEF OrderInv, Frontier
<1> QED BY <1>17, <1>18

(* When nothing changes of the sessions, what has gone out stays before what the
   queue waits for. *)
LEMMA PassedStays ==
    ASSUME OrderInv, UNCHANGED <<sessionOrder, currentSessionId>>, nextSeqNum' \in Nat,
           nextSeqNum <= nextSeqNum', requests' \subseteq requests, UNCHANGED inputSeqNum
    PROVE  /\ Passed \subseteq Passed'
           /\ \A i, j \in Items : Before(i, j)' <=> Before(i, j)
<1>1. \A i, j \in Items : Before(i, j)' <=> Before(i, j)
  BY DEF Before, Precedes, OrderOf
<1>2. ASSUME NEW i \in Passed PROVE i \in Passed'
  <2>1. i.seqNum \in Nat /\ nextSeqNum \in Nat /\ i \in Items
    BY ItemForm DEF Passed, OrderInv, SessionsOrdered
  <2>2. Precedes(i, currentSessionId, nextSeqNum)'
    BY <1>2, <2>1 DEF Passed, Precedes, OrderOf
  <2> QED BY <1>2, <2>2 DEF Passed
<1> QED BY <1>1, <1>2

(* Too late, and known to be: a timeout went by since it was overtaken, or its
   session was over. *)
LEMMA PassesThroughOrder ==
    ASSUME OrderInv, NEW i \in requests, ~IsNew(i), PassesThrough(i), TakesRequest(i),
           QueueInv', InputInv'
    PROVE  OrderInv'
<1>1. /\ Bypasses(i) /\ outCh' = Append(outCh, i)
      /\ UNCHANGED <<sessionOrder, currentSessionId, nextSeqNum, buffer, age>>
  BY DEF PassesThrough
<1>2. /\ i \in Items /\ i.session \in Sessions /\ i.seqNum \in 1..inputSeqNum[i.session]
      /\ i.seqNum \in Nat /\ i.seqNum >= 1 /\ i \notin Passed
  BY RequestForm
<1>3. sessionOrder[i.session] > 0 /\ Precedes(i, currentSessionId, nextSeqNum)
  BY <1>1, <1>2, QueueAssumption DEF IsNew, Bypasses, OrderInv, SessionsOrdered
<1>4. i \in late'
  <2>1. CASE i.session # currentSessionId
    BY <2>1 DEF OutOfSession, TakesRequest
  <2>2. CASE i.session = currentSessionId
    <3>1. sessionOrder[i.session] \in Nat
      BY <1>2 DEF OrderInv, SessionsOrdered
    <3>2. i.seqNum < nextSeqNum
      BY <1>2, <1>3, <2>2, <3>1 DEF Precedes, OrderOf
    <3>3. overtaken[i] >= Timeout
      BY <2>2, <3>2 DEF OrderInv, OvertakenCounts
    <3> QED BY <3>3 DEF TakesRequest
  <2> QED BY <2>1, <2>2
<1>5. late \subseteq late' /\ nextSeqNum \in Nat
  BY DEF TakesRequest, OrderInv, SessionsOrdered
<1>6. Passed \subseteq Passed' /\ \A j, k \in Items : Before(j, k)' <=> Before(j, k)
  BY <1>1, <1>5, PassedStays DEF TakesRequest
<1>7. i \in Passed'
  BY <1>1, <1>2, <1>3 DEF Passed, TakesRequest, Precedes, OrderOf
<1> DEFINE seg == <<i>>
<1>8. seg \in Seq(Items) /\ \A n \in 1..Len(seg) : n = 1 /\ seg[n] = i
  BY <1>2
<1>9. outCh' = outCh \o seg
  BY <1>1, <1>2, AppendIsConcat DEF OrderInv
<1> HIDE DEF seg
<1>10. Out' = Out \o seg /\ outCh' \in Seq(Items) /\ pty' \in Seq(Items)
  BY <1>8, <1>9, SegmentOut DEF TakesRequest
<1>11. AllPairsGood(seg, GoodPairs')
  BY <1>8 DEF AllPairsGood
<1>12. \A j \in Passed : <<j, i>> \in GoodPairs'
  BY <1>2, <1>4 DEF GoodPairs, Passed
<1>13. (\A k \in 1..Len(Out') : Out'[k] \in Passed') /\ AllPairsGood(Out', GoodPairs')
  <2>1. \A j, k \in Passed : Before(j, k)' => Before(j, k)
    BY <1>6 DEF Passed
  <2>2. \A n \in 1..Len(seg) : seg[n] \in Passed'
    BY <1>7, <1>8
  <2>3. \A j \in Passed, n \in 1..Len(seg) : <<j, seg[n]>> \in GoodPairs'
    BY <1>8, <1>12
  <2> QED BY <1>5, <1>6, <1>8, <1>10, <1>11, <2>1, <2>2, <2>3, GoesOut
<1>14. SessionsOrdered' /\ OvertakenCounts'
  BY <1>1 DEF TakesRequest, OrderInv, SessionsOrdered, OvertakenCounts, OrderOf
<1>15. \A j \in buffer' : j.session = currentSessionId' /\ j.seqNum >= nextSeqNum'
  BY <1>1 DEF OrderInv, Frontier
<1> QED BY <1>10, <1>13, <1>14, <1>15 DEF OrderInv, Frontier

(* An item of the current session that the queue waits for, or for one before. *)
LEMMA InSession ==
    ASSUME OrderInv, NEW i \in requests, ~IsNew(i), ~Bypasses(i)
    PROVE  /\ i.session = currentSessionId /\ currentSessionId \in Sessions
           /\ sessionOrder[currentSessionId] \in Nat /\ sessionOrder[currentSessionId] > 0
           /\ i.seqNum >= nextSeqNum /\ nextSeqNum \in Nat
<1>1. i \in Items /\ i.session \in Sessions /\ i.seqNum \in Nat
  BY RequestForm
<1>2. sessionOrder[i.session] > 0 /\ sessionOrder[i.session] \in Nat /\ nextSeqNum \in Nat
  BY <1>1 DEF IsNew, OrderInv, SessionsOrdered
<1>3. /\ currentSessionId \in Sessions /\ sessionOrder[currentSessionId] \in Nat
      /\ sessionOrder[i.session] <= sessionOrder[currentSessionId]
      /\ (sessionOrder[i.session] = sessionOrder[currentSessionId] => i.session = currentSessionId)
  BY <1>1, <1>2, StartedSession
<1>4. ~Precedes(i, currentSessionId, nextSeqNum)
  BY DEF Bypasses
<1>5. sessionOrder[i.session] = sessionOrder[currentSessionId] /\ i.seqNum >= nextSeqNum
  BY <1>1, <1>2, <1>3, <1>4 DEF Precedes, OrderOf
<1> QED BY <1>2, <1>3, <1>5

LEMMA ArrivesEarlyOrder ==
    ASSUME OrderInv, NEW i \in requests, ~IsNew(i), ArrivesEarly(i), TakesRequest(i),
           QueueInv', InputInv'
    PROVE  OrderInv'
<1>1. /\ buffer' = buffer \cup {i} /\ age' = [age EXCEPT ![i] = 0]
      /\ UNCHANGED <<sessionOrder, currentSessionId, nextSeqNum, outCh>>
  BY DEF ArrivesEarly
<1>2. /\ i.session = currentSessionId /\ i.seqNum >= nextSeqNum /\ nextSeqNum \in Nat
  BY InSession DEF ArrivesEarly
<1>3. i \in Items /\ i \notin buffer
  BY RequestForm
<1>4. Passed \subseteq Passed'
  BY <1>1, <1>2, PassedStays DEF TakesRequest
<1>5. (\A k \in 1..Len(Out') : Out'[k] \in Passed') /\ AllPairsGood(Out', GoodPairs')
  <2>1. Out' = Out /\ late \subseteq late'
    BY <1>1 DEF Out, TakesRequest
  <2> QED BY <1>1, <1>4, <2>1, NothingGoesOut
<1>6. OvertakenCounts'
  <2>1. age \in [Items -> Nat] /\ age'[i] = 0 /\ \A j \in buffer : age'[j] = age[j]
    BY <1>1, <1>3 DEF OrderInv, QueueInv
  <2>2. \A j \in requests' : j \in requests /\ overtaken'[j] = overtaken[j] /\ overtaken[j] \in Nat
    BY RequestForm DEF TakesRequest, OrderInv, OvertakenCounts
  <2>3. overtaken' \in [Items -> Nat]
    BY DEF TakesRequest, OrderInv, OvertakenCounts
  <2>4. ASSUME NEW j \in requests', NEW k \in buffer', k.session = j.session, k.seqNum > j.seqNum
        PROVE  overtaken'[j] >= Timeout \/ overtaken'[j] >= age'[k]
    <3>1. CASE k = i
      BY <2>1, <2>2, <3>1
    <3>2. CASE k \in buffer
      BY <2>1, <2>2, <2>4, <3>2 DEF OrderInv, OvertakenCounts
    <3> QED BY <1>1, <3>1, <3>2
  <2> QED BY <1>1, <2>2, <2>3, <2>4 DEF OrderInv, OvertakenCounts
<1>7. SessionsOrdered'
  BY <1>1 DEF TakesRequest, OrderInv, SessionsOrdered, OrderOf
<1>8. \A j \in buffer' : j.session = currentSessionId' /\ j.seqNum >= nextSeqNum'
  BY <1>1, <1>2 DEF OrderInv, Frontier
<1>9. outCh' \in Seq(Items) /\ pty' \in Seq(Items)
  BY <1>1 DEF OrderInv, TakesRequest
<1> QED BY <1>5, <1>6, <1>7, <1>8, <1>9 DEF OrderInv, Frontier

(* The item that was waited for, and those behind it without a gap. *)
LEMMA ArrivesInOrderOrder ==
    ASSUME OrderInv, NEW i \in requests, ~IsNew(i), ArrivesInOrder(i), TakesRequest(i),
           QueueInv', InputInv'
    PROVE  OrderInv'
<1> DEFINE run  == RunAfter(nextSeqNum)
           last == nextSeqNum + Cardinality(run)
<1>1. /\ outCh' = outCh \o <<i>> \o Sorted(run) /\ nextSeqNum' = nextSeqNum + 1 + Cardinality(run)
      /\ buffer' = buffer \ run /\ UNCHANGED <<sessionOrder, currentSessionId, age>>
  BY DEF ArrivesInOrder
<1>2. /\ i.session = currentSessionId /\ currentSessionId \in Sessions
      /\ sessionOrder[currentSessionId] \in Nat /\ sessionOrder[currentSessionId] > 0
      /\ nextSeqNum \in Nat
  BY InSession DEF ArrivesInOrder
<1>3. /\ i \in Items /\ i.seqNum \in 1..inputSeqNum[i.session] /\ i \notin buffer
      /\ inputSeqNum[i.session] \in Nat
  BY RequestForm
<1>4. i.seqNum = nextSeqNum
  BY DEF ArrivesInOrder, IsAt
<1>5. \A j \in buffer : j \in Items /\ j.session = currentSessionId /\ j.seqNum > nextSeqNum /\ j.seqNum \in Nat
  <2>1. \A j \in buffer : j \in Items /\ j.session = currentSessionId /\ j.seqNum >= nextSeqNum /\ j.seqNum \in Nat
    BY ItemForm DEF OrderInv, Frontier, QueueInv
  <2>2. \A j \in buffer : j.seqNum # nextSeqNum
    BY <1>2, <1>3, <1>4, <2>1, ItemForm
  <2> QED BY <1>2, <2>1, <2>2
<1>6. /\ Cardinality(run) \in Nat
      /\ \A j \in run : j.seqNum \in nextSeqNum + 1 .. last
      /\ \A n \in nextSeqNum + 1 .. last : [session |-> currentSessionId, seqNum |-> n] \in run
  <2>1. sessionOrder \in [Sessions -> Nat] /\ buffer \subseteq Items /\ IsFiniteSet(buffer)
    BY DEF OrderInv, SessionsOrdered, QueueInv
  <2>2. \A j \in buffer : j.session = currentSessionId /\ j.seqNum > nextSeqNum
    BY <1>5
  <2> QED BY <1>2, <2>1, <2>2, RunNumbers
<1>7. run \subseteq buffer
  BY DEF RunAfter
<1> DEFINE tail == Sorted(run)
           seg  == <<i>> \o tail
<1>8. /\ tail \in Seq(Items) /\ \A n \in 1..Len(tail) : tail[n] \in run
      /\ AllPairsGood(tail, GoodPairs')
  <2> HIDE DEF run
  <2>1. /\ run \subseteq Items /\ tail \in Seq(run) /\ \A j, k \in run : j.session = k.session
        /\ \A m, n \in 1..Len(tail) : m < n => tail[m].seqNum < tail[n].seqNum
        /\ tail \in Seq(Items) /\ \A n \in 1..Len(tail) : tail[n] \in run
    BY <1>7, SortedBuffer
  <2>2. sessionOrder' \in [Sessions -> Nat]
    BY <1>1 DEF OrderInv, SessionsOrdered
  <2> HIDE DEF tail
  <2> QED BY <2>1, <2>2, AscendingIsGood
<1>9. last \in Nat /\ nextSeqNum' = last + 1 /\ nextSeqNum' \in Nat /\ nextSeqNum <= last
  <2> DEFINE c == Cardinality(run)
  <2>1. c \in Nat /\ nextSeqNum' = nextSeqNum + 1 + c
    BY <1>1, <1>6
  <2> HIDE DEF c
  <2>2. nextSeqNum + c \in Nat /\ nextSeqNum' = (nextSeqNum + c) + 1 /\ nextSeqNum' \in Nat
        /\ nextSeqNum <= nextSeqNum + c
    BY <1>2, <2>1
  <2> QED BY <2>2 DEF c
<1> HIDE DEF last, run, tail
<1>10. Passed \subseteq Passed' /\ \A j, k \in Items : Before(j, k)' <=> Before(j, k)
  BY <1>1, <1>2, <1>9, PassedStays DEF TakesRequest
<1>11. sessionOrder' \in [Sessions -> Nat] /\ late \subseteq late'
  BY <1>1 DEF OrderInv, SessionsOrdered, TakesRequest
<1>12. \A j \in run \cup {i} : /\ j \in Items /\ j.session = currentSessionId
                               /\ j.seqNum \in nextSeqNum .. last /\ j \notin requests'
                               /\ j.seqNum \in 1..inputSeqNum[currentSessionId]
  <2>1. \A j \in buffer : j \notin requests /\ j.seqNum \in 1..inputSeqNum[j.session]
    BY DEF OrderInv, InputInv
  <2>2. \A j \in run : j.seqNum \in nextSeqNum .. last
    BY <1>2, <1>6, <1>9
  <2> QED BY <1>2, <1>3, <1>4, <1>5, <1>7, <1>9, <2>1, <2>2 DEF TakesRequest
<1>13. \A j \in run \cup {i} : j \in Passed'
  <2>1. ASSUME NEW j \in run \cup {i} PROVE j \in Passed'
    <3>1. Precedes(j, currentSessionId, nextSeqNum)'
      BY <1>1, <1>2, <1>9, <1>12 DEF Precedes, OrderOf
    <3> QED BY <1>1, <1>2, <1>12, <3>1 DEF Passed, TakesRequest
  <2> QED BY <2>1
<1>14. \A j \in Passed, k \in run \cup {i} : <<j, k>> \in GoodPairs'
  <2>1. ASSUME NEW j \in Passed, NEW k \in run \cup {i} PROVE <<j, k>> \in GoodPairs'
    <3>1. j \in Items /\ j.seqNum \in Nat /\ Precedes(j, currentSessionId, nextSeqNum)
      BY ItemForm DEF Passed
    <3>2. Before(j, k)
      BY <1>2, <1>9, <1>12, <3>1 DEF Before, Precedes
    <3> QED BY <1>10, <1>11, <1>12, <3>1, <3>2, BeforeIsGood
  <2> QED BY <2>1
<1>15. \A k \in run : <<i, k>> \in GoodPairs'
  <2>1. ASSUME NEW k \in run PROVE <<i, k>> \in GoodPairs'
    <3>1. k \in Items /\ k.session = i.session /\ i.seqNum < k.seqNum
      BY <1>2, <1>4, <1>5, <1>7
    <3>2. Before(i, k)
      BY <3>1 DEF Before, Precedes
    <3> QED BY <1>3, <1>10, <1>11, <3>1, <3>2, BeforeIsGood
  <2> QED BY <2>1
<1>16. <<i>> \in Seq(Items) /\ Len(<<i>>) = 1 /\ <<i>>[1] = i
  BY <1>3
<1>17. seg \in Seq(Items) /\ outCh' = outCh \o seg
  BY <1>1, <1>8, <1>16, ConcatProperties, ConcatAssociative DEF OrderInv, tail
<1>18. AllPairsGood(seg, GoodPairs')
  <2>1. AllPairsGood(<<i>>, GoodPairs')
    BY <1>16 DEF AllPairsGood
  <2>2. \A m \in 1..Len(<<i>>), n \in 1..Len(tail) : <<(<<i>>)[m], tail[n]>> \in GoodPairs'
    BY <1>8, <1>15, <1>16
  <2> QED BY <1>8, <1>16, <2>1, <2>2, PairsOfConcat
<1>19. \A n \in 1..Len(seg) : seg[n] \in run \cup {i}
  <2>1. tail \in Seq(run \cup {i}) /\ <<i>> \in Seq(run \cup {i})
    <3>1. tail \in Seq(run)
      BY <1>7, SortedBuffer DEF tail
    <3> QED BY <3>1, SeqMonotonic
  <2>2. seg \in Seq(run \cup {i})
    BY <2>1, ConcatProperties
  <2> QED BY <2>2, ElementOfSeq
<1> HIDE DEF seg
<1>20. Out' = Out \o seg /\ outCh' \in Seq(Items) /\ pty' \in Seq(Items)
  BY <1>17, SegmentOut DEF TakesRequest
<1>21. (\A k \in 1..Len(Out') : Out'[k] \in Passed') /\ AllPairsGood(Out', GoodPairs')
  <2>1. \A j, k \in Passed : Before(j, k)' => Before(j, k)
    BY <1>10 DEF Passed
  <2>2. \A n \in 1..Len(seg) : seg[n] \in Passed'
    BY <1>13, <1>19
  <2>3. \A j \in Passed, n \in 1..Len(seg) : <<j, seg[n]>> \in GoodPairs'
    BY <1>14, <1>19
  <2> QED BY <1>10, <1>11, <1>17, <1>18, <1>20, <2>1, <2>2, <2>3, GoesOut
<1>22. \A j \in buffer' : j.session = currentSessionId' /\ j.seqNum >= nextSeqNum'
  <2>1. ASSUME NEW j \in buffer, j \notin run PROVE j.seqNum >= nextSeqNum'
    <3>1. j = [session |-> currentSessionId, seqNum |-> j.seqNum]
      BY <1>5, ItemForm
    <3>2. ~(j.seqNum \in nextSeqNum + 1 .. last)
      BY <1>6, <2>1, <3>1
    <3> QED BY <1>2, <1>5, <1>9, <3>2
  <2> QED BY <1>1, <1>5, <2>1
<1>23. SessionsOrdered'
  <2>1. nextSeqNum' <= inputSeqNum[currentSessionId] + 1
    <3>1. last <= inputSeqNum[currentSessionId] /\ inputSeqNum[currentSessionId] \in Nat
      <4>1. CASE last = nextSeqNum
        BY <1>2, <1>3, <1>4, <4>1
      <4>2. CASE last # nextSeqNum
        <5>1. last \in nextSeqNum + 1 .. last
          BY <1>2, <1>9, <4>2
        <5> DEFINE j == [session |-> currentSessionId, seqNum |-> last]
        <5>2. j \in run /\ j.seqNum = last
          BY <1>6, <5>1
        <5> HIDE DEF j
        <5> QED BY <1>2, <1>3, <1>12, <5>2
      <4> QED BY <4>1, <4>2
    <3> QED BY <1>9, <3>1
  <2> QED BY <1>1, <1>9, <2>1 DEF TakesRequest, OrderInv, SessionsOrdered, OrderOf
<1>24. OvertakenCounts'
  <2>1. ASSUME NEW j \in requests', j.session = currentSessionId, j.seqNum < nextSeqNum'
        PROVE  overtaken'[j] >= Timeout
    <3>1. j \in requests /\ j # i /\ j \in Items /\ j \notin buffer /\ j.seqNum \in Nat
      BY RequestForm DEF TakesRequest
    <3>2. j.seqNum # nextSeqNum
      BY <1>2, <1>3, <1>4, <2>1, <3>1, ItemForm
    <3>3. ~(j.seqNum \in nextSeqNum + 1 .. last)
      <4>1. j = [session |-> currentSessionId, seqNum |-> j.seqNum]
        BY <2>1, <3>1, ItemForm
      <4> QED BY <1>6, <1>7, <3>1, <4>1
    <3>4. j.seqNum < nextSeqNum
      BY <1>2, <1>9, <2>1, <3>1, <3>2, <3>3
    <3> QED BY <2>1, <3>1, <3>4 DEF TakesRequest, OrderInv, OvertakenCounts
  <2> QED BY <1>1, <2>1 DEF TakesRequest, OrderInv, OvertakenCounts
<1> QED BY <1>20, <1>21, <1>22, <1>23, <1>24 DEF OrderInv, Frontier

-----------------------------------------------------------------------------
(* The consumer, the callbacks and time *)

(* What the callback gives up waiting for: the numbers up to the last that goes
   out.  An item it leaves behind is after that. *)
LEMMA FlushedNumbers ==
    ASSUME OrderInv, onTimeout, Flushed # {}
    PROVE  /\ currentSessionId \in Sessions /\ sessionOrder[currentSessionId] \in Nat
           /\ nextSeqNum' \in Nat /\ nextSeqNum < nextSeqNum'
           /\ \A i \in Flushed : i.seqNum < nextSeqNum'
           /\ \A i \in buffer \ Flushed : i.seqNum >= nextSeqNum'
           /\ \E i \in Flushed : i.seqNum + 1 = nextSeqNum'
           /\ \A i \in requests : i.session = currentSessionId /\ i.seqNum < nextSeqNum' =>
                  \E j \in TimedOut : j.session = i.session /\ j.seqNum > i.seqNum
<1> DEFINE top == QMaxOf(NumbersPassed)
<1>1. Flushed \subseteq buffer /\ TimedOut \subseteq buffer
  BY DEF Flushed, TimedOut
<1>2. \A i \in buffer : /\ i \in Items /\ i.session = currentSessionId /\ i.session \in Sessions
                        /\ i.seqNum \in Nat /\ i.seqNum >= nextSeqNum
  BY ItemForm DEF OrderInv, QueueInv, Frontier, InputInv
<1>3. currentSessionId \in Sessions /\ sessionOrder[currentSessionId] \in Nat /\ nextSeqNum \in Nat
  BY <1>1, <1>2 DEF OrderInv, SessionsOrdered
<1>4. NumbersPassed = {i.seqNum : i \in Flushed}
  <2>1. {j \in Flushed : j.session = currentSessionId /\ j.seqNum >= nextSeqNum} = Flushed
    BY <1>1, <1>2
  <2> QED BY <2>1 DEF NumbersPassed
<1>5. IsFiniteSet(NumbersPassed)
  <2>1. [i \in Flushed |-> i.seqNum] \in Surjection(Flushed, NumbersPassed)
    BY <1>4 DEF Surjection
  <2>2. IsFiniteSet(Flushed)
    BY <1>1, FS_Subset DEF OrderInv, QueueInv
  <2> QED BY <2>1, <2>2, FS_Surjection
<1>6. NumbersPassed \subseteq Nat /\ NumbersPassed # {}
      /\ \A i \in Flushed : i.seqNum \in NumbersPassed
  BY <1>1, <1>2, <1>4
<1>7. top \in NumbersPassed /\ \A k \in NumbersPassed : k <= top
  BY <1>5, <1>6, MaxOfFinite
<1>8. PICK f \in Flushed : f.seqNum = top
  BY <1>4, <1>7
<1>9. nextSeqNum' = top + 1
  BY <1>6 DEF onTimeout
<1> HIDE DEF top
<1>10. top \in Nat /\ nextSeqNum <= top /\ \A i \in Flushed : i.seqNum <= top
  BY <1>1, <1>2, <1>6, <1>7, <1>8
<1>11. PICK t \in TimedOut : t.seqNum >= top
  <2>1. PICK t \in TimedOut : f = t \/ Before(f, t)
    BY DEF Flushed
  <2>2. f = t \/ f.seqNum < t.seqNum
    BY <1>1, <1>2, <2>1, SameSessionOrder DEF OrderInv, SessionsOrdered
  <2> QED BY <1>1, <1>2, <1>8, <1>10, <2>2
<1>12. ASSUME NEW i \in buffer, i \notin Flushed PROVE i.seqNum > top
  <2>1. i # t /\ ~Before(i, t)
    BY <1>12 DEF Flushed
  <2>2. i.seqNum # t.seqNum /\ ~(i.seqNum < t.seqNum)
    BY <1>1, <1>2, <2>1, SameSessionOrder DEF OrderInv, SessionsOrdered
  <2> QED BY <1>1, <1>2, <1>10, <1>11, <2>2
<1>13. ASSUME NEW i \in requests, i.session = currentSessionId, i.seqNum < nextSeqNum'
       PROVE  t.session = i.session /\ t.seqNum > i.seqNum
  <2>1. i \in Items /\ i.seqNum \in Nat /\ i \notin buffer
    BY RequestForm
  <2>2. i.seqNum # t.seqNum
    BY <1>1, <1>2, <1>13, <2>1, SameSessionOrder DEF OrderInv, SessionsOrdered
  <2> QED BY <1>1, <1>2, <1>9, <1>10, <1>11, <1>13, <2>1, <2>2
<1>14. \A i \in buffer \ Flushed : i.seqNum >= top + 1
  BY <1>2, <1>10, <1>12
<1>15. top + 1 \in Nat /\ nextSeqNum < top + 1 /\ \A i \in Flushed : i.seqNum < top + 1
  BY <1>1, <1>2, <1>3, <1>10
<1> QED BY <1>3, <1>8, <1>9, <1>13, <1>14, <1>15

LEMMA OnTimeoutOrder ==
    ASSUME OrderInv, onTimeout, UNCHANGED inputVars, QueueInv', InputInv'
    PROVE  OrderInv'
<1> DEFINE seg == Sorted(Flushed)
<1>1. /\ outCh' = outCh \o seg /\ buffer' = buffer \ Flushed
      /\ UNCHANGED <<sessionOrder, currentSessionId, age>>
      /\ UNCHANGED <<inputSeqNum, requests, pty, overtaken, late>>
  BY DEF onTimeout, inputVars
<1>2. Flushed \subseteq buffer
  BY DEF Flushed
<1>3. /\ seg \in Seq(Items) /\ \A n \in 1..Len(seg) : seg[n] \in Flushed
      /\ AllPairsGood(seg, GoodPairs')
  <2>1. /\ Flushed \subseteq Items /\ seg \in Seq(Flushed) /\ \A j, k \in Flushed : j.session = k.session
        /\ \A m, n \in 1..Len(seg) : m < n => seg[m].seqNum < seg[n].seqNum
        /\ seg \in Seq(Items) /\ \A n \in 1..Len(seg) : seg[n] \in Flushed
    BY <1>2, SortedBuffer
  <2>2. sessionOrder' \in [Sessions -> Nat]
    BY <1>1 DEF OrderInv, SessionsOrdered
  <2> HIDE DEF seg
  <2> QED BY <2>1, <2>2, AscendingIsGood
<1> HIDE DEF seg
<1>4. Out' = Out \o seg /\ outCh' \in Seq(Items) /\ pty' \in Seq(Items)
  BY <1>1, <1>3, SegmentOut
<1>5. nextSeqNum \in Nat /\ nextSeqNum' \in Nat /\ nextSeqNum <= nextSeqNum'
  <2>1. CASE Flushed = {}
    <3>1. NumbersPassed = {}
      BY <2>1 DEF NumbersPassed
    <3> QED BY <3>1 DEF onTimeout, OrderInv, SessionsOrdered
  <2>2. CASE Flushed # {}
    BY <2>2, FlushedNumbers DEF OrderInv, SessionsOrdered
  <2> QED BY <2>1, <2>2
<1>6. Passed \subseteq Passed' /\ \A j, k \in Items : Before(j, k)' <=> Before(j, k)
  BY <1>1, <1>5, PassedStays
<1>7. \A i \in Flushed : i \in Passed'
  <2>1. ASSUME NEW i \in Flushed PROVE i \in Passed'
    <3>1. /\ i \in Items /\ i.session = currentSessionId /\ i.session \in Sessions
          /\ i.seqNum \in 1..inputSeqNum[i.session] /\ i \notin requests
      BY <1>2 DEF OrderInv, QueueInv, Frontier, InputInv
    <3>2. sessionOrder[i.session] > 0
      BY <3>1 DEF OrderInv, SessionsOrdered
    <3>3. i.seqNum < nextSeqNum'
      BY FlushedNumbers
    <3>4. Precedes(i, currentSessionId, nextSeqNum)'
      BY <1>1, <3>1, <3>3 DEF Precedes, OrderOf
    <3> QED BY <1>1, <3>1, <3>2, <3>4 DEF Passed
  <2> QED BY <2>1
<1>8. \A j \in Passed, k \in Flushed : <<j, k>> \in GoodPairs'
  <2>1. ASSUME NEW j \in Passed, NEW k \in Flushed PROVE <<j, k>> \in GoodPairs'
    <3>1. j \in Items /\ k \in Items /\ Before(j, k)
      BY <1>2, PassedBeforeBuffer DEF Passed, OrderInv, QueueInv
    <3>2. sessionOrder' \in [Sessions -> Nat]
      BY <1>1 DEF OrderInv, SessionsOrdered
    <3> QED BY <1>6, <3>1, <3>2, BeforeIsGood
  <2> QED BY <2>1
<1>9. (\A k \in 1..Len(Out') : Out'[k] \in Passed') /\ AllPairsGood(Out', GoodPairs')
  <2>1. \A j, k \in Passed : Before(j, k)' => Before(j, k)
    BY <1>6 DEF Passed
  <2>2. \A n \in 1..Len(seg) : seg[n] \in Passed'
    BY <1>3, <1>7
  <2>3. \A j \in Passed, n \in 1..Len(seg) : <<j, seg[n]>> \in GoodPairs'
    BY <1>3, <1>8
  <2> QED BY <1>1, <1>3, <1>4, <1>6, <2>1, <2>2, <2>3, GoesOut
<1>10. CASE Flushed = {}
  <2>1. UNCHANGED <<nextSeqNum, buffer>>
    BY <1>1, <1>10 DEF onTimeout, NumbersPassed
  <2>2. SessionsOrdered' /\ OvertakenCounts'
    BY <1>1, <2>1 DEF OrderInv, SessionsOrdered, OvertakenCounts, OrderOf
  <2>3. \A j \in buffer' : j.session = currentSessionId' /\ j.seqNum >= nextSeqNum'
    BY <1>1, <2>1 DEF OrderInv, Frontier
  <2> QED BY <1>4, <1>9, <2>2, <2>3 DEF OrderInv, Frontier
<1>11. CASE Flushed # {}
  <2>1. \A j \in buffer' : j.session = currentSessionId' /\ j.seqNum >= nextSeqNum'
    BY <1>1, <1>11, FlushedNumbers DEF OrderInv, Frontier
  <2>2. nextSeqNum' <= inputSeqNum[currentSessionId] + 1
    <3>1. PICK i \in Flushed : i.seqNum + 1 = nextSeqNum'
      BY <1>11, FlushedNumbers
    <3>2. i.session = currentSessionId /\ i.seqNum \in 1..inputSeqNum[i.session]
          /\ inputSeqNum[i.session] \in Nat
      BY <1>2 DEF OrderInv, Frontier, InputInv
    <3> QED BY <3>1, <3>2
  <2>3. SessionsOrdered'
    BY <1>1, <1>5, <2>2 DEF OrderInv, SessionsOrdered, OrderOf
  <2>4. ASSUME NEW i \in requests, i.session = currentSessionId, i.seqNum < nextSeqNum'
        PROVE  overtaken[i] >= Timeout
    <3>1. PICK t \in TimedOut : t.session = i.session /\ t.seqNum > i.seqNum
      BY <1>11, <2>4, FlushedNumbers
    <3>2. /\ t \in buffer /\ age[t] >= Timeout /\ t \in Items /\ age[t] \in Nat
          /\ i \in Items /\ overtaken[i] \in Nat
      BY RequestForm DEF TimedOut, OrderInv, QueueInv, OvertakenCounts
    <3>3. overtaken[i] >= Timeout \/ overtaken[i] >= age[t]
      BY <3>1, <3>2 DEF OrderInv, OvertakenCounts
    <3> QED BY <3>2, <3>3, QueueAssumption
  <2>5. OvertakenCounts'
    BY <1>1, <2>4 DEF OrderInv, OvertakenCounts
  <2> QED BY <1>4, <1>9, <2>1, <2>3, <2>5 DEF OrderInv, Frontier
<1> QED BY <1>10, <1>11

LEMMA TimePassesOrder ==
    ASSUME OrderInv, TimePasses, QueueInv', InputInv'
    PROVE  OrderInv'
<1>1. /\ UNCHANGED <<sessionOrder, currentSessionId, nextSeqNum, buffer, outCh>>
      /\ UNCHANGED <<inputSeqNum, requests, pty, late>>
      /\ age' = [i \in Items |-> IF i \in buffer /\ age[i] <= Timeout THEN age[i] + 1 ELSE age[i]]
      /\ overtaken' = [i \in Items |-> IF i \in requests /\ Overtaken(i) /\ overtaken[i] < Timeout
                                       THEN overtaken[i] + 1 ELSE overtaken[i]]
  BY DEF TimePasses, Tick
<1>2. age \in [Items -> Nat] /\ overtaken \in [Items -> Nat] /\ requests \subseteq Items
      /\ buffer \subseteq Items /\ nextSeqNum \in Nat /\ Timeout \in Nat
  BY QueueAssumption DEF OrderInv, QueueInv, InputInv, OvertakenCounts, SessionsOrdered
<1>3. (\A k \in 1..Len(Out') : Out'[k] \in Passed') /\ AllPairsGood(Out', GoodPairs')
  <2>1. Out' = Out
    BY <1>1 DEF Out
  <2>2. Passed \subseteq Passed'
    BY <1>1, <1>2, PassedStays
  <2> QED BY <1>1, <2>1, <2>2, NothingGoesOut
<1>4. overtaken' \in [Items -> Nat]
  BY <1>1, <1>2
<1>5. \A i \in requests : overtaken[i] >= Timeout => overtaken'[i] >= Timeout
  BY <1>1, <1>2
<1>6. ASSUME NEW i \in requests, NEW j \in buffer, j.session = i.session, j.seqNum > i.seqNum
      PROVE  overtaken'[i] >= Timeout \/ overtaken'[i] >= age'[j]
  <2>1. overtaken[i] >= Timeout \/ overtaken[i] >= age[j]
    BY <1>6 DEF OrderInv, OvertakenCounts
  <2>2. Overtaken(i)
    BY <1>6 DEF Overtaken, Queued
  <2>3. overtaken'[i] = IF overtaken[i] < Timeout THEN overtaken[i] + 1 ELSE overtaken[i]
    BY <1>1, <1>2, <2>2
  <2>4. age'[j] = IF age[j] <= Timeout THEN age[j] + 1 ELSE age[j]
    BY <1>1, <1>2
  <2>5. overtaken[i] \in Nat /\ age[j] \in Nat
    BY <1>2
  <2> QED BY <1>2, <2>1, <2>3, <2>4, <2>5
<1>7. OvertakenCounts'
  <2>1. \A i \in requests : i.session = currentSessionId /\ i.seqNum < nextSeqNum => overtaken'[i] >= Timeout
    BY <1>5 DEF OrderInv, OvertakenCounts
  <2> QED BY <1>1, <1>4, <1>6, <2>1 DEF OvertakenCounts
<1>8. SessionsOrdered'
  BY <1>1 DEF OrderInv, SessionsOrdered, OrderOf
<1>9. (\A j \in buffer' : j.session = currentSessionId' /\ j.seqNum >= nextSeqNum')
      /\ outCh' \in Seq(Items) /\ pty' \in Seq(Items)
  BY <1>1 DEF OrderInv, Frontier
<1> QED BY <1>3, <1>7, <1>8, <1>9 DEF OrderInv, Frontier

(* Steps that neither queue nor send anything *)
LEMMA QuietOrder ==
    ASSUME OrderInv, UNCHANGED <<sessionOrder, currentSessionId, nextSeqNum, buffer, age>>,
           UNCHANGED <<inputSeqNum, overtaken, late>>, requests' \subseteq requests,
           outCh' \in Seq(Items), pty' \in Seq(Items), Out' = Out, QueueInv', InputInv'
    PROVE  OrderInv'
<1>1. nextSeqNum \in Nat
  BY DEF OrderInv, SessionsOrdered
<1>2. (\A k \in 1..Len(Out') : Out'[k] \in Passed') /\ AllPairsGood(Out', GoodPairs')
  BY <1>1, PassedStays, NothingGoesOut
<1>3. SessionsOrdered' /\ OvertakenCounts'
  BY DEF OrderInv, SessionsOrdered, OvertakenCounts, OrderOf
<1>4. \A j \in buffer' : j.session = currentSessionId' /\ j.seqNum >= nextSeqNum'
  BY DEF OrderInv, Frontier
<1> QED BY <1>2, <1>3, <1>4 DEF OrderInv, Frontier

(* What goes to the PTY is what came out of the queue first. *)
LEMMA ReceivedOrder ==
    ASSUME OrderInv, processInputQueue, QueueInv', InputInv'
    PROVE  OrderInv'
<1>1. /\ outCh # <<>> /\ outCh' = Tail(outCh) /\ pty' = Append(pty, Head(outCh))
      /\ UNCHANGED <<sessionOrder, currentSessionId, nextSeqNum, buffer, age>>
      /\ UNCHANGED <<inputSeqNum, requests, overtaken, late>>
  BY DEF processInputQueue, Receive
<1>2. pty \in Seq(Items) /\ outCh \in Seq(Items)
  BY DEF OrderInv
<1>3. Head(outCh) \in Items /\ Tail(outCh) \in Seq(Items) /\ outCh = <<Head(outCh)>> \o Tail(outCh)
  BY <1>1, <1>2, HeadTailProperties
<1> DEFINE h == <<Head(outCh)>>
           t == Tail(outCh)
<1>4. h \in Seq(Items) /\ pty' = pty \o h /\ outCh' = t /\ t \in Seq(Items) /\ outCh = h \o t
  BY <1>1, <1>2, <1>3, AppendIsConcat
<1> HIDE DEF h, t
<1>5. pty' \in Seq(Items) /\ (pty \o h) \o t = pty \o (h \o t)
  BY <1>2, <1>4, ConcatProperties, ConcatAssociative
<1>6. Out' = Out
  BY <1>4, <1>5 DEF Out
<1> QED BY <1>1, <1>4, <1>5, <1>6, QuietOrder

(* A new input has a number beyond all that are under way, queued or waited for. *)
LEMMA SendInputOrder ==
    ASSUME OrderInv, SendInput, QueueInv', InputInv'
    PROVE  OrderInv'
<1> DEFINE n == inputSeqNum[controller] + 1
           i == [session |-> controller, seqNum |-> n]
<1>1. /\ controller \in Sessions /\ inputSeqNum[controller] \in Nat
      /\ UNCHANGED <<sessionOrder, currentSessionId, nextSeqNum, buffer, age, outCh>>
      /\ UNCHANGED <<overtaken, pty, late>>
      /\ inputSeqNum' = [inputSeqNum EXCEPT ![controller] = n]
  BY DEF SendInput, OrderInv, InputInv
<1>2. inputSeqNum \in [Sessions -> Nat] /\ inputSeqNum' \in [Sessions -> Nat] /\ inputSeqNum'[controller] = n
  BY <1>1 DEF OrderInv, InputInv
<1>3. \A s \in Sessions : inputSeqNum[s] \in Nat /\ inputSeqNum'[s] \in Nat /\ inputSeqNum[s] <= inputSeqNum'[s]
  BY <1>1, <1>2
<1>4. requests' \subseteq requests \cup {i}
  BY <1>2 DEF SendInput
<1>5. i.session = controller /\ i.seqNum = n /\ n \in Nat /\ inputSeqNum[controller] < n
  BY <1>1
<1> HIDE DEF i, n
<1>6. ASSUME NEW j \in Passed PROVE j \in Passed'
  <2>1. j \in Items /\ j.session \in Sessions /\ j.seqNum \in 1..inputSeqNum[j.session] /\ j \notin requests
    BY DEF Passed
  <2>2. j # i
    BY <1>1, <1>5, <2>1
  <2>3. j.seqNum \in 1..inputSeqNum'[j.session]
    BY <1>3, <2>1
  <2>4. Precedes(j, currentSessionId, nextSeqNum)'
    BY <1>1 DEF Passed, Precedes, OrderOf
  <2> QED BY <1>1, <1>4, <2>1, <2>2, <2>3, <2>4 DEF Passed
<1>7. (\A k \in 1..Len(Out') : Out'[k] \in Passed') /\ AllPairsGood(Out', GoodPairs')
  <2>1. Out' = Out
    BY <1>1 DEF Out
  <2> QED BY <1>1, <1>6, <2>1, NothingGoesOut
<1>8. SessionsOrdered'
  <2>1. ASSUME currentSessionId \in Sessions
        PROVE  nextSeqNum <= inputSeqNum'[currentSessionId] + 1
    <3>1. nextSeqNum \in Nat /\ nextSeqNum <= inputSeqNum[currentSessionId] + 1
      BY <2>1 DEF OrderInv, SessionsOrdered
    <3> QED BY <1>3, <2>1, <3>1
  <2> QED BY <1>1, <2>1 DEF OrderInv, SessionsOrdered, OrderOf
<1>9. ~(i.session = currentSessionId /\ i.seqNum < nextSeqNum)
  <2>1. nextSeqNum \in Nat /\ (controller = currentSessionId => nextSeqNum <= inputSeqNum[controller] + 1)
    BY <1>1 DEF OrderInv, SessionsOrdered
  <2> QED BY <1>1, <1>5, <2>1 DEF n
<1>10. \A j \in buffer : ~(j.session = i.session /\ j.seqNum > i.seqNum)
  <2>1. \A j \in buffer : j.session \in Sessions /\ j.seqNum \in 1..inputSeqNum[j.session]
    BY DEF OrderInv, InputInv
  <2> QED BY <1>1, <1>5, <2>1
<1>11. OvertakenCounts'
  BY <1>1, <1>4, <1>9, <1>10 DEF OrderInv, OvertakenCounts
<1>12. (\A j \in buffer' : j.session = currentSessionId' /\ j.seqNum >= nextSeqNum')
       /\ outCh' \in Seq(Items) /\ pty' \in Seq(Items)
  BY <1>1 DEF OrderInv, Frontier
<1> QED BY <1>7, <1>8, <1>11, <1>12 DEF OrderInv, Frontier

-----------------------------------------------------------------------------
(* The job's input as a whole *)

LEMMA JobInputCommandOrder ==
    ASSUME OrderInv, NEW i \in requests, JobInputCommand(i), QueueInv', InputInv'
    PROVE  OrderInv'
<1>1. /\ requests' = requests \ {i} /\ UNCHANGED <<inputSeqNum, overtaken, pty>>
  BY DEF JobInputCommand
<1>2. CASE ~(jobStarted /\ HasRoom)
  <2>1. UNCHANGED queueVars /\ UNCHANGED late
    BY <1>2 DEF JobInputCommand
  <2>2. outCh' \in Seq(Items) /\ pty' \in Seq(Items) /\ Out' = Out
    BY <1>1, <2>1 DEF OrderInv, Out
  <2> QED BY <1>1, <2>1, <2>2, QuietOrder
<1>3. CASE jobStarted /\ HasRoom
  <2>1. QueueItem(i) /\ TakesRequest(i)
    BY <1>1, <1>3 DEF JobInputCommand, TakesRequest
  <2>2. CASE IsNew(i)
    BY <2>1, <2>2, StartsSessionOrder DEF QueueItem
  <2>3. CASE ~IsNew(i)
    BY <2>1, <2>3, PassesThroughOrder, ArrivesInOrderOrder, ArrivesEarlyOrder DEF QueueItem
  <2> QED BY <2>2, <2>3
<1> QED BY <1>2, <1>3

LEMMA OrderStep ==
    ASSUME OrderInv, [JINext]_jiVars
    PROVE  OrderInv'
<1>1. InputInv' /\ [QueueNext]_queueVars
  BY InputStep DEF OrderInv
<1>2. QueueInv'
  BY <1>1, QueueStep DEF OrderInv
<1>3. ASSUME UNCHANGED queueVars, UNCHANGED <<inputSeqNum, pty, overtaken, late>>,
             requests' \subseteq requests
      PROVE  OrderInv'
  <2>1. outCh' \in Seq(Items) /\ pty' \in Seq(Items) /\ Out' = Out
    BY <1>3 DEF OrderInv, Out
  <2> QED BY <1>1, <1>2, <1>3, <2>1, QuietOrder
<1>4. ASSUME NEW s \in Sessions, NewController(s) PROVE OrderInv'
  BY <1>3, <1>4 DEF NewController
<1>5. CASE SendInput
  BY <1>1, <1>2, <1>5, SendInputOrder
<1>6. CASE StartJob
  BY <1>3, <1>6 DEF StartJob
<1>7. CASE processInputQueue
  BY <1>1, <1>2, <1>7, ReceivedOrder
<1>8. CASE TimePasses
  BY <1>1, <1>2, <1>8, TimePassesOrder
<1>9. CASE CallbackRuns
  BY <1>1, <1>2, <1>9, OnTimeoutOrder DEF CallbackRuns, TimerFires, StrayFires
<1>10. ASSUME NEW i \in requests, RequestLost(i) PROVE OrderInv'
  BY <1>3, <1>10 DEF RequestLost
<1>11. ASSUME NEW i \in requests, JobInputCommand(i) PROVE OrderInv'
  BY <1>1, <1>2, <1>11, JobInputCommandOrder
<1>12. CASE UNCHANGED jiVars
  BY <1>3, <1>12 DEF jiVars, inputVars
<1> QED BY <1>4, <1>5, <1>6, <1>7, <1>8, <1>9, <1>10, <1>11, <1>12 DEF JINext

LEMMA OrderInit == JIInit => OrderInv
<1> SUFFICES ASSUME JIInit PROVE OrderInv
  OBVIOUS
<1>1. QueueInv /\ InputInv
  BY QueueInit, InputInit DEF JIInit
<1>2. pty = <<>> /\ outCh = <<>> /\ buffer = {} /\ requests = {}
  BY DEF JIInit, MakeQuickReorderQueue
<1>3. pty \in Seq(Items) /\ outCh \in Seq(Items) /\ Out = <<>> /\ \A k \in 1..Len(Out) : FALSE
  BY <1>2, ConcatEmptySeq DEF Out
<1>4. SessionsOrdered /\ OvertakenCounts
  BY <1>2, QueueAssumption DEF JIInit, MakeQuickReorderQueue, SessionsOrdered, OvertakenCounts, OrderOf
<1>5. Frontier /\ AllPairsGood(Out, GoodPairs)
  BY <1>2, <1>3 DEF Frontier, AllPairsGood
<1> QED BY <1>1, <1>3, <1>4, <1>5 DEF OrderInv

(* What the PTY is given: each input once, sessions in the order they came in,
   and the inputs of a session in the order they were typed, except one that
   was queued a timeout later than an input after it, or after its session was
   over. *)
THEOREM InputInOrder == JISpec => []InOrderUnlessLate
<1>1. JIInit => OrderInv
  BY OrderInit
<1>2. OrderInv /\ [JINext]_jiVars => OrderInv'
  BY OrderStep
<1>3. OrderInv => InOrderUnlessLate
  BY OrderInvImplies
<1> QED BY <1>1, <1>2, <1>3, PTL DEF JISpec
=============================================================================
