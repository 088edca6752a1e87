---------------------------- MODULE ReorderQueue ----------------------------
(***************************************************************************)
(* QuickReorderQueue (pkg/utilds/quickreorderqueue.go): puts items that    *)
(* arrive out of order back in order, waiting at most `timeout' for one    *)
(* that is missing.  An item is numbered within its session, and sessions  *)
(* are ordered by when they were first seen.                               *)
(*                                                                         *)
(* Time passes in ticks.  A callback of time.AfterFunc runs when its time  *)
(* has come, before time passes on, but after any other operation of that  *)
(* instant: it waits for the lock like everybody, and Stop comes too late  *)
(* for one that has started.  Close and SetNextSeqNum are left out: only   *)
(* tests call them.                                                        *)
(***************************************************************************)
EXTENDS Integers, Sequences, FiniteSets

CONSTANTS
    Items,        (* records with a session and a seqNum        *)
    Sessions,
    NoSession,    (* "": the item bypasses the queue            *)
    BufSize,      (* capacity of the output channel             *)
    Timeout       (* in ticks                                   *)

(* Two items of a session have different numbers, 0 (no number) aside. *)
ASSUME QueueAssumption ==
    /\ IsFiniteSet(Sessions) /\ NoSession \notin Sessions
    /\ Items \subseteq [session : Sessions \cup {NoSession}, seqNum : Nat]
    /\ BufSize \in Nat /\ Timeout \in Nat \ {0}

VARIABLES
    sessionOrder,     (* when a session was first seen: 1, 2, ..., 0 for not yet *)
    currentSessionId, nextSeqNum,
    buffer,           (* a set of items: it is sorted whenever it is used        *)
    age,              (* ticks an item has been in the buffer, at most Timeout + 1 *)
    outCh,
    timer,            (* ticks left of q.timer, or NoTimer                       *)
    strays            (* callbacks q.timer no longer refers to: how many, by
                         the ticks they have left                                *)

queueVars == <<sessionOrder, currentSessionId, nextSeqNum, buffer, age, outCh,
               timer, strays>>

NoTimer == -1

QMaxOf(S) == CHOOSE n \in S : \A k \in S : k <= n

MakeQuickReorderQueue ==
    /\ sessionOrder = [s \in Sessions |-> 0]
    /\ currentSessionId = NoSession /\ nextSeqNum = 1
    /\ buffer = {} /\ age = [i \in Items |-> 0]
    /\ outCh = <<>>
    /\ timer = NoTimer /\ strays = [left \in 0..Timeout |-> 0]

-----------------------------------------------------------------------------
(* Order of items *)

OrderOf(s) == IF s \in Sessions THEN sessionOrder[s] ELSE 0

(* cmpSessionSeq_withlock < 0, and = 0, for an item and a place (s, n) *)
Precedes(i, s, n) ==
    \/ OrderOf(i.session) < OrderOf(s)
    \/ OrderOf(i.session) = OrderOf(s) /\ i.seqNum < n

IsAt(i, s, n) == OrderOf(i.session) = OrderOf(s) /\ i.seqNum = n

Before(i, j) == Precedes(i, j.session, j.seqNum)

(* sortBuffer_withlock: in place k, the item with k - 1 items before it *)
Sorted(S) ==
    [k \in 1..Cardinality(S) |->
        CHOOSE i \in S : Cardinality({j \in S : Before(j, i)}) = k - 1]

-----------------------------------------------------------------------------
(* The timer *)

(* timer.Stop(); q.timer = nil: a callback that is due may have started. *)
StopTimer ==
    /\ timer' = NoTimer
    /\ \/ UNCHANGED strays
       \/ timer = 0 /\ strays' = [strays EXCEPT ![0] = @ + 1]

ensureTimer == timer' = (IF timer = NoTimer THEN Timeout ELSE timer) /\ UNCHANGED strays

-----------------------------------------------------------------------------
(* QueueItem *)

(* Mutation of HasRoom: what waits in the buffer is not counted. *)
HasRoomInChannel == Len(outCh) < BufSize

HasRoom == Cardinality(buffer) + Len(outCh) < BufSize

IsNew(i) == i.session \in Sessions /\ sessionOrder[i.session] = 0

(* ensureSessionTs_withlock flushes the buffer, and then nothing waits: the
   first item goes out if it is number 1 or has no number. *)
StartsSession(i) ==
    /\ sessionOrder' = [sessionOrder EXCEPT
            ![i.session] = 1 + QMaxOf({0} \cup {sessionOrder[s] : s \in Sessions})]
    /\ currentSessionId' = i.session
    /\ age' = [age EXCEPT ![i] = 0]
    /\ nextSeqNum' = IF i.seqNum = 1 THEN 2 ELSE 1
    /\ IF i.seqNum <= 1
       THEN /\ outCh' = outCh \o Sorted(buffer) \o <<i>> /\ buffer' = {}
            /\ IF buffer # {} THEN StopTimer ELSE UNCHANGED <<timer, strays>>
       ELSE /\ outCh' = outCh \o Sorted(buffer) /\ buffer' = {i}
            /\ IF buffer = {} THEN ensureTimer
               ELSE \/ timer' = Timeout /\ UNCHANGED strays
                    \/ /\ timer = 0 /\ timer' = Timeout
                       /\ strays' = [strays EXCEPT ![0] = @ + 1]

Bypasses(i) ==
    i.seqNum = 0 \/ i.session = NoSession \/ Precedes(i, currentSessionId, nextSeqNum)

(* Too late to be put in order, or not to be ordered *)
PassesThrough(i) ==
    /\ Bypasses(i)
    /\ outCh' = Append(outCh, i)
    /\ UNCHANGED <<sessionOrder, currentSessionId, nextSeqNum, buffer, age, timer, strays>>

(* What follows on number n without a gap, at the front of the sorted buffer *)
RunAfter(n) ==
    {i \in buffer :
        /\ i.session = currentSessionId /\ i.seqNum > n
        /\ \A m \in n + 1 .. i.seqNum : [session |-> currentSessionId, seqNum |-> m] \in buffer
        /\ \A j \in buffer : ~Precedes(j, currentSessionId, n + 1)}

(* The item that is waited for: processBuffer_withlock lets those behind it go. *)
ArrivesInOrder(i) ==
    /\ ~Bypasses(i) /\ IsAt(i, currentSessionId, nextSeqNum)
    /\ LET run == RunAfter(nextSeqNum)
       IN  /\ outCh' = outCh \o <<i>> \o Sorted(run)
           /\ nextSeqNum' = nextSeqNum + 1 + Cardinality(run)
           /\ buffer' = buffer \ run
    /\ UNCHANGED <<sessionOrder, currentSessionId, age, timer, strays>>

ArrivesEarly(i) ==
    /\ ~Bypasses(i) /\ ~IsAt(i, currentSessionId, nextSeqNum)
    /\ buffer' = buffer \cup {i} /\ age' = [age EXCEPT ![i] = 0]
    /\ ensureTimer
    /\ UNCHANGED <<sessionOrder, currentSessionId, nextSeqNum, outCh>>

QueueItem(i) ==
    /\ HasRoom
    /\ IF IsNew(i) THEN StartsSession(i)
       ELSE PassesThrough(i) \/ ArrivesInOrder(i) \/ ArrivesEarly(i)

-----------------------------------------------------------------------------
(* The consumer, the callbacks and time *)

Receive == outCh # <<>> /\ outCh' = Tail(outCh)
           /\ UNCHANGED <<sessionOrder, currentSessionId, nextSeqNum, buffer, age, timer, strays>>

(* Mutation of TimedOut: an item that has waited one tick less is given up on. *)
TimedOutEarly == {i \in buffer : age[i] >= Timeout - 1}

TimedOut == {i \in buffer : age[i] >= Timeout}

(* What goes out with the items that timed out: all that is sorted before one *)
Flushed == {i \in buffer : \E j \in TimedOut : i = j \/ Before(i, j)}

NumbersPassed == {i.seqNum : i \in {j \in Flushed : j.session = currentSessionId
                                                    /\ j.seqNum >= nextSeqNum}}

(* Mutation of Rearmed: the timer is not set again. *)
RearmedNever(waiting) == NoTimer
(* Mutation of Rearmed: what an item has waited already is not counted. *)
RearmedInFull(waiting) == IF waiting = {} THEN NoTimer ELSE Timeout

(* When the callback runs next: Timeout after the oldest item came *)
Rearmed(waiting) == IF waiting = {} THEN NoTimer ELSE Timeout - QMaxOf({age[i] : i \in waiting})

onTimeout ==
    /\ outCh' = outCh \o Sorted(Flushed)
    /\ nextSeqNum' = IF NumbersPassed = {} THEN nextSeqNum ELSE QMaxOf(NumbersPassed) + 1
    /\ buffer' = buffer \ Flushed
    /\ timer' = Rearmed(buffer \ Flushed)
    /\ UNCHANGED <<sessionOrder, currentSessionId, age>>

(* The callback q.timer refers to *)
TimerFires == timer = 0 /\ onTimeout /\ UNCHANGED strays

(* A callback that was to be stopped: it makes q.timer nil all the same, and
   the callback q.timer referred to becomes a stray. *)
StrayFires ==
    /\ strays[0] > 0
    /\ onTimeout
    /\ strays' = [left \in 0..Timeout |-> strays[left] - (IF left = 0 THEN 1 ELSE 0)
                                                       + (IF left = timer THEN 1 ELSE 0)]

Tick ==
    /\ timer # 0 /\ strays[0] = 0
    /\ timer' = IF timer = NoTimer THEN NoTimer ELSE timer - 1
    /\ strays' = [left \in 0..Timeout |-> IF left = Timeout THEN 0 ELSE strays[left + 1]]
    /\ age' = [i \in Items |-> IF i \in buffer /\ age[i] <= Timeout THEN age[i] + 1 ELSE age[i]]
    /\ UNCHANGED <<sessionOrder, currentSessionId, nextSeqNum, buffer, outCh>>

(* An item is not queued again while it waits. *)
QueueNext == \/ \E i \in Items \ buffer : QueueItem(i)
             \/ Receive \/ TimerFires \/ StrayFires \/ Tick

QueueSpec == MakeQuickReorderQueue /\ [][QueueNext]_queueVars

-----------------------------------------------------------------------------
(* Properties *)

(* The output channel has room for all that waits, so that no send blocks while
   the lock is held. *)
NeverBlocks == Cardinality(buffer) + Len(outCh) <= BufSize

(* No item waits longer than the timeout, whatever timers were stopped, left
   behind or overtaken by a callback that had already started. *)
BoundedWait == \A i \in buffer : age[i] <= Timeout
=============================================================================
