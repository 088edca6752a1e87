--------------------------- MODULE FileStoreProof ---------------------------
(***************************************************************************)
(* Proofs about the file store, for any number of files, clients and       *)
(* flushers, any sizes, and wherever crashes happen: its pins are exact    *)
(* (PinInv is inductive), and it implements AtomicFiles, as the values     *)
(* that are read of a file, cached, loaded or saved, always are those of   *)
(* whole operations (ContentInv, and a lemma for each operation).          *)
(***************************************************************************)
EXTENDS FileStore, FiniteSetTheorems, TLAPS

USE DEF fsVars, pinVars

(* Who has entry e, when the goroutines are as `th' says *)
Holders(th, e) == {t \in Threads : th[t].entry = e}

PinTypeOK ==
    /\ Cache \in [Names -> EntryIds \cup {NoEntry}]
    /\ PinCount \in [EntryIds -> Nat]
    /\ entries = [e \in EntryIds |-> entries[e]]
    /\ thread \in [Threads -> [step : {"idle", "loop", "pinned", "done"},
                               name : Names \cup {NoFile}, entry : EntryIds \cup {NoEntry}]]

(* A goroutine has an entry, and a name, exactly from pinning to unpinning. *)
EntryWhilePinned ==
    \A t \in Threads :
        /\ thread[t].entry # NoEntry <=> thread[t].step \in {"pinned", "done"}
        /\ thread[t].entry # NoEntry => thread[t].name \in Names

OneNamePerEntry ==
    \A m, n \in Names : Cache[m] = Cache[n] /\ Cache[n] # NoEntry => m = n

HoldersAreRight ==
    \A t \in Threads : thread[t].entry # NoEntry => Cache[thread[t].name] = thread[t].entry

CountIsRight ==
    \A n \in Names : Cache[n] # NoEntry =>
        /\ PinCount[Cache[n]] = Cardinality(Holders(thread, Cache[n]))
        /\ PinCount[Cache[n]] = 0 => entries[Cache[n]].File # NoFile

PinInv == PinTypeOK /\ EntryWhilePinned /\ OneNamePerEntry /\ HoldersAreRight /\ CountIsRight

LEMMA PinInvImplies == PinInv => PinnedIsCached
BY DEF PinInv, HoldersAreRight, CountIsRight, PinnedIsCached, Holders

LEMMA HoldersFinite ==
    ASSUME NEW th, NEW e
    PROVE  IsFiniteSet(Holders(th, e)) /\ Cardinality(Holders(th, e)) \in Nat
<1>1. Holders(th, e) \subseteq Threads
  BY DEF Holders
<1> QED BY <1>1, FileStoreAssumption, FS_Subset, FS_CardinalityType

LEMMA IdleRecord ==
    /\ Idle = [step |-> "idle", name |-> NoFile, entry |-> NoEntry]
    /\ Flushing = [step |-> "loop", name |-> NoFile, entry |-> NoEntry]
BY DEF Idle, Flushing

LEMMA PinInit == FSInit => PinInv
<1> SUFFICES ASSUME FSInit PROVE PinInv
  OBVIOUS
<1>1. PinTypeOK
  BY IdleRecord DEF FSInit, PinTypeOK
<1>2. EntryWhilePinned /\ HoldersAreRight
  BY IdleRecord DEF FSInit, EntryWhilePinned, HoldersAreRight
<1>3. OneNamePerEntry /\ CountIsRight
  BY DEF FSInit, OneNamePerEntry, CountIsRight
<1> QED BY <1>1, <1>2, <1>3 DEF PinInv

(* An operation under the lock, whatever it makes of the entry *)
LEMMA LeavesKeeps ==
    ASSUME PinInv, NEW t \in Threads, thread[t].step = "pinned", NEW entry, Leaves(t, entry)
    PROVE  PinInv'
<1> DEFINE e == thread[t].entry
<1>1. /\ entries' = [entries EXCEPT ![e] = entry]
      /\ thread' = [thread EXCEPT ![t].step = "done"]
      /\ UNCHANGED <<Cache, PinCount>>
  BY DEF Leaves
<1>2. e # NoEntry /\ thread[t].name \in Names /\ Cache[thread[t].name] = e
  BY DEF PinInv, EntryWhilePinned, HoldersAreRight
<1>3. PinTypeOK'
  BY <1>1 DEF PinInv, PinTypeOK
<1>4. \A u \in Threads : /\ thread'[u].entry = thread[u].entry /\ thread'[u].name = thread[u].name
                         /\ u # t => thread'[u].step = thread[u].step
  BY <1>1 DEF PinInv, PinTypeOK
<1>5. thread'[t].step = "done"
  BY <1>1 DEF PinInv, PinTypeOK
<1>6. EntryWhilePinned' /\ HoldersAreRight' /\ OneNamePerEntry'
  BY <1>1, <1>4, <1>5 DEF PinInv, EntryWhilePinned, HoldersAreRight, OneNamePerEntry
<1>7. PinCount[e] # 0
  <2>1. t \in Holders(thread, e) /\ PinCount[e] = Cardinality(Holders(thread, e))
    BY <1>2 DEF Holders, PinInv, CountIsRight
  <2> HIDE DEF e
  <2> QED BY <2>1, HoldersFinite, FS_EmptySet
<1>8. ASSUME NEW n \in Names, Cache'[n] # NoEntry
      PROVE  /\ PinCount'[Cache'[n]] = Cardinality(Holders(thread', Cache[n]))
             /\ PinCount'[Cache'[n]] = 0 => entries'[Cache'[n]].File # NoFile
  <2>1. /\ PinCount[Cache[n]] = Cardinality(Holders(thread, Cache[n]))
        /\ PinCount[Cache[n]] = 0 => entries[Cache[n]].File # NoFile
    BY <1>1, <1>8 DEF PinInv, CountIsRight
  <2>2. Holders(thread', Cache[n]) = Holders(thread, Cache[n])
    BY <1>1, <1>4 DEF Holders
  <2>3. Cache[n] # e => entries'[Cache[n]] = entries[Cache[n]]
    BY <1>1, <1>8 DEF PinInv, PinTypeOK
  <2> QED BY <1>1, <1>7, <2>1, <2>2, <2>3
<1>9. CountIsRight'
  BY <1>1, <1>8 DEF CountIsRight
<1> QED BY <1>3, <1>6, <1>9 DEF PinInv

(* A step that leaves the cache alone, of a goroutine without an entry *)
LEMMA NoEntryKeeps ==
    ASSUME PinInv, UNCHANGED <<pinVars, entries>>,
           NEW t \in Threads, thread[t].step \in {"idle", "loop"},
           thread' = [thread EXCEPT ![t] = Idle] \/ thread' = [thread EXCEPT ![t] = Flushing]
    PROVE  PinInv'
<1>1. thread[t].entry = NoEntry
  BY DEF PinInv, EntryWhilePinned
<1>2. /\ thread'[t].entry = NoEntry /\ thread'[t].step \in {"idle", "loop"}
      /\ \A u \in Threads : u # t => thread'[u] = thread[u]
  BY IdleRecord DEF PinInv, PinTypeOK
<1>3. PinTypeOK'
  BY IdleRecord DEF PinInv, PinTypeOK
<1>4. \A e : Holders(thread', e) = Holders(thread, e)
  BY <1>1, <1>2 DEF Holders
<1>5. EntryWhilePinned' /\ HoldersAreRight'
  BY <1>2 DEF PinInv, EntryWhilePinned, HoldersAreRight
<1>6. CountIsRight' /\ OneNamePerEntry'
  BY <1>4 DEF PinInv, CountIsRight, OneNamePerEntry
<1> QED BY <1>3, <1>5, <1>6 DEF PinInv

LEMMA PinKeeps ==
    ASSUME PinInv, NEW t \in Threads, NEW n \in Names,
           thread[t].step \in {"idle", "loop"}, getEntryAndPin(t, n),
           NEW e, e = Cache'[n]
    PROVE  PinInv'
<1>1. thread[t].entry = NoEntry
  BY DEF PinInv, EntryWhilePinned
<1>2. /\ e \in EntryIds /\ e # NoEntry
      /\ Cache' = [Cache EXCEPT ![n] = e]
      /\ \A m \in Names : m # n => Cache[m] # e
  <2>1. CASE Cache[n] # NoEntry
    <3>1. Cache' = Cache /\ e = Cache[n]
      BY <2>1 DEF getEntryAndPin
    <3>2. Cache' = [Cache EXCEPT ![n] = e]
      BY <3>1 DEF PinInv, PinTypeOK
    <3>3. \A m \in Names : m # n => Cache[m] # e
      BY <2>1, <3>1 DEF PinInv, OneNamePerEntry
    <3> QED BY <2>1, <3>1, <3>2, <3>3 DEF PinInv, PinTypeOK
  <2>2. CASE Cache[n] = NoEntry
    <3>1. PICK x \in Unused : Cache' = [Cache EXCEPT ![n] = x]
      BY <2>2 DEF getEntryAndPin
    <3>2. e = x
      BY <3>1 DEF PinInv, PinTypeOK
    <3> QED BY <3>1, <3>2, FileStoreAssumption DEF Unused
  <2> QED BY <2>1, <2>2
<1>3. thread' = [thread EXCEPT ![t] = [step |-> "pinned", name |-> n, entry |-> e]]
  BY DEF getEntryAndPin
<1>4. /\ thread'[t].step = "pinned" /\ thread'[t].name = n /\ thread'[t].entry = e
      /\ \A u \in Threads : u # t => thread'[u] = thread[u]
  BY <1>3 DEF PinInv, PinTypeOK
<1>5. \A x : x # e => Holders(thread', x) = Holders(thread, x) \ {t}
  BY <1>4 DEF Holders
<1>6. Holders(thread', e) = Holders(thread, e) \cup {t}
  BY <1>4 DEF Holders
<1>7. /\ PinCount' \in [EntryIds -> Nat] /\ entries' = [x \in EntryIds |-> entries'[x]]
      /\ PinCount'[e] = Cardinality(Holders(thread, e)) + 1
      /\ \A x \in EntryIds : x # e => PinCount'[x] = PinCount[x] /\ entries'[x] = entries[x]
  <2>1. CASE Cache[n] # NoEntry
    <3>1. e = Cache[n] /\ PinCount' = [PinCount EXCEPT ![e] = @ + 1] /\ entries' = entries
      BY <2>1 DEF getEntryAndPin
    <3>2. PinCount[e] = Cardinality(Holders(thread, e))
      BY <2>1, <3>1 DEF PinInv, CountIsRight
    <3> QED BY <1>2, <3>1, <3>2 DEF PinInv, PinTypeOK
  <2>2. CASE Cache[n] = NoEntry
    <3>1. PICK fresh \in Unused : /\ Cache' = [Cache EXCEPT ![n] = fresh]
                                  /\ entries' = [entries EXCEPT ![fresh] = emptyEntry]
                                  /\ PinCount' = [PinCount EXCEPT ![fresh] = 1]
      BY <2>2 DEF getEntryAndPin
    <3>2. e = fresh
      BY <3>1 DEF PinInv, PinTypeOK
    <3>3. Holders(thread, e) = {}
      BY <3>2 DEF Unused, Holders
    <3>4. Cardinality(Holders(thread, e)) = 0
      BY <3>3, FS_EmptySet
    <3>5. PinCount'[e] = 1 /\ PinCount' \in [EntryIds -> Nat]
      BY <1>2, <3>1, <3>2 DEF PinInv, PinTypeOK
    <3>6. entries' = [x \in EntryIds |-> entries'[x]]
      BY <3>1, <3>2 DEF PinInv, PinTypeOK
    <3>7. \A y \in EntryIds : y # e => PinCount'[y] = PinCount[y] /\ entries'[y] = entries[y]
      BY <3>1, <3>2 DEF PinInv, PinTypeOK
    <3> QED BY <3>4, <3>5, <3>6, <3>7
  <2> QED BY <2>1, <2>2
<1>8. /\ Cache'[n] = e /\ Cache' \in [Names -> EntryIds \cup {NoEntry}]
      /\ \A m \in Names : m # n => Cache'[m] = Cache[m]
  BY <1>2 DEF PinInv, PinTypeOK
<1>9. PinTypeOK'
  BY <1>2, <1>3, <1>7, <1>8 DEF PinInv, PinTypeOK
<1>10. OneNamePerEntry'
  BY <1>2, <1>8 DEF PinInv, OneNamePerEntry
<1>11. EntryWhilePinned'
  BY <1>2, <1>4 DEF PinInv, EntryWhilePinned
<1>12. HoldersAreRight'
  <2> SUFFICES ASSUME NEW u \in Threads, u # t, thread[u].entry # NoEntry
               PROVE  Cache'[thread[u].name] = thread[u].entry
    BY <1>4, <1>8 DEF HoldersAreRight
  <2>1. thread[u].name \in Names /\ Cache[thread[u].name] = thread[u].entry
    BY DEF PinInv, EntryWhilePinned, HoldersAreRight
  <2>2. CASE thread[u].name # n
    BY <1>8, <2>1, <2>2
  <2>3. CASE thread[u].name = n
    BY <2>1, <2>3 DEF getEntryAndPin
  <2> QED BY <2>2, <2>3
<1>13. ASSUME NEW m \in Names, Cache'[m] # NoEntry
       PROVE  /\ PinCount'[Cache'[m]] = Cardinality(Holders(thread', Cache'[m]))
              /\ PinCount'[Cache'[m]] = 0 => entries'[Cache'[m]].File # NoFile
  <2>1. CASE m = n
    <3>1. t \notin Holders(thread, e)
      BY <1>1, <1>2 DEF Holders
    <3>2. Cardinality(Holders(thread', e)) = Cardinality(Holders(thread, e)) + 1
      BY <1>6, <3>1, HoldersFinite, FS_AddElement
    <3> QED BY <1>7, <1>8, <2>1, <3>2, HoldersFinite
  <2>2. CASE m # n
    <3>1. Cache'[m] = Cache[m] /\ Cache[m] # e /\ Cache[m] # NoEntry
      BY <1>2, <1>8, <1>13, <2>2
    <3>2. Cache[m] \in EntryIds
      BY <3>1 DEF PinInv, PinTypeOK
    <3>3. Holders(thread', Cache[m]) = Holders(thread, Cache[m])
      BY <1>1, <1>5, <3>1 DEF Holders
    <3> QED BY <1>7, <3>1, <3>2, <3>3 DEF PinInv, CountIsRight
  <2> QED BY <2>1, <2>2
<1>14. CountIsRight'
  BY <1>13 DEF CountIsRight
<1> QED BY <1>9, <1>10, <1>11, <1>12, <1>14 DEF PinInv

LEMMA UnpinKeeps ==
    ASSUME PinInv, NEW t \in Threads, unpinEntryAndTryDelete(t),
           NEW n, n = thread[t].name, NEW e, e = thread[t].entry
    PROVE  PinInv'
<1>1. e # NoEntry /\ n \in Names /\ Cache[n] = e /\ e \in EntryIds
  BY DEF unpinEntryAndTryDelete, PinInv, EntryWhilePinned, HoldersAreRight, PinTypeOK
<1>2. /\ PinCount' = [PinCount EXCEPT ![e] = @ - 1] /\ entries' = entries
      /\ Cache' = IF Disposable(e) THEN [Cache EXCEPT ![n] = NoEntry] ELSE Cache
      /\ thread' = [thread EXCEPT ![t] = IF t \in Flushers THEN Flushing ELSE Idle]
  BY <1>1 DEF unpinEntryAndTryDelete
<1>3. t \in Holders(thread, e) /\ PinCount[e] = Cardinality(Holders(thread, e))
  BY <1>1 DEF Holders, PinInv, CountIsRight
<1>4. /\ thread'[t].entry = NoEntry /\ thread'[t].step \in {"idle", "loop"}
      /\ \A u \in Threads : u # t => thread'[u] = thread[u]
  BY <1>2, IdleRecord DEF PinInv, PinTypeOK
<1>5. Holders(thread', e) = Holders(thread, e) \ {t}
  BY <1>1, <1>4 DEF Holders
<1>6. \A x : x # e /\ x # NoEntry => Holders(thread', x) = Holders(thread, x)
  BY <1>4 DEF Holders
<1>7. Cardinality(Holders(thread', e)) = Cardinality(Holders(thread, e)) - 1 /\ Cardinality(Holders(thread', e)) \in Nat
  BY <1>3, <1>5, HoldersFinite, FS_RemoveElement
<1>8. PinCount' \in [EntryIds -> Nat] /\ PinCount'[e] = PinCount[e] - 1
      /\ \A x \in EntryIds : x # e => PinCount'[x] = PinCount[x]
  <2>1. PinCount[e] - 1 \in Nat
    BY <1>3, <1>7, HoldersFinite
  <2> QED BY <1>1, <1>2, <2>1 DEF PinInv, PinTypeOK
<1>9. PinTypeOK'
  BY <1>2, <1>8, IdleRecord DEF PinInv, PinTypeOK
<1>10. \A m \in Names : Cache'[m] = Cache[m] \/ (m = n /\ Disposable(e) /\ Cache'[m] = NoEntry)
  BY <1>1, <1>2 DEF PinInv, PinTypeOK
<1>11. OneNamePerEntry'
  BY <1>10 DEF PinInv, OneNamePerEntry
<1>12. EntryWhilePinned'
  BY <1>4 DEF PinInv, EntryWhilePinned
<1>13. Disposable(e) => Holders(thread', e) = {}
  <2>1. Disposable(e) => Cardinality(Holders(thread', e)) = 0
    BY <1>3, <1>7, HoldersFinite DEF Disposable
  <2>2. IsFiniteSet(Holders(thread', e))
    BY <1>3, <1>5, HoldersFinite, FS_RemoveElement
  <2> QED BY <2>1, <2>2, FS_EmptySet
<1>14. HoldersAreRight'
  <2> SUFFICES ASSUME NEW u \in Threads, thread'[u].entry # NoEntry
               PROVE  Cache'[thread'[u].name] = thread'[u].entry
    BY DEF HoldersAreRight
  <2>1. u # t /\ thread'[u] = thread[u]
    BY <1>4
  <2>2. thread[u].name \in Names /\ Cache[thread[u].name] = thread[u].entry
    BY <2>1 DEF PinInv, EntryWhilePinned, HoldersAreRight
  <2>3. ASSUME Cache'[thread[u].name] # Cache[thread[u].name] PROVE FALSE
    <3>1. thread[u].name = n /\ Disposable(e)
      BY <1>10, <2>2, <2>3
    <3>2. thread'[u].entry = e
      BY <1>1, <2>1, <2>2, <3>1
    <3>3. u \in Holders(thread', e)
      BY <3>2 DEF Holders
    <3> QED BY <1>13, <3>1, <3>3
  <2> QED BY <2>1, <2>2, <2>3
<1>15. ASSUME NEW m \in Names, Cache'[m] # NoEntry
       PROVE  /\ PinCount'[Cache'[m]] = Cardinality(Holders(thread', Cache'[m]))
              /\ PinCount'[Cache'[m]] = 0 => entries'[Cache'[m]].File # NoFile
  <2>1. Cache'[m] = Cache[m] /\ Cache[m] \in EntryIds
    BY <1>10, <1>15 DEF PinInv, PinTypeOK
  <2>2. CASE Cache[m] = e
    <3>1. ~Disposable(e)
      BY <1>1, <1>2, <1>15, <2>1, <2>2 DEF PinInv, PinTypeOK, OneNamePerEntry
    <3>2. PinCount[e] \in Nat
      BY <1>1 DEF PinInv, PinTypeOK
    <3> QED BY <1>2, <1>3, <1>7, <1>8, <2>1, <2>2, <3>1, <3>2 DEF Disposable
  <2>3. CASE Cache[m] # e
    BY <1>2, <1>6, <1>8, <1>15, <2>1, <2>3 DEF PinInv, CountIsRight
  <2> QED BY <2>2, <2>3
<1>16. CountIsRight'
  BY <1>15 DEF CountIsRight
<1> QED BY <1>9, <1>11, <1>12, <1>14, <1>16 DEF PinInv

LEMMA CrashKeeps ==
    ASSUME PinInv, Crash
    PROVE  PinInv'
<1>1. PinTypeOK'
  BY IdleRecord DEF Crash, PinTypeOK
<1>2. EntryWhilePinned' /\ HoldersAreRight'
  BY IdleRecord DEF Crash, EntryWhilePinned, HoldersAreRight
<1>3. OneNamePerEntry' /\ CountIsRight'
  BY DEF Crash, OneNamePerEntry, CountIsRight
<1> QED BY <1>1, <1>2, <1>3 DEF PinInv

(* Every body ends by leaving its entry. *)
LEMMA WorksLeaves ==
    ASSUME NEW c, NEW n, Works(c, n)
    PROVE  thread[c].step = "pinned" /\ \E entry : Leaves(c, entry)
BY DEF Works, Holds, MakeFile, DeleteFile, ChangesNothing, PartsFailToLoad, WriteMeta, WriteAt,
       AppendData, WriteFile, CompactIJson, Changes, FlushSucceeds, FlushFails, FlushTimesOut

LEMMA FlushLeaves ==
    ASSUME NEW f, FlushEntry(f)
    PROVE  thread[f].step = "pinned" /\ \E entry : Leaves(f, entry)
BY DEF FlushEntry, FlushSucceeds, FlushFails, FlushTimesOut

LEMMA PinStep ==
    ASSUME PinInv, [FSNext]_fsVars
    PROVE  PinInv'
<1>1. ASSUME NEW c \in Clients, NEW n \in Names, Works(c, n) PROVE PinInv'
  BY <1>1, WorksLeaves, LeavesKeeps DEF Threads
<1>2. ASSUME NEW t \in Threads, unpinEntryAndTryDelete(t) PROVE PinInv'
  BY <1>2, UnpinKeeps
<1>3. ASSUME NEW c \in Clients, NEW n \in Names, Enters(c, n) PROVE PinInv'
  BY <1>3, PinKeeps DEF Enters, Threads
<1>4. ASSUME NEW f \in Flushers, FlushBegins(f) \/ FlushEnds(f) PROVE PinInv'
  BY <1>4, NoEntryKeeps DEF FlushBegins, FlushEnds, Threads
<1>5. ASSUME NEW f \in Flushers, FlushEntry(f) PROVE PinInv'
  BY <1>5, FlushLeaves, LeavesKeeps DEF Threads
<1>6. ASSUME NEW f \in Flushers, NEW n \in Names, FlushPins(f, n) PROVE PinInv'
  BY <1>6, PinKeeps DEF FlushPins, Threads
<1>7. CASE Crash
  BY <1>7, CrashKeeps
<1>8. CASE UNCHANGED fsVars
  <2>1. Cache' = Cache /\ PinCount' = PinCount /\ entries' = entries /\ thread' = thread
    BY <1>8 DEF fsVars, pinVars
  <2>2. PinTypeOK'
    BY <2>1 DEF PinInv, PinTypeOK
  <2>3. EntryWhilePinned' /\ HoldersAreRight' /\ OneNamePerEntry'
    BY <2>1 DEF PinInv, EntryWhilePinned, HoldersAreRight, OneNamePerEntry
  <2>4. CountIsRight'
    BY <2>1 DEF PinInv, CountIsRight
  <2> QED BY <2>2, <2>3, <2>4 DEF PinInv
<1> QED BY <1>1, <1>2, <1>3, <1>4, <1>5, <1>6, <1>7, <1>8
        DEF FSNext, ClientFinishes, FlusherSteps, Threads

(* All who work on a file hold the entry that is in the cache, and with it the
   same lock: the bodies of the operations are atomic, as this model has them.
   No entry stays in the cache that is neither held nor dirty. *)
THEOREM PinsAreExact == FSSpec => []PinnedIsCached
BY PinInit, PinStep, PinInvImplies, PTL DEF FSSpec

-----------------------------------------------------------------------------
(* Arithmetic of parts *)

LEMMA Division ==
    ASSUME NEW x \in Int, NEW d \in Nat \ {0}
    PROVE  x \div d \in Int /\ x % d \in 0 .. d - 1 /\ x = d * (x \div d) + (x % d)
OBVIOUS

LEMMA DivisionUnique ==
    ASSUME NEW d \in Nat \ {0}, NEW q \in Int, NEW r \in Int, NEW c \in 0 .. d - 1, NEW e \in 0 .. d - 1,
           d * q + c = d * r + e
    PROVE  q = r /\ c = e
<1>1. CASE q < r
  <2>1. r - q >= 1 /\ d * (r - q) >= d
    BY <1>1
  <2>2. d * (r - q) = d * r - d * q
    OBVIOUS
  <2> QED BY <2>1, <2>2
<1>2. CASE r < q
  <2>1. q - r >= 1 /\ d * (q - r) >= d
    BY <1>2
  <2>2. d * (q - r) = d * q - d * r
    OBVIOUS
  <2> QED BY <2>1, <2>2
<1> QED BY <1>1, <1>2

LEMMA DivisionIs ==
    ASSUME NEW d \in Nat \ {0}, NEW q \in Int, NEW c \in 0 .. d - 1
    PROVE  (d * q + c) \div d = q /\ (d * q + c) % d = c
<1> DEFINE x == d * q + c
<1>1. x \in Int
  OBVIOUS
<1> HIDE DEF x
<1>2. x \div d \in Int /\ x % d \in 0 .. d - 1 /\ x = d * (x \div d) + (x % d)
  BY <1>1, Division
<1>3. d * (x \div d) + (x % d) = d * q + c
  BY <1>2 DEF x
<1>4. x \div d = q /\ x % d = c
  BY <1>2, <1>3, DivisionUnique
<1> QED BY <1>4 DEF x

(* Numbers that leave the same remainder are far apart. *)
LEMMA SameRemainder ==
    ASSUME NEW m \in Nat \ {0}, NEW x \in Int, NEW y \in Int, x % m = y % m, x < y
    PROVE  y - x >= m
<1> DEFINE q == x \div m
           r == y \div m
           c == x % m
<1>1. q \in Int /\ r \in Int /\ c \in 0 .. m - 1 /\ x = m * q + c /\ y = m * r + c
  BY Division
<1> HIDE DEF q, r, c
<1>2. y - x = m * (r - q)
  BY <1>1
<1>3. r - q >= 1
  <2>1. CASE r <= q
    <3>1. q - r >= 0 /\ m * (q - r) >= 0
      BY <1>1, <2>1
    <3>2. m * (q - r) = m * q - m * r
      BY <1>1
    <3> QED BY <1>1, <3>1, <3>2
  <2> QED BY <1>1, <2>1
<1>4. m * (r - q) >= m
  BY <1>1, <1>3
<1> QED BY <1>2, <1>4

LEMMA RemainderRepeats ==
    ASSUME NEW m \in Nat \ {0}, NEW x \in Int
    PROVE  (x + m) % m = x % m
<1> DEFINE q == x \div m
           c == x % m
<1>1. q \in Int /\ c \in 0 .. m - 1 /\ x = m * q + c
  BY Division
<1> HIDE DEF q, c
<1>2. x + m = m * (q + 1) + c /\ q + 1 \in Int
  BY <1>1
<1>3. (m * (q + 1) + c) % m = c
  BY <1>1, <1>2, DivisionIs
<1> QED BY <1>2, <1>3 DEF c

-----------------------------------------------------------------------------
(* Where a byte of a file is *)

Room   == MaxParts * PartSize
FileT  == [kind : Kinds, size : 0 .. Room, meta : Metas]
PartsT == [PartIdx -> {NoPart} \cup [0 .. PartSize - 1 -> Nat]]
EntryT == [File : FileT \cup {NoFile}, DataEntries : PartsT, FlushErrors : 0 .. MaxFlushErrors]

(* Parts of a circular file *)
Ring == MaxSize \div PartSize

LEMMA Sizes ==
    /\ PartSize \in Nat \ {0} /\ MaxSize \in Nat \ {0} /\ Ring \in Nat \ {0} /\ MaxSize = PartSize * Ring
    /\ MaxParts \in Nat /\ MaxFlushErrors \in Nat /\ Room \in Nat
<1>1. Ring \in Int /\ MaxSize = PartSize * Ring + (MaxSize % PartSize)
  BY FileStoreAssumption, Division DEF Ring
<1>2. MaxSize = PartSize * Ring
  BY <1>1, FileStoreAssumption
<1>3. Ring \in Nat \ {0}
  <2>1. CASE Ring <= 0
    <3>1. PartSize * (0 - Ring) >= 0
      BY <1>1, <2>1, FileStoreAssumption
    <3>2. PartSize * (0 - Ring) = 0 - PartSize * Ring
      BY <1>1, FileStoreAssumption
    <3> QED BY <1>1, <1>2, <3>1, <3>2, FileStoreAssumption
  <2> QED BY <1>1, <2>1
<1> QED BY <1>2, <1>3, FileStoreAssumption DEF Room

(* The segment of an offset, and the part that keeps a segment *)
Segment(o)       == o \div PartSize
PartOfSeg(file, q) == IF Circular(file) THEN q % Ring ELSE q

LEMMA PartIdxIs ==
    ASSUME NEW file, NEW o
    PROVE  partIdxAtOffset(file, o) = PartOfSeg(file, Segment(o))
BY DEF partIdxAtOffset, PartOfSeg, Segment, Ring

LEMMA SegmentStart ==
    ASSUME NEW file, NEW q \in Int
    PROVE  partIdxAtOffset(file, q * PartSize) = PartOfSeg(file, q)
<1>1. q * PartSize = PartSize * q + 0 /\ 0 \in 0 .. PartSize - 1
  BY Sizes
<1>2. (q * PartSize) \div PartSize = q
  BY <1>1, Sizes, DivisionIs
<1> QED BY <1>2, PartIdxIs DEF Segment

LEMMA ByteIsInSegment ==
    ASSUME NEW w \in Int
    PROVE  /\ Segment(w) \in Int /\ w % PartSize \in 0 .. PartSize - 1
           /\ w = PartSize * Segment(w) + (w % PartSize)
BY Sizes, Division DEF Segment

LEMMA SegmentNat ==
    ASSUME NEW w \in Nat PROVE Segment(w) \in Nat
<1>1. Segment(w) \in Int /\ w % PartSize \in 0 .. PartSize - 1 /\ w = PartSize * Segment(w) + (w % PartSize)
  BY ByteIsInSegment
<1>2. CASE Segment(w) < 0
  <2>1. PartSize * (0 - Segment(w)) >= PartSize
    BY <1>1, <1>2, Sizes
  <2>2. PartSize * (0 - Segment(w)) = 0 - PartSize * Segment(w)
    BY <1>1, Sizes
  <2> QED BY <1>1, <2>1, <2>2, Sizes
<1> QED BY <1>1, <1>2

LEMMA SegmentBelow ==
    ASSUME NEW w \in Nat, w < Room PROVE Segment(w) \in PartIdx
<1>1. Segment(w) \in Nat /\ w % PartSize \in 0 .. PartSize - 1 /\ w = PartSize * Segment(w) + (w % PartSize)
  BY ByteIsInSegment, SegmentNat
<1>2. CASE Segment(w) >= MaxParts
  <2>1. PartSize * (Segment(w) - MaxParts) >= 0
    BY <1>1, <1>2, Sizes
  <2>2. PartSize * (Segment(w) - MaxParts) = PartSize * Segment(w) - PartSize * MaxParts
    BY <1>1, Sizes
  <2>3. PartSize * MaxParts = Room
    BY Sizes DEF Room
  <2> QED BY <1>1, <2>1, <2>2, <2>3, Sizes
<1> QED BY <1>1, <1>2, Sizes DEF PartIdx

LEMMA PartIdxInRange ==
    ASSUME NEW file, NEW w \in Nat, w < Room
    PROVE  partIdxAtOffset(file, w) \in PartIdx /\ w % PartSize \in 0 .. PartSize - 1
<1>1. Segment(w) \in PartIdx /\ Segment(w) \in Nat
  BY SegmentBelow, SegmentNat
<1> DEFINE s == Segment(w)
           g == s \div Ring
           c == s % Ring
<1>2. s \in Int /\ s >= 0
  BY <1>1
<1> HIDE DEF s
<1>2a. c \in 0 .. Ring - 1 /\ s = Ring * g + c /\ g \in Int
  BY <1>2, Sizes, Division
<1>3. c <= s
  <2> HIDE DEF g, c
  <2>1. CASE g < 0
    <3>1. Ring * (0 - g) >= Ring
      BY <1>2a, <2>1, Sizes
    <3>2. Ring * (0 - g) = 0 - Ring * g
      BY <1>2a, Sizes
    <3> QED BY <1>2, <1>2a, <3>1, <3>2, Sizes
  <2>2. CASE g >= 0
    <3>1. Ring * g >= 0
      BY <1>2a, <2>2, Sizes
    <3> QED BY <1>2a, <3>1, Sizes
  <2> QED BY <1>2a, <2>1, <2>2
<1>4. Segment(w) % Ring \in PartIdx
  BY <1>1, <1>2a, <1>3, Sizes DEF PartIdx, s
<1> QED BY <1>1, <1>4, PartIdxIs, ByteIsInSegment DEF PartOfSeg

(* Two bytes less than a window apart are not in the same place. *)
LEMMA OnePlaceEach ==
    ASSUME NEW file, NEW x \in Nat, NEW y \in Nat, x < y,
           Circular(file) => y - x < MaxSize,
           partIdxAtOffset(file, x) = partIdxAtOffset(file, y), x % PartSize = y % PartSize
    PROVE  FALSE
<1> DEFINE p == Segment(x)
           q == Segment(y)
           c == x % PartSize
<1>1. p \in Int /\ q \in Int /\ c \in 0 .. PartSize - 1 /\ x = PartSize * p + c /\ y = PartSize * q + c
  BY ByteIsInSegment
<1>2. PartOfSeg(file, p) = PartOfSeg(file, q)
  BY PartIdxIs
<1> HIDE DEF p, q, c
<1>3. PartSize * (q - p) = y - x
  BY <1>1, Sizes
<1>4. p < q
  <2>1. CASE q <= p
    <3>1. PartSize * (p - q) >= 0
      BY <1>1, <2>1, Sizes
    <3>2. PartSize * (p - q) = 0 - PartSize * (q - p)
      BY <1>1, Sizes
    <3> QED BY <1>1, <1>3, <3>1, <3>2, Sizes
  <2> QED BY <1>1, <2>1
<1>5. Circular(file) /\ p % Ring = q % Ring
  BY <1>1, <1>2, <1>4 DEF PartOfSeg
<1>6. q - p >= Ring
  BY <1>1, <1>4, <1>5, SameRemainder, Sizes
<1>7. PartSize * (q - p) >= PartSize * Ring
  <2>1. PartSize * ((q - p) - Ring) >= 0
    BY <1>1, <1>6, Sizes
  <2>2. PartSize * ((q - p) - Ring) = PartSize * (q - p) - PartSize * Ring
    BY <1>1, Sizes
  <2> QED BY <1>1, <2>1, <2>2, Sizes
<1> QED BY <1>1, <1>3, <1>5, <1>7, Sizes

LEMMA SegmentMono ==
    ASSUME NEW x \in Int, NEW y \in Int, x <= y
    PROVE  Segment(x) <= Segment(y)
<1> DEFINE p == Segment(x)
           q == Segment(y)
<1>1. /\ p \in Int /\ x % PartSize \in 0 .. PartSize - 1 /\ x = PartSize * p + (x % PartSize)
      /\ q \in Int /\ y % PartSize \in 0 .. PartSize - 1 /\ y = PartSize * q + (y % PartSize)
  BY ByteIsInSegment
<1> HIDE DEF p, q
<1>2. ASSUME q < p PROVE FALSE
  <2>1. PartSize * (p - q) >= PartSize
    BY <1>1, <1>2, Sizes
  <2>2. PartSize * (p - q) = PartSize * p - PartSize * q
    BY <1>1, Sizes
  <2> QED BY <1>1, <2>1, <2>2, Sizes
<1>3. p <= q
  BY <1>1, <1>2
<1> QED BY <1>3 DEF p, q

LEMMA SegmentHas ==
    ASSUME NEW q \in Int, NEW k \in 0 .. PartSize - 1
    PROVE  /\ PartSize * q + k \in Int /\ Segment(PartSize * q + k) = q
           /\ (PartSize * q + k) % PartSize = k
BY Sizes, DivisionIs DEF Segment

-----------------------------------------------------------------------------
(* What a write leaves in the parts *)

At(file, from, end, p, k) ==
    {w \in from .. end - 1 : partIdxAtOffset(file, w) = p /\ w % PartSize = k}

Touched(file, from, end, p) == \E w \in from .. end - 1 : partIdxAtOffset(file, w) = p

(* Data that begins at o, from `from' on, over the parts there were *)
Over(file, base, from, o, data) ==
    [p \in PartIdx |->
        IF Touched(file, from, o + Len(data), p)
        THEN [k \in 0 .. PartSize - 1 |->
                IF At(file, from, o + Len(data), p, k) # {}
                THEN data[(CHOOSE w \in At(file, from, o + Len(data), p, k) : TRUE) - o + 1]
                ELSE IF base[p] = NoPart THEN 0 ELSE base[p][k]]
        ELSE base[p]]

LEMMA FullPart == \A part \in [0 .. PartSize - 1 -> Nat] : part # NoPart
<1> SUFFICES ASSUME NEW part \in [0 .. PartSize - 1 -> Nat], part = NoPart PROVE FALSE
  OBVIOUS
<1>1. DOMAIN part = 0 .. PartSize - 1 /\ DOMAIN part = {}
  BY DEF NoPart
<1>2. 0 \in 0 .. PartSize - 1
  BY Sizes
<1> QED BY <1>1, <1>2

Overlaid(file, base, from, o, data, over) ==
    \A p \in PartIdx :
        IF Touched(file, from, o + Len(data), p)
        THEN /\ over[p] # NoPart
             /\ \A k \in 0 .. PartSize - 1 :
                   /\ At(file, from, o + Len(data), p, k) = {} =>
                         over[p][k] = IF base[p] = NoPart THEN 0 ELSE base[p][k]
                   /\ \A w : At(file, from, o + Len(data), p, k) = {w} => over[p][k] = data[w - o + 1]
        ELSE over[p] = base[p]

LEMMA OverIs ==
    ASSUME NEW file, NEW base \in PartsT, NEW o \in Nat, NEW from \in Nat, o <= from,
           NEW data \in Seq(Nat), NEW over, over = Over(file, base, from, o, data)
    PROVE  over \in PartsT /\ Overlaid(file, base, from, o, data, over)
<1> DEFINE end == o + Len(data)
<1>0. end \in Nat /\ Len(data) \in Nat
  OBVIOUS
<1> DEFINE new(p) == [k \in 0 .. PartSize - 1 |->
                        IF At(file, from, end, p, k) # {}
                        THEN data[(CHOOSE w \in At(file, from, end, p, k) : TRUE) - o + 1]
                        ELSE IF base[p] = NoPart THEN 0 ELSE base[p][k]]
<1>1. over = [p \in PartIdx |-> IF Touched(file, from, end, p) THEN new(p) ELSE base[p]]
  BY DEF Over
<1>2. ASSUME NEW p \in PartIdx PROVE new(p) \in [0 .. PartSize - 1 -> Nat]
  <2> SUFFICES ASSUME NEW k \in 0 .. PartSize - 1
               PROVE  /\ At(file, from, end, p, k) # {} =>
                            data[(CHOOSE w \in At(file, from, end, p, k) : TRUE) - o + 1] \in Nat
                      /\ base[p] # NoPart => base[p][k] \in Nat
    OBVIOUS
  <2>1. base[p] # NoPart => base[p][k] \in Nat
    BY DEF PartsT
  <2>2. ASSUME At(file, from, end, p, k) # {}
        PROVE  data[(CHOOSE w \in At(file, from, end, p, k) : TRUE) - o + 1] \in Nat
    <3>1. PICK v : v = CHOOSE w \in At(file, from, end, p, k) : TRUE
      OBVIOUS
    <3>2. v \in At(file, from, end, p, k)
      BY <2>2, <3>1
    <3>3. v \in from .. end - 1
      BY <3>2 DEF At
    <3>4. v - o + 1 \in 1 .. Len(data)
      BY <1>0, <3>3
    <3> QED BY <3>1, <3>4
  <2> QED BY <2>1, <2>2
<1>3. \A p \in PartIdx : over[p] = IF Touched(file, from, end, p) THEN new(p) ELSE base[p]
  BY <1>1
<1>4. over \in PartsT
  <2> HIDE DEF new
  <2>1. \A p \in PartIdx : (IF Touched(file, from, end, p) THEN new(p) ELSE base[p])
                              \in {NoPart} \cup [0 .. PartSize - 1 -> Nat]
    BY <1>2 DEF PartsT
  <2> QED BY <1>1, <2>1 DEF PartsT
<1>5. ASSUME NEW p \in PartIdx, Touched(file, from, end, p)
      PROVE  /\ over[p] # NoPart
             /\ \A k \in 0 .. PartSize - 1 :
                   /\ At(file, from, end, p, k) = {} =>
                         over[p][k] = IF base[p] = NoPart THEN 0 ELSE base[p][k]
                   /\ \A w : At(file, from, end, p, k) = {w} => over[p][k] = data[w - o + 1]
  <2>1. over[p] = new(p)
    BY <1>3, <1>5
  <2>2. over[p] # NoPart
    BY <1>2, <2>1, FullPart
  <2>3. ASSUME NEW k \in 0 .. PartSize - 1, NEW w, At(file, from, end, p, k) = {w}
        PROVE  over[p][k] = data[w - o + 1]
    <3>1. (CHOOSE v \in At(file, from, end, p, k) : TRUE) = w
      BY <2>3
    <3> QED BY <2>1, <2>3, <3>1
  <2>4. ASSUME NEW k \in 0 .. PartSize - 1, At(file, from, end, p, k) = {}
        PROVE  over[p][k] = IF base[p] = NoPart THEN 0 ELSE base[p][k]
    BY <2>1, <2>4
  <2> QED BY <2>2, <2>3, <2>4
<1> QED BY <1>3, <1>4, <1>5 DEF Overlaid

(* The part p that is read: the one in the cache, if it is there *)
PartOf(parts, db, p) ==
    IF parts[p] # NoPart THEN parts[p] ELSE IF db[p] # NoPart THEN db[p] ELSE Zeros

(* Byte w of a file of `size' bytes, if it is in the window, after a write *)
ByteOver(file, base, db, from, o, data, w, p, k) ==
    LET end  == o + Len(data)
        byte == PartOf(Over(file, base, from, o, data), db, p)[k]
    IN  /\ p \in PartIdx /\ k \in 0 .. PartSize - 1
        /\ w \in from .. end - 1 => byte = data[w - o + 1]
        /\ w \notin from .. end - 1 =>
              /\ At(file, from, end, p, k) = {}
              /\ byte = IF Touched(file, from, end, p) THEN IF base[p] = NoPart THEN 0 ELSE base[p][k]
                        ELSE PartOf(base, db, p)[k]

LEMMA ReadOver ==
    ASSUME NEW file, NEW base \in PartsT, NEW db \in PartsT, NEW o \in Nat, NEW from \in Nat, o <= from,
           NEW data \in Seq(Nat), NEW size \in 0 .. Room, o + Len(data) <= size,
           NEW w \in 0 .. size - 1, Circular(file) => size - MaxSize <= from /\ size - MaxSize <= w,
           NEW p, p = partIdxAtOffset(file, w), NEW k, k = w % PartSize
    PROVE  ByteOver(file, base, db, from, o, data, w, p, k)
<1>0. PICK end, over : end = o + Len(data) /\ over = Over(file, base, from, o, data)
  OBVIOUS
<1>1. /\ w \in Nat /\ w < Room /\ end \in Nat /\ end <= size /\ Room \in Nat /\ size \in Nat /\ MaxSize \in Nat
  BY <1>0, Sizes
<1>2. p \in PartIdx /\ k \in 0 .. PartSize - 1
  BY <1>1, PartIdxInRange
<1>2a. Overlaid(file, base, from, o, data, over)
  BY <1>0, OverIs
<1>3. \A v \in At(file, from, end, p, k) : v = w
  <2> SUFFICES ASSUME NEW v \in At(file, from, end, p, k), v # w PROVE FALSE
    OBVIOUS
  <2>1. /\ v \in from .. end - 1 /\ v \in Nat
        /\ partIdxAtOffset(file, v) = partIdxAtOffset(file, w) /\ v % PartSize = w % PartSize
    BY <1>1 DEF At
  <2>2. Circular(file) => v - w < MaxSize /\ w - v < MaxSize
    BY <1>1, <2>1
  <2>3. CASE v < w
    BY <1>1, <2>1, <2>2, <2>3, OnePlaceEach
  <2>4. CASE w < v
    BY <1>1, <2>1, <2>2, <2>4, OnePlaceEach
  <2> QED BY <1>1, <2>1, <2>3, <2>4
<1>4. CASE w \in from .. end - 1
  <2>1. At(file, from, end, p, k) = {w} /\ Touched(file, from, end, p)
    BY <1>3, <1>4 DEF At, Touched
  <2>2. over[p] # NoPart /\ over[p][k] = data[w - o + 1]
    BY <1>2, <1>0, <1>2a, <2>1 DEF Overlaid
  <2> QED BY <1>0, <1>2, <1>4, <2>2 DEF PartOf, ByteOver
<1>5. CASE w \notin from .. end - 1
  <2>1. At(file, from, end, p, k) = {}
    BY <1>3, <1>5 DEF At
  <2>2. CASE Touched(file, from, end, p)
    <3>1. over[p] # NoPart /\ over[p][k] = IF base[p] = NoPart THEN 0 ELSE base[p][k]
      BY <1>2, <1>0, <1>2a, <2>1, <2>2 DEF Overlaid
    <3> QED BY <1>0, <1>2, <1>5, <2>1, <2>2, <3>1 DEF PartOf, ByteOver
  <2>3. CASE ~Touched(file, from, end, p)
    <3>1. over[p] = base[p]
      BY <1>2, <1>0, <1>2a, <2>3 DEF Overlaid
    <3> QED BY <1>0, <1>2, <1>5, <2>1, <2>3, <3>1 DEF PartOf, ByteOver
  <2> QED BY <2>2, <2>3
<1> QED BY <1>4, <1>5

(* A part that the data was taken to fill, and that it touches, it fills: from
   the last segment that is kept there on, the data is in the window. *)
LEMMA FilledIsWritten ==
    ASSUME NEW file, NEW o \in Nat, NEW len \in Nat, NEW end, end = o + len, NEW from \in Nat, o <= from,
           from = o \/ (Circular(file) /\ from = end - MaxSize),
           Circular(file) => end - MaxSize <= from,
           NEW p \in PartIdx, Touched(file, from, end, p), p \notin IncompleteParts(file, o, len),
           NEW k \in 0 .. PartSize - 1
    PROVE  At(file, from, end, p, k) # {}
<1> DEFINE first == Segment(o)
           last  == Segment(end - 1)
           fills(q) == o <= q * PartSize /\ (q + 1) * PartSize <= end
<1>1. /\ end \in Nat /\ end - 1 \in Int /\ first \in Int /\ last \in Int
      /\ end - 1 < PartSize * (last + 1) /\ PartSize * last <= end - 1
  <2>1. end \in Nat /\ end - 1 \in Int
    OBVIOUS
  <2>2. /\ last \in Int /\ (end - 1) % PartSize \in 0 .. PartSize - 1
        /\ end - 1 = PartSize * last + ((end - 1) % PartSize) /\ first \in Int
    BY <2>1, ByteIsInSegment
  <2> HIDE DEF last, first
  <2>3. PartSize * (last + 1) = PartSize * last + PartSize
    BY <2>2, Sizes
  <2> QED BY <2>1, <2>2, <2>3, Sizes
<1>2. ASSUME NEW q \in first .. last, PartOfSeg(file, q) = p,
             \A r \in first .. last : r > q => PartOfSeg(file, r) # p
      PROVE  fills(q)
  <2>1. q \in Int /\ partIdxAtOffset(file, q * PartSize) = p
        /\ \A r \in first .. last : r > q => partIdxAtOffset(file, r * PartSize) # p
    BY <1>1, <1>2, SegmentStart
  <2> QED BY <1>2, <2>1 DEF IncompleteParts, Segment
<1>3. ASSUME NEW q \in first .. last, PartOfSeg(file, q) = p, fills(q), from <= PartSize * q
      PROVE  At(file, from, end, p, k) # {}
  <2> DEFINE w == PartSize * q + k
  <2>1. q \in Int /\ w \in Int /\ Segment(w) = q /\ w % PartSize = k
    BY <1>1, SegmentHas
  <2>2. from <= w /\ w <= end - 1
    <3>1. (q + 1) * PartSize = PartSize * q + PartSize
      BY <2>1, Sizes
    <3> QED BY <1>1, <1>3, <2>1, <3>1, Sizes
  <2>3. partIdxAtOffset(file, w) = p
    BY <1>3, <2>1, PartIdxIs
  <2> HIDE DEF w
  <2>4. w \in from .. end - 1
    BY <1>1, <2>1, <2>2
  <2> QED BY <2>1, <2>3, <2>4 DEF At
<1>4. PICK v \in from .. end - 1 : partIdxAtOffset(file, v) = p
  BY DEF Touched
<1> DEFINE q == Segment(v)
<1>5. /\ v \in Int /\ from <= v /\ v <= end - 1 /\ q \in first .. last /\ q \in Int
      /\ PartOfSeg(file, q) = p /\ PartSize * q <= v /\ v < PartSize * q + PartSize
  <2>1. v \in Int /\ from <= v /\ v <= end - 1 /\ o <= v
    BY <1>1, <1>4
  <2>2. first <= q /\ q <= last
    BY <1>1, <2>1, SegmentMono
  <2>3. q \in Int /\ v % PartSize \in 0 .. PartSize - 1 /\ v = PartSize * q + (v % PartSize)
    BY <2>1, ByteIsInSegment
  <2>4. PartOfSeg(file, q) = p
    BY <1>4, PartIdxIs
  <2> HIDE DEF q, first, last
  <2> QED BY <1>1, <2>1, <2>2, <2>3, <2>4, Sizes
<1> HIDE DEF q, fills
<1>6. CASE \A r \in first .. last : r > q => PartOfSeg(file, r) # p
  <2>1. fills(q)
    BY <1>2, <1>5, <1>6
  <2>2. o <= q * PartSize /\ q * PartSize = PartSize * q
    BY <1>5, <2>1, Sizes DEF fills
  <2>3. ASSUME Circular(file), from = end - MaxSize, PartSize * q < from PROVE FALSE
    <3>1. PartSize * (q + Ring) = PartSize * q + MaxSize
      BY <1>5, Sizes
    <3>2. PartSize * (q + Ring) + 0 <= end - 1 /\ q + Ring \in Int
      BY <1>1, <1>5, <2>3, <3>1, Sizes
    <3>3. Segment(PartSize * (q + Ring) + 0) = q + Ring
      <4>1. \A x \in Int : Segment(PartSize * x + 0) = x
        <5>1. 0 \in 0 .. PartSize - 1
          BY Sizes
        <5> QED BY <5>1, SegmentHas
      <4> QED BY <3>2, <4>1
    <3>4. q + Ring <= last
      BY <1>1, <3>2, <3>3, SegmentMono, Sizes
    <3>5. q + Ring \in first .. last /\ q + Ring > q
      BY <1>1, <1>5, <3>4, Sizes
    <3>6. PartOfSeg(file, q + Ring) = p
      BY <1>5, <2>3, RemainderRepeats, Sizes DEF PartOfSeg
    <3> QED BY <1>6, <3>5, <3>6
  <2>4. from <= PartSize * q
    BY <1>1, <1>5, <2>2, <2>3, Sizes
  <2> QED BY <1>3, <1>5, <2>1, <2>4
<1>7. CASE \E r \in first .. last : r > q /\ PartOfSeg(file, r) = p
  <2>1. PICK r \in first .. last : r > q /\ PartOfSeg(file, r) = p
    BY <1>7
  <2>2. r \in Int /\ Circular(file) /\ q % Ring = p /\ r % Ring = p
    BY <1>1, <1>5, <2>1 DEF PartOfSeg
  <2>3. r - q >= Ring
    BY <1>5, <2>1, <2>2, SameRemainder, Sizes
  <2>4. PartSize * r >= PartSize * q + MaxSize
    <3>1. PartSize * ((r - q) - Ring) >= 0
      BY <1>5, <2>2, <2>3, Sizes
    <3>2. PartSize * ((r - q) - Ring) = PartSize * r - PartSize * q - PartSize * Ring
      BY <1>5, <2>2, Sizes
    <3> QED BY <1>5, <2>2, <3>1, <3>2, Sizes
  <2>5. MaxSize >= PartSize
    <3>1. PartSize * (Ring - 1) >= 0 /\ PartSize * (Ring - 1) = PartSize * Ring - PartSize
      BY Sizes
    <3> QED BY <3>1, Sizes
  <2>6. ASSUME NEW s \in first .. last, s > r, PartOfSeg(file, s) = p PROVE FALSE
    <3>1. s \in Int /\ s % Ring = p
      BY <1>1, <2>2, <2>6 DEF PartOfSeg
    <3>2. s - r >= Ring
      BY <2>2, <2>6, <3>1, SameRemainder, Sizes
    <3>3. PartSize * s >= PartSize * r + MaxSize
      <4>1. PartSize * ((s - r) - Ring) >= 0
        BY <2>2, <3>1, <3>2, Sizes
      <4>2. PartSize * ((s - r) - Ring) = PartSize * s - PartSize * r - PartSize * Ring
        BY <2>2, <3>1, Sizes
      <4> QED BY <2>2, <3>1, <4>1, <4>2, Sizes
    <3>4. PartSize * s <= PartSize * last
      <4>1. PartSize * (last - s) >= 0 /\ PartSize * (last - s) = PartSize * last - PartSize * s
        BY <1>1, <2>6, <3>1, Sizes
      <4> QED BY <1>1, <3>1, <4>1, Sizes
    <3>5. /\ PartSize * s \in Int /\ PartSize * r \in Int /\ PartSize * q \in Int /\ PartSize * last \in Int
      BY <1>1, <1>5, <2>2, <3>1, Sizes
    <3> QED BY <1>1, <1>5, <2>2, <2>4, <2>5, <3>3, <3>4, <3>5, Sizes
  <2>7. fills(r)
    BY <1>2, <2>1, <2>6
  <2>8. from <= PartSize * r
    <3>1. PartSize * r \in Int /\ PartSize * q \in Int
      BY <1>5, <2>2, Sizes
    <3> QED BY <1>1, <1>5, <2>4, <2>5, <3>1, Sizes
  <2> QED BY <1>3, <2>1, <2>7, <2>8
<1> QED BY <1>6, <1>7

-----------------------------------------------------------------------------
(* What is read of a file *)

ContentT == [kind : Kinds, size : Nat, meta : Metas, data : Seq(Nat)]

(* Where the window of a circular file begins *)
Start(file) == IF Circular(file) /\ file.size > MaxSize THEN file.size - MaxSize ELSE 0

ByteAt(file, parts, db, w) == PartOf(parts, db, partIdxAtOffset(file, w))[w % PartSize]

Bytes(file, parts, db) ==
    [k \in 1 .. file.size - Start(file) |-> ByteAt(file, parts, db, Start(file) + k - 1)]

Content(file, parts, db) ==
    [kind |-> file.kind, size |-> file.size, meta |-> file.meta, data |-> Bytes(file, parts, db)]

LEMMA FileOfIs ==
    ASSUME NEW f, NEW parts, NEW n
    PROVE  FileOf(f, parts, n) = IF f = NoFile THEN NoFile ELSE Content(f, parts, dbParts[n])
BY DEF FileOf, readFile, Content, Bytes, ByteAt, PartOf, Start

LEMMA FileFields ==
    ASSUME NEW file \in FileT
    PROVE  /\ file.kind \in Kinds /\ file.size \in Nat /\ file.size <= Room /\ file.meta \in Metas
           /\ Start(file) \in Nat /\ Start(file) <= file.size
           /\ Circular(file) => file.size - MaxSize <= Start(file)
BY Sizes DEF FileT, Start

LEMMA PartIsFull ==
    ASSUME NEW parts \in PartsT, NEW db \in PartsT, NEW p \in PartIdx
    PROVE  PartOf(parts, db, p) \in [0 .. PartSize - 1 -> Nat]
BY DEF PartOf, PartsT, Zeros

LEMMA ContentIs ==
    ASSUME NEW file \in FileT, NEW parts \in PartsT, NEW db \in PartsT,
           NEW f, f = Content(file, parts, db)
    PROVE  /\ f \in ContentT /\ f # NoFile
           /\ f.kind = file.kind /\ f.size = file.size /\ f.meta = file.meta
           /\ f.data = Bytes(file, parts, db)
           /\ Len(f.data) = file.size - Start(file)
           /\ \A w \in Start(file) .. file.size - 1 :
                 f.data[w - Start(file) + 1] = ByteAt(file, parts, db, w)
<1> DEFINE lo == Start(file)
           size == file.size
           b == Bytes(file, parts, db)
<1>1. lo \in Nat /\ size \in Nat /\ lo <= size /\ size <= Room /\ size - lo \in Nat
  BY FileFields
<1>2. b = [k \in 1 .. size - lo |-> ByteAt(file, parts, db, lo + k - 1)]
  BY DEF Bytes
<1>3. /\ f.kind = file.kind /\ f.size = file.size /\ f.meta = file.meta /\ f.data = b
      /\ f = [kind |-> file.kind, size |-> size, meta |-> file.meta, data |-> b]
  BY DEF Content
<1> HIDE DEF lo, size, b
<1>4. ASSUME NEW w \in Nat, w < size PROVE ByteAt(file, parts, db, w) \in Nat
  <2>1. partIdxAtOffset(file, w) \in PartIdx /\ w % PartSize \in 0 .. PartSize - 1
    BY <1>1, <1>4, PartIdxInRange, Sizes
  <2>2. PartOf(parts, db, partIdxAtOffset(file, w)) \in [0 .. PartSize - 1 -> Nat]
    BY <2>1, PartIsFull
  <2> QED BY <2>1, <2>2 DEF ByteAt
<1>5. \A k \in 1 .. size - lo : lo + k - 1 \in Nat /\ lo + k - 1 < size
  BY <1>1
<1>6. b \in [1 .. size - lo -> Nat]
  BY <1>2, <1>4, <1>5
<1>7. b \in Seq(Nat) /\ Len(b) = size - lo
  BY <1>1, <1>6
<1>8. \A w \in lo .. size - 1 : b[w - lo + 1] = ByteAt(file, parts, db, w)
  <2> SUFFICES ASSUME NEW w \in lo .. size - 1 PROVE b[w - lo + 1] = ByteAt(file, parts, db, w)
    OBVIOUS
  <2>1. w - lo + 1 \in 1 .. size - lo /\ lo + (w - lo + 1) - 1 = w
    BY <1>1
  <2> QED BY <1>2, <2>1
<1>9. f \in ContentT /\ f # NoFile
  <2>1. f \in ContentT
    BY <1>1, <1>3, <1>7, FileFields DEF ContentT, size
  <2> QED BY <2>1, FileStoreAssumption DEF ContentT
<1> QED BY <1>3, <1>7, <1>8, <1>9 DEF lo, size, b

(* A file reads as if data had been written into what it was, if every byte of
   its window is as it was or as it was written. *)
BytesAsWritten(file, parts, db, f, o, data) ==
    \A w \in Start(file) .. file.size - 1 :
        ByteAt(file, parts, db, w) =
            IF w \in o .. o + Len(data) - 1 THEN data[w - o + 1]
            ELSE f.data[w - (f.size - Len(f.data)) + 1]

LEMMA ReadsAsWritten ==
    ASSUME NEW file \in FileT, NEW parts \in PartsT, NEW db \in PartsT,
           NEW f \in ContentT, f.kind = file.kind, f.meta = file.meta,
           NEW o \in Nat, NEW data \in Seq(Nat), BytesAsWritten(file, parts, db, f, o, data)
    PROVE  Content(file, parts, db) = Files!Written(f, o, data, file.size)
<1> DEFINE size == file.size
           kept == IF f.kind = "circular" /\ size > MaxSize THEN MaxSize ELSE size
           new(p) == IF p \in o .. o + Len(data) - 1 THEN data[p - o + 1]
                     ELSE f.data[p - (f.size - Len(f.data)) + 1]
<1>1. size \in Nat /\ Start(file) = size - kept /\ size - Start(file) = kept /\ kept \in Nat /\ kept <= size
  BY FileFields, Sizes DEF Start, Circular
<1>2. Files!Written(f, o, data, size) =
        [f EXCEPT !.size = size, !.data = [k \in 1 .. kept |-> new(size - kept + k - 1)]]
  BY DEF Files!Written
<1>3. Bytes(file, parts, db) = [k \in 1 .. kept |-> ByteAt(file, parts, db, size - kept + k - 1)]
  BY <1>1 DEF Bytes
<1>4. \A w \in size - kept .. size - 1 : ByteAt(file, parts, db, w) = new(w)
  BY <1>1 DEF BytesAsWritten
<1> HIDE DEF new, kept
<1>5. \A k \in 1 .. kept : size - kept + k - 1 \in size - kept .. size - 1
  BY <1>1
<1>6. Bytes(file, parts, db) = [k \in 1 .. kept |-> new(size - kept + k - 1)]
  BY <1>3, <1>4, <1>5
<1>7. PICK g : g = [f EXCEPT !.size = size, !.data = Bytes(file, parts, db)]
  OBVIOUS
<1>8. g \in ContentT /\ Content(file, parts, db) \in ContentT
  <2>1. Content(file, parts, db) \in ContentT
    BY ContentIs
  <2>2. Bytes(file, parts, db) \in Seq(Nat)
    BY <2>1 DEF ContentT, Content
  <2> QED BY <1>1, <1>7, <2>1, <2>2 DEF ContentT
<1>9. /\ g.size = size /\ g.data = Bytes(file, parts, db) /\ g.kind = file.kind /\ g.meta = file.meta
  BY <1>7 DEF ContentT
<1>10. g = Content(file, parts, db)
  BY <1>8, <1>9 DEF ContentT, Content
<1> QED BY <1>2, <1>6, <1>7, <1>10

-----------------------------------------------------------------------------
(* writeAt *)

Begin(file, size, o, end) ==
    IF ~Circular(file) THEN o
    ELSE CHOOSE p \in {o, size - MaxSize, end - MaxSize} :
            \A q \in {o, size - MaxSize, end - MaxSize} : q <= p

BeginsAt(file, size, o, end, from) ==
    /\ from \in Nat /\ o <= from
    /\ ~Circular(file) => from = o
    /\ Circular(file) => /\ size - MaxSize <= from /\ end - MaxSize <= from
                         /\ from \in {o, size - MaxSize, end - MaxSize}

LEMMA BeginIs ==
    ASSUME NEW file, NEW size \in Nat, NEW o \in Nat, NEW end \in Nat,
           NEW from, from = Begin(file, size, o, end)
    PROVE  BeginsAt(file, size, o, end, from)
<1>1. CASE ~Circular(file)
  BY <1>1 DEF Begin, BeginsAt
<1>2. CASE Circular(file)
  <2> DEFINE S == {o, size - MaxSize, end - MaxSize}
  <2>1. size - MaxSize \in Int /\ end - MaxSize \in Int
    BY Sizes
  <2>2. \E p \in S : \A q \in S : q <= p
    <3>1. CASE size - MaxSize <= o /\ end - MaxSize <= o
      BY <2>1, <3>1
    <3>2. CASE o <= size - MaxSize /\ end - MaxSize <= size - MaxSize
      BY <2>1, <3>2
    <3>3. CASE o <= end - MaxSize /\ size - MaxSize <= end - MaxSize
      BY <2>1, <3>3
    <3> QED BY <2>1, <3>1, <3>2, <3>3
  <2>3. from \in S /\ \A q \in S : q <= from
    <3>1. from = CHOOSE p \in S : \A q \in S : q <= p
      BY <1>2 DEF Begin
    <3> HIDE DEF S
    <3> QED BY <2>2, <3>1
  <2> QED BY <1>2, <2>1, <2>3 DEF BeginsAt
<1> QED BY <1>1, <1>2

LEMMA AFileIsThere == \A file \in FileT : file # NoFile
<1>1. FileT \subseteq [kind : Kinds, size : Nat, meta : Metas]
  BY Sizes DEF FileT
<1> QED BY <1>1, FileStoreAssumption

LEMMA EntryFields ==
    ASSUME NEW entry \in EntryT
    PROVE  /\ entry.File # NoFile => entry.File \in FileT
           /\ entry.DataEntries \in PartsT /\ entry.FlushErrors \in 0 .. MaxFlushErrors
BY DEF EntryT

Rewritten(entry, size, parts) == [entry EXCEPT !.File.size = size, !.DataEntries = parts]

HasRewritten(entry, size, parts, new) ==
    /\ new \in EntryT /\ new.File \in FileT /\ new.File # NoFile
    /\ new.File.kind = entry.File.kind /\ new.File.meta = entry.File.meta /\ new.File.size = size
    /\ new.DataEntries = parts /\ new.FlushErrors = entry.FlushErrors

LEMMA EntryWith ==
    ASSUME NEW entry \in EntryT, entry.File # NoFile, NEW s \in 0 .. Room, NEW parts \in PartsT,
           NEW new, new = Rewritten(entry, s, parts)
    PROVE  HasRewritten(entry, s, parts, new)
<1>1. entry.File \in FileT /\ entry.FlushErrors \in 0 .. MaxFlushErrors
  BY EntryFields
<1>2. PICK file : file = [entry.File EXCEPT !.size = s]
  OBVIOUS
<1>3. /\ file \in FileT /\ file.kind = entry.File.kind /\ file.meta = entry.File.meta /\ file.size = s
  BY <1>1, <1>2 DEF FileT
<1>4. new = [entry EXCEPT !.File = file, !.DataEntries = parts]
  BY <1>2 DEF Rewritten
<1>5. new.File = file /\ new.DataEntries = parts /\ new.FlushErrors = entry.FlushErrors
  BY <1>4 DEF EntryT
<1>6. new \in EntryT
  BY <1>3, <1>4 DEF EntryT
<1> QED BY <1>3, <1>5, <1>6, AFileIsThere DEF HasRewritten

Larger(x, y) == IF x > y THEN x ELSE y

Passed(file, end) == Circular(file) /\ end <= file.size - MaxSize

LEMMA UpdateSkips ==
    ASSUME NEW entry \in EntryT, NEW o \in Nat, NEW data \in Seq(Nat), Circular(entry.File), o + Len(data) <= entry.File.size - MaxSize
    PROVE  writeAt(entry, o, data, FALSE) = entry
BY DEF writeAt

UpdatesTo(entry, o, data, file, end, size) ==
    writeAt(entry, o, data, FALSE) =
        Rewritten(entry, size, Over(file, entry.DataEntries, Begin(file, file.size, o, end), o, data))

LEMMA UpdateIs ==
    ASSUME NEW entry \in EntryT, NEW o \in Nat, NEW data \in Seq(Nat), NEW file, file = entry.File, NEW end \in Nat,
           end = o + Len(data), ~Passed(file, end),
           NEW size \in Nat, size = Larger(end, file.size)
    PROVE  UpdatesTo(entry, o, data, file, end, size)
<1>1. writeAt(entry, o, data, FALSE) =
        IF Circular(file) /\ o + Len(data) <= file.size - MaxSize THEN entry
        ELSE Rewritten(entry, IF o + Len(data) > file.size THEN o + Len(data) ELSE file.size,
                 Over(file, entry.DataEntries, Begin(file, file.size, o, o + Len(data)), o, data))
  BY DEF writeAt, Rewritten, Begin, Over, Touched, At
<1> QED BY <1>1 DEF Larger, Passed, UpdatesTo

ReplacesBy(entry, data, file, end) ==
    writeAt(entry, 0, data, TRUE) = Rewritten(entry, end, Over(file, NoParts, Begin(file, 0, 0, end), 0, data))

LEMMA ReplaceIs ==
    ASSUME NEW entry \in EntryT, NEW data \in Seq(Nat), NEW file, file = entry.File, NEW end \in Nat,
           end = Len(data)
    PROVE  ReplacesBy(entry, data, file, end)
<1>1. writeAt(entry, 0, data, TRUE) =
        IF Circular(file) /\ 0 + Len(data) <= 0 - MaxSize THEN entry
        ELSE Rewritten(entry, 0 + Len(data),
                 Over(file, NoParts, Begin(file, 0, 0, 0 + Len(data)), 0, data))
  BY DEF writeAt, Rewritten, Begin, Over, Touched, At
<1>2. ~(0 + Len(data) <= 0 - MaxSize) /\ 0 + Len(data) = end
  BY Sizes
<1> QED BY <1>1, <1>2 DEF ReplacesBy

LoadedFrom(db, parts, idxs) ==
    [p \in PartIdx |-> IF p \in idxs /\ parts[p] = NoPart THEN db[p] ELSE parts[p]]

LEMMA LoadedIs ==
    ASSUME NEW parts \in PartsT, NEW db \in PartsT, NEW idxs, NEW loaded,
           loaded = LoadedFrom(db, parts, idxs)
    PROVE  /\ loaded \in PartsT
           /\ \A p \in PartIdx : /\ PartOf(loaded, db, p) = PartOf(parts, db, p)
                                 /\ p \in idxs /\ loaded[p] = NoPart => PartOf(loaded, db, p) = Zeros
BY DEF LoadedFrom, PartsT, PartOf

PreparedFrom(db, entry, o, data) ==
    [entry EXCEPT !.DataEntries = LoadedFrom(db, @, IncompleteParts(entry.File, o, Len(data)))]

(* Entry `new' shows f with data written at o, and its end at `size'. *)
ShowsWritten(entry, new, db, f, o, data, size) ==
    /\ new \in EntryT /\ new.File # NoFile /\ new.FlushErrors = entry.FlushErrors
    /\ Content(new.File, new.DataEntries, db) = Files!Written(f, o, data, size)

(* WriteAt: data is written over what was read, if it does not begin before
   the window. *)
LEMMA UpdateShows ==
    ASSUME NEW entry \in EntryT, entry.File # NoFile, NEW db \in PartsT,
           NEW o \in Nat, NEW data \in Seq(Nat), NEW size, size = entry.File.size,
           o <= size, o + Len(data) <= Room, Circular(entry.File) => size - MaxSize <= o,
           NEW loaded, loaded = PreparedFrom(db, entry, o, data),
           NEW new, new = writeAt(loaded, o, data, FALSE),
           NEW f, f = Content(entry.File, entry.DataEntries, db),
           NEW grown, grown = Larger(o + Len(data), size)
    PROVE  ShowsWritten(entry, new, db, f, o, data, grown)
<1>0. PICK file, parts, end, base : file = entry.File /\ parts = entry.DataEntries /\ end = o + Len(data)
                                     /\ base = loaded.DataEntries
  OBVIOUS
<1>0a. PICK idxs : idxs = IncompleteParts(file, o, Len(data))
  OBVIOUS
<1>0b. PICK from : from = Begin(file, size, o, end)
  OBVIOUS
<1>0c. f = Content(file, parts, db)
  BY <1>0
<1>0d. grown = IF end > size THEN end ELSE size
  BY <1>0 DEF Larger
<1>1. /\ file \in FileT /\ parts \in PartsT /\ size \in Nat /\ size <= Room /\ end \in Nat /\ Len(data) \in Nat
      /\ grown \in 0 .. Room /\ end <= grown /\ size <= grown /\ file.size = size
  BY <1>0, <1>0d, EntryFields, FileFields, Sizes
<1>2. base = LoadedFrom(db, parts, idxs) /\ base \in PartsT
  BY LoadedIs, <1>0, <1>0a, <1>1 DEF EntryT, PreparedFrom
<1>3. /\ loaded \in EntryT /\ loaded.File = file /\ loaded.FlushErrors = entry.FlushErrors
      /\ loaded = [entry EXCEPT !.DataEntries = base]
  BY <1>0, <1>0a, <1>2 DEF EntryT, PreparedFrom
<1>4. \A p \in PartIdx : /\ PartOf(base, db, p) = PartOf(parts, db, p)
                         /\ p \in idxs /\ base[p] = NoPart => PartOf(base, db, p) = Zeros
  BY <1>1, <1>2, LoadedIs
<1>5. /\ from \in Nat /\ o <= from
      /\ ~Circular(file) => from = o
      /\ Circular(file) => /\ size - MaxSize <= from /\ end - MaxSize <= from
                           /\ from \in {o, size - MaxSize, end - MaxSize}
  <2>1. BeginsAt(file, size, o, end, from)
    BY <1>0b, <1>1, BeginIs
  <2> QED BY <2>1 DEF BeginsAt
<1>6. from = o \/ (Circular(file) /\ from = end - MaxSize)
  BY <1>0, <1>1, <1>5, Sizes
<1>7. /\ f \in ContentT /\ f.kind = file.kind /\ f.size = size /\ f.meta = file.meta
      /\ Len(f.data) = size - Start(file) /\ Start(file) \in Nat
      /\ \A w \in Start(file) .. size - 1 : f.data[w - Start(file) + 1] = ByteAt(file, parts, db, w)
  BY <1>0c, <1>1, ContentIs, FileFields
<1>8. f.size - Len(f.data) = Start(file)
  BY <1>1, <1>7
(* the bytes that stay *)
<1>9. ASSUME NEW g \in FileT, g.kind = file.kind, g.size = grown, NEW w \in Start(g) .. grown - 1
      PROVE  /\ w \in Nat /\ w < Room /\ partIdxAtOffset(g, w) = partIdxAtOffset(file, w)
             /\ Circular(file) => grown - MaxSize <= w
             /\ w < size => f.data[w - (f.size - Len(f.data)) + 1] = ByteAt(file, parts, db, w)
  <2>1. /\ Start(g) \in Nat
        /\ Circular(g) => grown - MaxSize <= Start(g)
    BY <1>9, FileFields
  <2>2. /\ w \in Nat /\ w < Room
        /\ Circular(g) => grown - MaxSize <= w
    BY <1>1, <1>9, <2>1, Sizes
  <2>3. partIdxAtOffset(g, w) = partIdxAtOffset(file, w) /\ (Circular(file) <=> Circular(g))
    BY <1>9 DEF partIdxAtOffset, Circular
  <2>4. Start(file) <= Start(g)
    BY <1>1, <1>9, <2>3, Sizes DEF Start
  <2>5. w < size => w \in Start(file) .. size - 1
    BY <1>1, <1>7, <1>9, <2>1, <2>2, <2>4
  <2> QED BY <1>1, <1>7, <1>8, <2>1, <2>2, <2>3, <2>5, Sizes
<1>10. CASE Circular(file) /\ end <= size - MaxSize
  <2>1. new = loaded
    <3>1. Circular(loaded.File) /\ o + Len(data) <= loaded.File.size - MaxSize
      BY <1>0, <1>1, <1>3, <1>10
    <3> QED BY <1>3, <3>1, UpdateSkips
  <2>2. grown = size /\ end = o
    BY <1>0, <1>0d, <1>1, <1>10, Sizes
  <2>3. BytesAsWritten(file, base, db, f, o, data)
    <3> SUFFICES ASSUME NEW w \in Start(file) .. file.size - 1
                 PROVE  ByteAt(file, base, db, w) = f.data[w - (f.size - Len(f.data)) + 1]
      BY <1>0, <1>1, <2>2 DEF BytesAsWritten
    <3>1. /\ w \in Nat /\ w < Room /\ f.data[w - (f.size - Len(f.data)) + 1] = ByteAt(file, parts, db, w)
      BY <1>1, <1>9, <2>2
    <3> QED BY <1>4, <3>1, PartIdxInRange DEF ByteAt
  <2>4. Content(file, base, db) = Files!Written(f, o, data, file.size)
    BY <1>1, <1>2, <1>7, <2>3, ReadsAsWritten
  <2> QED BY <1>0, <1>0c, <1>0d, <1>1, <1>3, <2>1, <2>2, <2>4 DEF ShowsWritten, Larger
<1>11. CASE ~(Circular(file) /\ end <= size - MaxSize)
  <2>0. PICK over : over = Over(file, base, from, o, data)
    OBVIOUS
  <2>1. over \in PartsT
    BY <1>2, <1>5, <2>0, OverIs
  <2>2. new = Rewritten(loaded, grown, over)
    <3>1. writeAt(loaded, o, data, FALSE) =
            Rewritten(loaded, grown, Over(file, loaded.DataEntries, Begin(file, file.size, o, end), o, data))
      <4>1. ~Passed(file, end) /\ grown = Larger(end, file.size)
        BY <1>0d, <1>1, <1>11 DEF Larger, Passed
      <4>2. loaded \in EntryT /\ file = loaded.File /\ end = o + Len(data) /\ end \in Nat /\ grown \in Nat
        BY <1>0, <1>1, <1>3, Sizes
      <4>3. UpdatesTo(loaded, o, data, file, end, grown)
        BY <4>1, <4>2, UpdateIs
      <4> QED BY <4>3 DEF UpdatesTo
    <3> QED BY <1>0, <1>0b, <1>1, <2>0, <3>1
  <2>3. /\ new \in EntryT /\ new.File \in FileT /\ new.File # NoFile /\ new.FlushErrors = entry.FlushErrors
        /\ new.File.kind = file.kind /\ new.File.meta = file.meta /\ new.File.size = grown
        /\ new.DataEntries = over
    <3>1. loaded \in EntryT /\ loaded.File # NoFile /\ grown \in 0 .. Room
      BY <1>0, <1>1, <1>3
    <3>2. HasRewritten(loaded, grown, over, new)
      BY <2>1, <2>2, <3>1, EntryWith
    <3> QED BY <1>3, <3>2 DEF HasRewritten
  <2>3a. PICK g : g = new.File
    OBVIOUS
  <2>4a. ASSUME NEW w \in Start(g) .. g.size - 1
        PROVE  ByteAt(g, over, db, w) =
                   IF w \in o .. o + Len(data) - 1 THEN data[w - o + 1]
                   ELSE f.data[w - (f.size - Len(f.data)) + 1]
    <3>0. PICK p, k : p = partIdxAtOffset(file, w) /\ k = w % PartSize
      OBVIOUS
    <3>1. /\ w \in Nat /\ w \in 0 .. grown - 1 /\ w < Room /\ partIdxAtOffset(g, w) = p
          /\ Circular(file) => grown - MaxSize <= w
          /\ w < size => f.data[w - (f.size - Len(f.data)) + 1] = ByteAt(file, parts, db, w)
      <4>1. g \in FileT /\ g.kind = file.kind /\ g.size = grown /\ w \in Start(g) .. grown - 1
        BY <2>3, <2>3a, <2>4a
      <4> QED BY <1>1, <1>9, <3>0, <4>1
    <3>2. Circular(file) => grown - MaxSize <= from
      BY <1>0d, <1>1, <1>5, Sizes
    <3>2a. ByteOver(file, base, db, from, o, data, w, p, k)
      BY <1>0, <1>1, <1>2, <1>5, <3>0, <3>1, <3>2, ReadOver
    <3>3. /\ p \in PartIdx /\ k \in 0 .. PartSize - 1
          /\ w \in from .. end - 1 => PartOf(over, db, p)[k] = data[w - o + 1]
          /\ w \notin from .. end - 1 =>
                 /\ At(file, from, end, p, k) = {}
                 /\ PartOf(over, db, p)[k] =
                       IF Touched(file, from, end, p) THEN IF base[p] = NoPart THEN 0 ELSE base[p][k]
                       ELSE PartOf(base, db, p)[k]
      BY <1>0, <2>0, <3>2a DEF ByteOver
    <3>4. ByteAt(g, over, db, w) = PartOf(over, db, p)[k]
      BY <3>0, <3>1 DEF ByteAt
    <3>5. w \in from .. end - 1 <=> w \in o .. end - 1
      BY <1>1, <1>5, <1>6, <3>1, Sizes
    <3>6. CASE w \in from .. end - 1
      BY <1>0, <3>3, <3>4, <3>5, <3>6
    <3>7. CASE w \notin from .. end - 1
      <4>1. w < size
        BY <1>0d, <1>1, <3>1, <3>5, <3>7
      <4>2. f.data[w - (f.size - Len(f.data)) + 1] = PartOf(parts, db, p)[k]
        BY <3>0, <3>1, <4>1 DEF ByteAt
      <4>3. PartOf(base, db, p) = PartOf(parts, db, p)
        BY <1>4, <3>3
      <4>4. CASE ~Touched(file, from, end, p)
        BY <1>0, <3>3, <3>4, <3>5, <3>7, <4>2, <4>3, <4>4
      <4>5. CASE Touched(file, from, end, p)
        <5>1. p \in idxs
          BY <1>0, <1>0a, <1>1, <1>5, <1>6, <3>3, <3>7, <4>5, FilledIsWritten
        <5>2. (IF base[p] = NoPart THEN 0 ELSE base[p][k]) = PartOf(base, db, p)[k]
          <6>1. CASE base[p] = NoPart
            <7>1. PartOf(base, db, p) = Zeros
              BY <1>4, <3>3, <5>1, <6>1
            <7>2. Zeros[k] = 0
              BY <3>3 DEF Zeros
            <7> QED BY <6>1, <7>1, <7>2
          <6>2. CASE base[p] # NoPart
            BY <6>2 DEF PartOf
          <6> QED BY <6>1, <6>2
        <5> QED BY <1>0, <3>3, <3>4, <3>5, <3>7, <4>2, <4>3, <4>5, <5>2
      <4> QED BY <4>4, <4>5
    <3> QED BY <3>6, <3>7
  <2>4. BytesAsWritten(g, over, db, f, o, data)
    BY <2>4a DEF BytesAsWritten
  <2>5. g \in FileT /\ g.kind = file.kind /\ g.meta = file.meta /\ g.size = grown
    BY <2>3, <2>3a
  <2>6. Content(g, over, db) = Files!Written(f, o, data, g.size)
    BY <1>7, <2>1, <2>4, <2>5, ReadsAsWritten
  <2> QED BY <1>0, <1>0c, <1>0d, <2>3, <2>3a, <2>5, <2>6 DEF ShowsWritten, Larger
<1> QED BY <1>10, <1>11

LEMMA NoPartsIs == NoParts \in PartsT /\ \A p \in PartIdx : NoParts[p] = NoPart
BY DEF NoParts, PartsT

(* WriteFile and compactIJson: whatever was there, the data is there. *)
LEMMA ReplaceShows ==
    ASSUME NEW entry \in EntryT, entry.File # NoFile, NEW data \in Seq(Nat), Len(data) <= Room,
           NEW db \in PartsT, NEW f \in ContentT, f.kind = entry.File.kind, f.meta = entry.File.meta,
           NEW new, new = writeAt(entry, 0, data, TRUE)
    PROVE  ShowsWritten(entry, new, db, f, 0, data, Len(data))
<1>0. PICK file, end : file = entry.File /\ end = Len(data)
  OBVIOUS
<1>0a. PICK from : from = Begin(file, 0, 0, end)
  OBVIOUS
<1>0b. PICK over : over = Over(file, NoParts, from, 0, data)
  OBVIOUS
<1>1. file \in FileT /\ end \in Nat /\ end \in 0 .. Room /\ 0 + Len(data) = end /\ 0 \in Nat
  BY <1>0, EntryFields, Sizes
<1>2. BeginsAt(file, 0, 0, end, from)
  BY <1>0a, <1>1, BeginIs
<1>3. /\ from \in Nat /\ 0 <= from
      /\ Circular(file) => end - MaxSize <= from
      /\ from = 0 \/ (Circular(file) /\ from = end - MaxSize)
  BY <1>2, <1>1, Sizes DEF BeginsAt
<1>4. over \in PartsT
  BY <1>0b, <1>3, NoPartsIs, OverIs
<1>5. new = Rewritten(entry, end, over)
  <2>1. ReplacesBy(entry, data, file, end)
    BY <1>0, <1>1, ReplaceIs
  <2> QED BY <1>0a, <1>0b, <2>1 DEF ReplacesBy
<1>6. HasRewritten(entry, end, over, new)
  BY <1>1, <1>4, <1>5, EntryWith
<1>7. PICK g : g = new.File
  OBVIOUS
<1>8. g \in FileT /\ g.kind = file.kind /\ g.meta = file.meta /\ g.size = end
  BY <1>0, <1>6, <1>7 DEF HasRewritten
<1>9. ASSUME NEW w \in Start(g) .. g.size - 1
      PROVE  ByteAt(g, over, db, w) = data[w - 0 + 1] /\ w \in 0 .. 0 + Len(data) - 1
  <2>0. PICK p, k : p = partIdxAtOffset(file, w) /\ k = w % PartSize
    OBVIOUS
  <2>1. /\ Start(g) \in Nat
        /\ Circular(g) => end - MaxSize <= Start(g)
    BY <1>8, FileFields
  <2>2. w \in 0 .. end - 1 /\ w \in Nat
    BY <1>1, <1>8, <1>9, <2>1
  <2>3. partIdxAtOffset(g, w) = p /\ (Circular(file) <=> Circular(g))
    BY <1>8, <2>0 DEF partIdxAtOffset, Circular
  <2>4. Circular(file) => end - MaxSize <= w
    BY <1>1, <1>8, <1>9, <2>1, <2>3, Sizes
  <2>5. w \in from .. end - 1
    BY <1>1, <1>3, <2>2, <2>4, Sizes
  <2>6. ByteOver(file, NoParts, db, from, 0, data, w, p, k)
    BY <1>0, <1>1, <1>3, <2>0, <2>2, <2>4, NoPartsIs, ReadOver
  <2>7. PartOf(over, db, p)[k] = data[w - 0 + 1]
    BY <1>0, <1>0b, <1>1, <2>5, <2>6 DEF ByteOver
  <2>8. ByteAt(g, over, db, w) = PartOf(over, db, p)[k]
    BY <2>0, <2>3 DEF ByteAt
  <2> QED BY <1>0, <1>1, <2>2, <2>7, <2>8
<1>10. BytesAsWritten(g, over, db, f, 0, data)
  BY <1>9 DEF BytesAsWritten
<1>11. Content(g, over, db) = Files!Written(f, 0, data, g.size)
  BY <1>0, <1>1, <1>4, <1>8, <1>10, ReadsAsWritten
<1> QED BY <1>0, <1>6, <1>7, <1>8, <1>11 DEF ShowsWritten, HasRewritten

(* What dbWriteCacheEntry makes of the parts in the database reads as the parts
   in the cache did. *)
Merged(parts, db) == [p \in PartIdx |-> IF parts[p] # NoPart THEN parts[p] ELSE db[p]]

LEMMA SameReading ==
    ASSUME NEW file \in FileT, NEW parts, NEW db, NEW parts2, NEW db2,
           \A p \in PartIdx : PartOf(parts, db, p) = PartOf(parts2, db2, p)
    PROVE  Content(file, parts, db) = Content(file, parts2, db2)
<1>1. ASSUME NEW w \in Nat, w < file.size PROVE ByteAt(file, parts, db, w) = ByteAt(file, parts2, db2, w)
  BY <1>1, FileFields, PartIdxInRange, Sizes DEF ByteAt
<1>2. \A k \in 1 .. file.size - Start(file) : Start(file) + k - 1 \in Nat /\ Start(file) + k - 1 < file.size
  BY FileFields
<1>3. Bytes(file, parts, db) = Bytes(file, parts2, db2)
  BY <1>1, <1>2 DEF Bytes
<1> QED BY <1>3 DEF Content

LEMMA MergedReads ==
    ASSUME NEW file \in FileT, NEW parts \in PartsT, NEW db \in PartsT
    PROVE  /\ Merged(parts, db) \in PartsT
           /\ Content(file, NoParts, Merged(parts, db)) = Content(file, parts, db)
           /\ Content(file, parts, Merged(parts, db)) = Content(file, parts, db)
<1>1. Merged(parts, db) \in PartsT
  BY DEF Merged, PartsT
<1>2. \A p \in PartIdx : /\ PartOf(NoParts, Merged(parts, db), p) = PartOf(parts, db, p)
                         /\ PartOf(parts, Merged(parts, db), p) = PartOf(parts, db, p)
  BY NoPartsIs DEF PartOf, Merged
<1> QED BY <1>1, <1>2, SameReading

-----------------------------------------------------------------------------
(* What a name shows, and what one operation makes of it *)

SavedWith(file, db) == IF file = NoFile THEN NoFile ELSE Content(file, NoParts, db)

ShownWith(entry, file, db) ==
    IF entry.File # NoFile THEN Content(entry.File, entry.DataEntries, db) ELSE SavedWith(file, db)

(* An entry without a file is as makeCacheEntry and clear leave it. *)
EntryOK(entry) ==
    entry \in EntryT /\ (entry.File = NoFile => entry.DataEntries = NoParts /\ entry.FlushErrors = 0)

RecordOK(file, db) == file \in FileT \cup {NoFile} /\ db \in PartsT

(* Entry `old' becomes `new', and what is in the database becomes file2 and db2. *)
Does(old, file, db, new, file2, db2) ==
    LET f == ShownWith(old, file, db)
        g == ShownWith(new, file2, db2)
        s == SavedWith(file, db)
        t == SavedWith(file2, db2)
    IN  \/ Files!Operates(f, g, s, t, old.FlushErrors, new.FlushErrors)
        \/ f = g /\ s = t /\ old.FlushErrors = new.FlushErrors

Acts(old, file, db, new, file2, db2) ==
    EntryOK(new) /\ RecordOK(file2, db2) /\ Does(old, file, db, new, file2, db2)

LEMMA UpdateAllowed ==
    ASSUME NEW f, NEW o \in Offsets \cup {f.size}, o <= f.size, NEW d \in Data
    PROVE  Files!Written(f, o, d, Larger(o + Len(d), f.size)) \in Files!Overwritten(f)
BY DEF Files!Overwritten, Larger

LEMMA ReplaceAllowed ==
    ASSUME NEW f, NEW d \in Data
    PROVE  Files!Written(f, 0, d, Len(d)) \in Files!Replaced(f)
BY DEF Files!Replaced

LEMMA DataIs == \A d \in Data : d \in Seq(Nat) /\ Len(d) <= Room
BY FileStoreAssumption DEF Room

LEMMA SavedIs ==
    ASSUME NEW file, NEW db, RecordOK(file, db)
    PROVE  /\ SavedWith(file, db) = NoFile <=> file = NoFile
           /\ file # NoFile => SavedWith(file, db) = Content(file, NoParts, db)
BY ContentIs, NoPartsIs DEF SavedWith, RecordOK

(* loadFileIntoCache changes nothing that is seen. *)
With(entry, file) == IF entry.File # NoFile THEN entry ELSE [entry EXCEPT !.File = file]

LEMMA WithIs ==
    ASSUME NEW entry, EntryOK(entry), NEW file, NEW db, RecordOK(file, db),
           NEW new, new = With(entry, file), new.File # NoFile,
           NEW f, f = Content(new.File, new.DataEntries, db)
    PROVE  /\ new \in EntryT /\ EntryOK(new) /\ new.FlushErrors = entry.FlushErrors /\ new.File \in FileT
           /\ ShownWith(entry, file, db) = f
           /\ f \in ContentT /\ f # NoFile /\ f.kind = new.File.kind /\ f.meta = new.File.meta
           /\ f.size = new.File.size
<1>1. /\ new \in EntryT /\ new.FlushErrors = entry.FlushErrors
      /\ entry.File # NoFile => new = entry
      /\ entry.File = NoFile => new.File = file /\ new.DataEntries = NoParts
  BY DEF EntryOK, RecordOK, With, EntryT
<1>2. new.File \in FileT /\ EntryOK(new) /\ new.DataEntries \in PartsT
  BY <1>1, EntryFields DEF EntryOK
<1>3. ShownWith(entry, file, db) = f
  BY <1>1 DEF ShownWith, SavedWith
<1>4. f \in ContentT /\ f # NoFile /\ f.kind = new.File.kind /\ f.meta = new.File.meta /\ f.size = new.File.size
  BY <1>2, ContentIs DEF RecordOK
<1> QED BY <1>1, <1>2, <1>3, <1>4

LEMMA NothingActs ==
    ASSUME NEW entry, EntryOK(entry), NEW file, NEW db, RecordOK(file, db)
    PROVE  Acts(entry, file, db, entry, file, db)
BY DEF Acts, Does

LEMMA LoadActs ==
    ASSUME NEW entry, EntryOK(entry), NEW file, NEW db, RecordOK(file, db),
           NEW new, new = With(entry, file), new.File # NoFile
    PROVE  Acts(entry, file, db, new, file, db)
<1>1. /\ EntryOK(new) /\ new.FlushErrors = entry.FlushErrors
      /\ ShownWith(entry, file, db) = Content(new.File, new.DataEntries, db)
  BY WithIs
<1> QED BY <1>1 DEF Acts, Does, ShownWith

LEMMA MakeActs ==
    ASSUME NEW entry, EntryOK(entry), entry.File = NoFile, NEW db \in PartsT, NEW kind \in Kinds,
           NEW file, file = NewFile(kind)
    PROVE  Acts(entry, NoFile, db, entry, file, db)
<1>1. (CHOOSE m \in Metas : TRUE) \in Metas
  BY FileStoreAssumption
<1>2. file \in FileT /\ file.kind = kind /\ file.size = 0 /\ file.meta = CHOOSE m \in Metas : TRUE
  BY <1>1, Sizes DEF NewFile, FileT
<1>3. file # NoFile
  BY <1>2, AFileIsThere
<1>4. PICK f : f = Content(file, NoParts, db)
  OBVIOUS
<1>5. /\ f \in ContentT /\ f.kind = kind /\ f.size = 0 /\ f.meta = (CHOOSE m \in Metas : TRUE)
      /\ Len(f.data) = file.size - Start(file)
  BY <1>2, <1>4, ContentIs, NoPartsIs
<1>6. f.data = <<>>
  <2>1. Start(file) = 0 /\ f.data \in Seq(Nat)
    BY <1>2, <1>5, Sizes DEF Start, ContentT
  <2> QED BY <1>2, <1>5, <2>1
<1>7. f = Files!NewFile(kind)
  BY <1>5, <1>6 DEF Files!NewFile, ContentT
<1>8. /\ ShownWith(entry, NoFile, db) = NoFile /\ ShownWith(entry, file, db) = f /\ SavedWith(file, db) = f
  BY <1>3, <1>4 DEF ShownWith, SavedWith
<1>9. Files!Makes(NoFile, f, SavedWith(NoFile, db), f, entry.FlushErrors, entry.FlushErrors)
  BY <1>7 DEF Files!Makes
<1> QED BY <1>2, <1>8, <1>9 DEF Acts, Does, Files!Operates, RecordOK

LEMMA ClearedIs ==
    ASSUME NEW entry \in EntryT, NEW new, new = Cleared(entry)
    PROVE  /\ EntryOK(new) /\ new.File = NoFile /\ new.FlushErrors = 0
           /\ \A file, db : ShownWith(new, file, db) = SavedWith(file, db)
<1>1. new.File = NoFile /\ new.DataEntries = NoParts /\ new.FlushErrors = 0
  BY DEF Cleared, EntryT
<1>2. 0 \in 0 .. MaxFlushErrors
  BY Sizes
<1>3. new \in EntryT
  BY <1>2, NoPartsIs DEF Cleared, EntryT
<1> QED BY <1>1, <1>3 DEF EntryOK, ShownWith

LEMMA DeleteActs ==
    ASSUME NEW entry, EntryOK(entry), NEW file, NEW db, RecordOK(file, db),
           NEW new, new = Cleared(entry)
    PROVE  Acts(entry, file, db, new, NoFile, NoParts)
<1>1. EntryOK(new) /\ new.FlushErrors = 0 /\ ShownWith(new, NoFile, NoParts) = SavedWith(NoFile, NoParts)
  BY ClearedIs DEF EntryOK
<1>2. SavedWith(NoFile, NoParts) = NoFile
  BY DEF SavedWith
<1> QED BY <1>1, <1>2, NoPartsIs DEF Acts, Does, RecordOK, Files!Operates, Files!Deletes

(* An operation under the lock that changes the entry, not the database *)
LEMMA ChangeActs ==
    ASSUME NEW entry, EntryOK(entry), NEW file, NEW db, RecordOK(file, db),
           NEW loaded, loaded = With(entry, file), loaded.File # NoFile,
           NEW f, f = Content(loaded.File, loaded.DataEntries, db),
           NEW new \in EntryT, new.File # NoFile, new.FlushErrors = loaded.FlushErrors,
           Content(new.File, new.DataEntries, db) \in
               Files!Remarked(f) \cup Files!Overwritten(f) \cup Files!Replaced(f)
    PROVE  Acts(entry, file, db, new, file, db)
<1>1. ShownWith(entry, file, db) = f /\ f # NoFile /\ loaded.FlushErrors = entry.FlushErrors
  BY WithIs
<1>2. PICK g : g = Content(new.File, new.DataEntries, db)
  OBVIOUS
<1>3. ShownWith(new, file, db) = g /\ EntryOK(new)
  BY <1>2 DEF ShownWith, EntryOK
<1>4. Files!Changes(f, g, SavedWith(file, db), SavedWith(file, db), entry.FlushErrors, new.FlushErrors)
  BY <1>1, <1>2 DEF Files!Changes
<1> QED BY <1>1, <1>3, <1>4 DEF Acts, Does, Files!Operates

LEMMA MetaActs ==
    ASSUME NEW entry, EntryOK(entry), NEW file, NEW db, RecordOK(file, db),
           NEW loaded, loaded = With(entry, file), loaded.File # NoFile, NEW meta \in Metas,
           NEW new, new = [loaded EXCEPT !.File.meta = meta]
    PROVE  Acts(entry, file, db, new, file, db)
<1>1. PICK f : f = Content(loaded.File, loaded.DataEntries, db)
  OBVIOUS
<1>2. /\ loaded \in EntryT /\ loaded.File \in FileT /\ f \in ContentT /\ loaded.DataEntries \in PartsT
      /\ f.kind = loaded.File.kind /\ f.size = loaded.File.size
  BY <1>1, WithIs, EntryFields
<1>3. PICK g : g = [loaded.File EXCEPT !.meta = meta]
  OBVIOUS
<1>4. g \in FileT /\ g.kind = loaded.File.kind /\ g.size = loaded.File.size /\ g.meta = meta
  BY <1>2, <1>3 DEF FileT
<1>5. new = [loaded EXCEPT !.File = g]
  BY <1>3
<1>6. /\ new \in EntryT /\ new.File = g /\ new.DataEntries = loaded.DataEntries
      /\ new.FlushErrors = loaded.FlushErrors
  BY <1>2, <1>4, <1>5 DEF EntryT
<1>7. Bytes(g, loaded.DataEntries, db) = f.data
  BY <1>1, <1>4 DEF Content, Bytes, ByteAt, Start, Circular, partIdxAtOffset
<1>8. Content(g, loaded.DataEntries, db) = [f EXCEPT !.meta = meta]
  <2>1. PICK h : h = [f EXCEPT !.meta = meta]
    OBVIOUS
  <2>2. /\ h \in ContentT /\ h.kind = g.kind /\ h.size = g.size /\ h.meta = g.meta
        /\ h.data = Bytes(g, loaded.DataEntries, db)
    BY <1>2, <1>4, <1>7, <2>1 DEF ContentT
  <2> QED BY <2>1, <2>2 DEF Content, ContentT
<1>9. Content(new.File, new.DataEntries, db) \in Files!Remarked(f)
  BY <1>6, <1>8 DEF Files!Remarked
<1> QED BY <1>1, <1>4, <1>6, <1>9, AFileIsThere, ChangeActs

LEMMA UpdateActs ==
    ASSUME NEW entry, EntryOK(entry), NEW file, NEW db, RecordOK(file, db),
           NEW loaded, loaded = With(entry, file), loaded.File # NoFile,
           NEW o \in Offsets \cup {loaded.File.size}, o <= loaded.File.size,
           NEW data \in Data, o + Len(data) <= Room,
           Circular(loaded.File) => loaded.File.size - MaxSize <= o,
           NEW prepared, prepared = PreparedFrom(db, loaded, o, data),
           NEW new, new = writeAt(prepared, o, data, FALSE)
    PROVE  Acts(entry, file, db, new, file, db)
<1>1. PICK f : f = Content(loaded.File, loaded.DataEntries, db)
  OBVIOUS
<1>2. loaded \in EntryT /\ loaded.File \in FileT /\ f.size = loaded.File.size
  BY <1>1, WithIs
<1>3. o \in Nat /\ data \in Seq(Nat) /\ db \in PartsT
  BY <1>2, FileFields, DataIs, FileStoreAssumption DEF RecordOK
<1>4. PICK size : size = loaded.File.size
  OBVIOUS
<1>4a. PICK grown : grown = Larger(o + Len(data), size)
  OBVIOUS
<1>5. ShowsWritten(loaded, new, db, f, o, data, grown)
  BY <1>1, <1>2, <1>3, <1>4, <1>4a, UpdateShows
<1>6. /\ new.FlushErrors = loaded.FlushErrors /\ new \in EntryT /\ new.File # NoFile
      /\ Content(new.File, new.DataEntries, db) = Files!Written(f, o, data, Larger(o + Len(data), f.size))
  BY <1>1, <1>2, <1>4, <1>4a, <1>5 DEF ShowsWritten
<1>7. Files!Written(f, o, data, Larger(o + Len(data), f.size)) \in Files!Overwritten(f)
  BY <1>2, UpdateAllowed
<1> QED BY <1>1, <1>6, <1>7, ChangeActs

LEMMA CompactActs ==
    ASSUME NEW entry, EntryOK(entry), NEW file, NEW db, RecordOK(file, db),
           NEW loaded, loaded = With(entry, file), loaded.File # NoFile, NEW data \in Data,
           NEW new, new = writeAt(loaded, 0, data, TRUE)
    PROVE  Acts(entry, file, db, new, file, db)
<1>1. PICK f : f = Content(loaded.File, loaded.DataEntries, db)
  OBVIOUS
<1>2. loaded \in EntryT /\ f \in ContentT /\ f.kind = loaded.File.kind /\ f.meta = loaded.File.meta
  BY <1>1, WithIs
<1>2a. data \in Seq(Nat) /\ Len(data) <= Room /\ db \in PartsT
  BY DataIs DEF RecordOK
<1>3. ShowsWritten(loaded, new, db, f, 0, data, Len(data))
  BY <1>2, <1>2a, ReplaceShows
<1>4. /\ new.FlushErrors = loaded.FlushErrors /\ new \in EntryT /\ new.File # NoFile
      /\ Content(new.File, new.DataEntries, db) \in Files!Replaced(f)
  BY <1>3, ReplaceAllowed DEF ShowsWritten
<1> QED BY <1>1, <1>4, ChangeActs

(* Entry w is about to be flushed: what it shows, f or what replaced it, stays the
   same when its parts are merged into `base', the parts that are kept. *)
ToFlush(entry, file, db, w, base) ==
    LET f == ShownWith(entry, file, db)
        h == Content(w.File, w.DataEntries, db)
    IN  /\ EntryOK(entry) /\ RecordOK(file, db) /\ EntryOK(w) /\ w.File # NoFile
        /\ w.FlushErrors = entry.FlushErrors
        /\ f # NoFile /\ h \in {f} \cup Files!Replaced(f)
        /\ base \in PartsT /\ Content(w.File, w.DataEntries, base) = h

LEMMA FlushedIs ==
    ASSUME NEW w, EntryOK(w), w.File # NoFile, NEW base \in PartsT, NEW db2, db2 = Merged(w.DataEntries, base),
           NEW h, h = Content(w.File, w.DataEntries, base)
    PROVE  /\ RecordOK(w.File, db2) /\ SavedWith(w.File, db2) = h /\ ShownWith(w, w.File, db2) = h
<1>1. w.File \in FileT /\ w.DataEntries \in PartsT
  BY EntryFields DEF EntryOK
<1>2. db2 \in PartsT /\ Content(w.File, NoParts, db2) = h /\ Content(w.File, w.DataEntries, db2) = h
  BY <1>1, MergedReads
<1> QED BY <1>1, <1>2 DEF RecordOK, SavedWith, ShownWith

LEMMA FlushSucceedsActs ==
    ASSUME NEW entry, NEW file, NEW db, NEW w, NEW base, ToFlush(entry, file, db, w, base),
           NEW new, new = Cleared(w), NEW db2, db2 = Merged(w.DataEntries, base)
    PROVE  Acts(entry, file, db, new, w.File, db2)
<1>1. PICK f, h : f = ShownWith(entry, file, db) /\ h = Content(w.File, w.DataEntries, db)
  OBVIOUS
<1>2. /\ f # NoFile /\ h \in {f} \cup Files!Replaced(f) /\ base \in PartsT
      /\ Content(w.File, w.DataEntries, base) = h /\ EntryOK(w) /\ w.File # NoFile
  BY <1>1 DEF ToFlush
<1>3. RecordOK(w.File, db2) /\ SavedWith(w.File, db2) = h
  BY <1>2, FlushedIs
<1>4. EntryOK(new) /\ new.FlushErrors = 0 /\ ShownWith(new, w.File, db2) = h
  BY <1>2, <1>3, ClearedIs DEF EntryOK
<1>5. Files!Saves(f, h, SavedWith(file, db), h, entry.FlushErrors, 0)
  BY <1>2 DEF Files!Saves
<1> QED BY <1>1, <1>3, <1>4, <1>5 DEF Acts, Does, Files!Operates

LEMMA FlushFailsActs ==
    ASSUME NEW entry, NEW file, NEW db, NEW w, NEW base, ToFlush(entry, file, db, w, base),
           NEW new, new = Failed(w)
    PROVE  Acts(entry, file, db, new, file, db)
<1>1. PICK f, h, s : f = ShownWith(entry, file, db) /\ h = Content(w.File, w.DataEntries, db)
                     /\ s = SavedWith(file, db)
  OBVIOUS
<1>2. /\ f # NoFile /\ h \in {f} \cup Files!Replaced(f) /\ EntryOK(w) /\ w.File # NoFile
      /\ w.FlushErrors = entry.FlushErrors /\ RecordOK(file, db)
  BY <1>1 DEF ToFlush
<1>3. /\ w.FlushErrors \in Nat /\ w.FlushErrors <= MaxFlushErrors /\ MaxFlushErrors \in Nat /\ w \in EntryT
  BY <1>2, EntryFields, Sizes DEF EntryOK
<1>4. CASE w.FlushErrors + 1 > MaxFlushErrors
  <2>1. new = Cleared(w)
    BY <1>4 DEF Failed
  <2>2. EntryOK(new) /\ new.FlushErrors = 0 /\ ShownWith(new, file, db) = s
    BY <1>1, <1>3, <2>1, ClearedIs
  <2>3. Files!GivesUp(f, s, s, s, entry.FlushErrors, 0)
    BY <1>2, <1>3, <1>4 DEF Files!GivesUp
  <2> QED BY <1>1, <1>2, <2>2, <2>3 DEF Acts, Does, Files!Operates
<1>5. CASE ~(w.FlushErrors + 1 > MaxFlushErrors)
  <2>1. new = [w EXCEPT !.FlushErrors = @ + 1] /\ w.FlushErrors + 1 \in 0 .. MaxFlushErrors
    BY <1>3, <1>5 DEF Failed
  <2>2. /\ new \in EntryT /\ new.File = w.File /\ new.DataEntries = w.DataEntries
        /\ new.FlushErrors = w.FlushErrors + 1
    BY <1>3, <2>1 DEF EntryT
  <2>3. EntryOK(new) /\ ShownWith(new, file, db) = h
    BY <1>1, <1>2, <2>2 DEF EntryOK, ShownWith
  <2>4. Files!Saves(f, h, s, s, entry.FlushErrors, new.FlushErrors)
    BY <1>2, <1>3, <1>5, <2>2 DEF Files!Saves
  <2> QED BY <1>1, <1>2, <2>3, <2>4 DEF Acts, Does, Files!Operates
<1> QED BY <1>4, <1>5

LEMMA FlushTimesOutActs ==
    ASSUME NEW entry, NEW file, NEW db, NEW w, NEW base, ToFlush(entry, file, db, w, base),
           NEW db2, db2 = Merged(w.DataEntries, base)
    PROVE  Acts(entry, file, db, w, w.File, db2) /\ Acts(entry, file, db, w, file, db)
<1>1. PICK f, h, s : f = ShownWith(entry, file, db) /\ h = Content(w.File, w.DataEntries, db)
                     /\ s = SavedWith(file, db)
  OBVIOUS
<1>2. /\ f # NoFile /\ h \in {f} \cup Files!Replaced(f) /\ EntryOK(w) /\ w.File # NoFile
      /\ w.FlushErrors = entry.FlushErrors /\ RecordOK(file, db) /\ base \in PartsT
      /\ Content(w.File, w.DataEntries, base) = h
  BY <1>1 DEF ToFlush
<1>3. RecordOK(w.File, db2) /\ SavedWith(w.File, db2) = h /\ ShownWith(w, w.File, db2) = h
  BY <1>2, FlushedIs
<1>4. ShownWith(w, file, db) = h
  BY <1>1, <1>2 DEF ShownWith
<1>5. /\ Files!Saves(f, h, s, h, entry.FlushErrors, w.FlushErrors)
      /\ Files!Saves(f, h, s, s, entry.FlushErrors, w.FlushErrors)
  BY <1>2 DEF Files!Saves
<1> QED BY <1>1, <1>2, <1>3, <1>4, <1>5 DEF Acts, Does, Files!Operates

(* WriteFile flushes what replaced the file, and keeps nothing of the parts there were. *)
LEMMA WriteFileFlushes ==
    ASSUME NEW entry, EntryOK(entry), NEW file, NEW db, RecordOK(file, db),
           NEW loaded, loaded = With(entry, file), loaded.File # NoFile, NEW data \in Data,
           NEW w, w = writeAt(loaded, 0, data, TRUE)
    PROVE  ToFlush(entry, file, db, w, NoParts)
<1>1. PICK f : f = Content(loaded.File, loaded.DataEntries, db)
  OBVIOUS
<1>2. /\ loaded \in EntryT /\ f \in ContentT /\ f.kind = loaded.File.kind /\ f.meta = loaded.File.meta
      /\ f # NoFile /\ ShownWith(entry, file, db) = f /\ loaded.FlushErrors = entry.FlushErrors
  BY <1>1, WithIs
<1>3. data \in Seq(Nat) /\ Len(data) <= Room /\ db \in PartsT /\ NoParts \in PartsT
  BY DataIs, NoPartsIs DEF RecordOK
<1>4. ShowsWritten(loaded, w, db, f, 0, data, Len(data)) /\ ShowsWritten(loaded, w, NoParts, f, 0, data, Len(data))
  <2>1. ShowsWritten(loaded, w, db, f, 0, data, Len(data))
    BY <1>2, <1>3, ReplaceShows
  <2>2. ShowsWritten(loaded, w, NoParts, f, 0, data, Len(data))
    BY <1>2, <1>3, ReplaceShows
  <2> QED BY <2>1, <2>2
<1>5. Files!Written(f, 0, data, Len(data)) \in Files!Replaced(f)
  BY ReplaceAllowed
<1> QED BY <1>2, <1>3, <1>4, <1>5 DEF ToFlush, ShowsWritten, EntryOK

LEMMA FlusherFlushes ==
    ASSUME NEW entry, EntryOK(entry), entry.File # NoFile, NEW file, NEW db, RecordOK(file, db)
    PROVE  ToFlush(entry, file, db, entry, db)
<1>1. entry.File \in FileT /\ entry.DataEntries \in PartsT /\ db \in PartsT
  BY EntryFields DEF EntryOK, RecordOK
<1>2. Content(entry.File, entry.DataEntries, db) # NoFile
  BY <1>1, ContentIs
<1> QED BY <1>1, <1>2 DEF ToFlush, ShownWith
-----------------------------------------------------------------------------
(* The steps *)


ContentInv ==
    /\ dbFile \in [Names -> FileT \cup {NoFile}] /\ dbParts \in [Names -> PartsT]
    /\ \A n \in Names : Cache[n] # NoEntry => EntryOK(entries[Cache[n]])

(* What is read of a name, what is saved of it, and the flushes that failed *)
ContentOf(n)  == IF Cache[n] = NoEntry THEN SavedWith(dbFile[n], dbParts[n])
                 ELSE ShownWith(entries[Cache[n]], dbFile[n], dbParts[n])
SavedOf(n)    == SavedWith(dbFile[n], dbParts[n])
FailuresOf(n) == IF Cache[n] = NoEntry THEN 0 ELSE entries[Cache[n]].FlushErrors

LEMMA FilesShow ==
    /\ \A n \in Names : Shown(n) = ContentOf(n) /\ FileOf(dbFile[n], NoParts, n) = SavedOf(n)
    /\ \A n \in Names : Shown(n)' = ContentOf(n)' /\ FileOf(dbFile[n], NoParts, n)' = SavedOf(n)'
<1>1. ASSUME NEW f, NEW parts, NEW n
      PROVE  FileOf(f, parts, n)' = IF f' = NoFile THEN NoFile ELSE Content(f', parts', dbParts'[n])
  BY DEF FileOf, readFile, Content, Bytes, ByteAt, PartOf, Start
<1> QED BY <1>1, FileOfIs DEF Shown, Dirty, ContentOf, SavedOf, ShownWith, SavedWith

SameFile(n) == ContentOf(n)' = ContentOf(n) /\ SavedOf(n)' = SavedOf(n) /\ FailuresOf(n)' = FailuresOf(n)

OneOperates(n) ==
    Files!Operates(ContentOf(n), ContentOf(n)', SavedOf(n), SavedOf(n)', FailuresOf(n), FailuresOf(n)')

LEMMA NoneChanges ==
    ASSUME \A n \in Names : SameFile(n)
    PROVE  UNCHANGED Files!filesVars
BY FilesShow DEF SameFile, FailuresOf, Files!filesVars

LEMMA OneChanges ==
    ASSUME NEW n \in Names, OneOperates(n) \/ SameFile(n), \A m \in Names \ {n} : SameFile(m)
    PROVE  [Files!FilesNext]_Files!filesVars
<1>1. CASE SameFile(n)
  BY <1>1, NoneChanges
<1>2. CASE OneOperates(n)
  <2>1. Files!FilesNext
    BY <1>2, FilesShow DEF OneOperates, SameFile, FailuresOf, Files!FilesNext
  <2> QED BY <2>1
<1> QED BY <1>1, <1>2

LEMMA EmptyEntryOK == EntryOK(emptyEntry) /\ emptyEntry.File = NoFile /\ emptyEntry.FlushErrors = 0
BY NoPartsIs, Sizes DEF EntryOK, EntryT, emptyEntry

LEMMA ContentInit == FSInit => ContentInv /\ Files!FilesInit
<1> SUFFICES ASSUME FSInit PROVE ContentInv /\ Files!FilesInit
  OBVIOUS
<1>1. ContentInv
  BY NoPartsIs DEF FSInit, ContentInv
<1>2. \A n \in Names : ContentOf(n) = NoFile /\ SavedOf(n) = NoFile /\ FailuresOf(n) = 0
  BY DEF FSInit, ContentOf, SavedOf, FailuresOf, SavedWith
<1>3. Files!FilesInit
  BY <1>2, FilesShow DEF FailuresOf, Files!FilesInit
<1> QED BY <1>1, <1>3

(* The entry a goroutine has pinned *)
Holding(t, n, e) ==
    /\ n \in Names /\ e \in EntryIds /\ e # NoEntry /\ Cache[n] = e
    /\ EntryOK(entries[e]) /\ RecordOK(dbFile[n], dbParts[n])
    /\ \A m \in Names : m # n => Cache[m] # e

LEMMA HeldIs ==
    ASSUME PinInv, ContentInv, NEW t \in Threads, thread[t].step = "pinned",
           NEW n, n = thread[t].name, NEW e, e = thread[t].entry
    PROVE  Holding(t, n, e)
<1>1. e # NoEntry /\ n \in Names /\ Cache[n] = e
  BY DEF PinInv, EntryWhilePinned, HoldersAreRight
<1>2. e \in EntryIds
  BY <1>1 DEF PinInv, PinTypeOK
<1>3. \A m \in Names : m # n => Cache[m] # e
  BY <1>1 DEF PinInv, OneNamePerEntry
<1>4. EntryOK(entries[e]) /\ RecordOK(dbFile[n], dbParts[n])
  BY <1>1 DEF ContentInv, RecordOK
<1> QED BY <1>1, <1>2, <1>3, <1>4 DEF Holding

(* What is in the database of file n becomes `file' and `db'. *)
Stores(n, file, db) == dbFile' = [dbFile EXCEPT ![n] = file] /\ dbParts' = [dbParts EXCEPT ![n] = db]

(* A body under the lock, that does to its file what it may *)
LEMMA BodyActs ==
    ASSUME PinInv, ContentInv, NEW t \in Threads, thread[t].step = "pinned",
           NEW n, n = thread[t].name, NEW e, e = thread[t].entry,
           NEW new, Leaves(t, new),
           NEW file2, NEW db2, Stores(n, file2, db2),
           Acts(entries[e], dbFile[n], dbParts[n], new, file2, db2)
    PROVE  ContentInv' /\ [Files!FilesNext]_Files!filesVars
<1>1. Holding(t, n, e)
  BY HeldIs
<1>2. Cache' = Cache /\ entries' = [entries EXCEPT ![e] = new]
  BY DEF Leaves
<1>3. /\ entries'[e] = new
      /\ \A x \in EntryIds : x # e => entries'[x] = entries[x]
  BY <1>1, <1>2 DEF PinInv, PinTypeOK, Holding
<1>4. /\ dbFile'[n] = file2 /\ dbParts'[n] = db2
      /\ \A m \in Names : m # n => dbFile'[m] = dbFile[m] /\ dbParts'[m] = dbParts[m]
  BY <1>1 DEF ContentInv, Holding, Stores
<1>5. EntryOK(new) /\ RecordOK(file2, db2) /\ Does(entries[e], dbFile[n], dbParts[n], new, file2, db2)
  BY DEF Acts
<1>6. dbFile' \in [Names -> FileT \cup {NoFile}] /\ dbParts' \in [Names -> PartsT]
  BY <1>1, <1>5 DEF ContentInv, RecordOK, Holding, Stores
<1>7. \A m \in Names : Cache[m] # NoEntry => Cache[m] \in EntryIds
  BY DEF PinInv, PinTypeOK
<1>8. ASSUME NEW m \in Names, Cache'[m] # NoEntry PROVE EntryOK(entries'[Cache'[m]])
  BY <1>2, <1>3, <1>5, <1>7, <1>8 DEF ContentInv
<1>9. ContentInv'
  BY <1>6, <1>8 DEF ContentInv
<1>10. ASSUME NEW m \in Names \ {n} PROVE SameFile(m)
  <2>1. Cache[m] # NoEntry => entries'[Cache[m]] = entries[Cache[m]]
    BY <1>1, <1>3, <1>7 DEF Holding
  <2> QED BY <1>2, <1>4, <2>1 DEF SameFile, ContentOf, SavedOf, FailuresOf
<1>11. /\ ContentOf(n) = ShownWith(entries[e], dbFile[n], dbParts[n])
       /\ SavedOf(n) = SavedWith(dbFile[n], dbParts[n]) /\ FailuresOf(n) = entries[e].FlushErrors
  BY <1>1 DEF Holding, ContentOf, SavedOf, FailuresOf
<1>12. /\ ContentOf(n)' = ShownWith(new, file2, db2)
       /\ SavedOf(n)' = SavedWith(file2, db2) /\ FailuresOf(n)' = new.FlushErrors
  BY <1>1, <1>2, <1>3, <1>4 DEF Holding, ContentOf, SavedOf, FailuresOf
<1>13. OneOperates(n) \/ SameFile(n)
  BY <1>5, <1>11, <1>12 DEF Does, OneOperates, SameFile
<1>14. n \in Names
  BY <1>1 DEF Holding
<1>15. [Files!FilesNext]_Files!filesVars
  BY <1>10, <1>13, <1>14, OneChanges
<1> QED BY <1>9, <1>15

(* A body that leaves the database alone *)
LEMMA EntryActs ==
    ASSUME PinInv, ContentInv, NEW t \in Threads, thread[t].step = "pinned",
           NEW n, n = thread[t].name, NEW e, e = thread[t].entry,
           NEW new, Leaves(t, new), dbFile' = dbFile, dbParts' = dbParts,
           Acts(entries[e], dbFile[n], dbParts[n], new, dbFile[n], dbParts[n])
    PROVE  ContentInv' /\ [Files!FilesNext]_Files!filesVars
<1>1. n \in Names
  BY HeldIs DEF Holding
<1>2. PICK file, db : file = dbFile[n] /\ db = dbParts[n]
  OBVIOUS
<1>3. Stores(n, file, db)
  BY <1>1, <1>2 DEF ContentInv, Stores
<1>4. Acts(entries[e], dbFile[n], dbParts[n], new, file, db)
  BY <1>2
<1> QED BY <1>3, <1>4, BodyActs

(* Entries come, empty, and go, without a file; the goroutines do what they
   will: nothing of it is seen. *)
LEMMA NothingIsSeen ==
    ASSUME ContentInv, dbFile' = dbFile, dbParts' = dbParts,
           \A n \in Names :
               /\ Cache'[n] # NoEntry =>
                     \/ Cache[n] # NoEntry /\ entries'[Cache'[n]] = entries[Cache[n]]
                     \/ Cache[n] = NoEntry /\ entries'[Cache'[n]] = emptyEntry
               /\ Cache'[n] = NoEntry => Cache[n] = NoEntry \/ entries[Cache[n]].File = NoFile
    PROVE  ContentInv' /\ UNCHANGED Files!filesVars
<1>1. ContentInv'
  BY EmptyEntryOK DEF ContentInv
<1>2. ASSUME NEW n \in Names PROVE SameFile(n)
  <2>1. CASE Cache'[n] # NoEntry /\ Cache[n] # NoEntry
    BY <2>1 DEF SameFile, ContentOf, SavedOf, FailuresOf
  <2>2. CASE Cache'[n] # NoEntry /\ Cache[n] = NoEntry
    BY <2>2, EmptyEntryOK DEF SameFile, ContentOf, SavedOf, FailuresOf, ShownWith
  <2>3. CASE Cache'[n] = NoEntry /\ Cache[n] # NoEntry
    BY <2>3 DEF SameFile, ContentOf, SavedOf, FailuresOf, ShownWith, ContentInv, EntryOK
  <2>4. CASE Cache'[n] = NoEntry /\ Cache[n] = NoEntry
    BY <2>4 DEF SameFile, ContentOf, SavedOf, FailuresOf
  <2> QED BY <2>1, <2>2, <2>3, <2>4
<1>3. UNCHANGED Files!filesVars
  BY <1>2, NoneChanges
<1> QED BY <1>1, <1>3

LEMMA PinActs ==
    ASSUME PinInv, ContentInv, NEW t, NEW n \in Names, getEntryAndPin(t, n), dbFile' = dbFile, dbParts' = dbParts
    PROVE  ContentInv' /\ UNCHANGED Files!filesVars
<1>1. CASE Cache[n] # NoEntry /\ UNCHANGED <<Cache, entries>>
  BY <1>1, NothingIsSeen
<1>2. CASE Cache[n] = NoEntry
  <2>1. PICK e \in Unused : Cache' = [Cache EXCEPT ![n] = e] /\ entries' = [entries EXCEPT ![e] = emptyEntry]
    BY <1>2 DEF getEntryAndPin
  <2>2. e \in EntryIds /\ e # NoEntry /\ \A m \in Names : Cache[m] # e
    BY <2>1, FileStoreAssumption DEF Unused
  <2>3. Cache'[n] = e /\ \A m \in Names : m # n => Cache'[m] = Cache[m]
    BY <2>1 DEF PinInv, PinTypeOK
  <2>4. entries'[e] = emptyEntry /\ \A x \in EntryIds : x # e => entries'[x] = entries[x]
    BY <2>1, <2>2 DEF PinInv, PinTypeOK
  <2>5. \A m \in Names : Cache[m] # NoEntry => Cache[m] \in EntryIds
    BY DEF PinInv, PinTypeOK
  <2> QED BY <1>2, <2>2, <2>3, <2>4, <2>5, NothingIsSeen
<1> QED BY <1>1, <1>2 DEF getEntryAndPin

LEMMA UnpinActs ==
    ASSUME PinInv, ContentInv, NEW t \in Threads, unpinEntryAndTryDelete(t)
    PROVE  ContentInv' /\ UNCHANGED Files!filesVars
<1>1. dbFile' = dbFile /\ dbParts' = dbParts /\ entries' = entries
  BY DEF unpinEntryAndTryDelete
<1>2. PICK n \in Names : \A m \in Names : \/ Cache'[m] = Cache[m]
                                          \/ m = n /\ Cache'[n] = NoEntry /\ Disposable(Cache[n])
  BY DEF unpinEntryAndTryDelete, PinInv, PinTypeOK, EntryWhilePinned
<1> QED BY <1>1, <1>2, NothingIsSeen DEF Disposable

LEMMA CrashActs ==
    ASSUME ContentInv, Crash
    PROVE  ContentInv' /\ Files!Crash
<1>1. ContentInv'
  BY DEF Crash, ContentInv
<1>2. ASSUME NEW n \in Names
      PROVE  ContentOf(n)' = SavedOf(n) /\ SavedOf(n)' = SavedOf(n) /\ FailuresOf(n)' = 0
  BY DEF Crash, ContentOf, SavedOf, FailuresOf
<1>3. Files!Crash
  BY <1>2, FilesShow DEF FailuresOf, Files!Crash
<1> QED BY <1>1, <1>3

(* The operations: each does to its file what AtomicFiles has an operation do. *)

LEMMA MakeFileActs ==
    ASSUME PinInv, ContentInv, NEW t \in Threads, NEW n, Holds(t, n), NEW kind \in Kinds, MakeFile(t, n, kind)
    PROVE  ContentInv' /\ [Files!FilesNext]_Files!filesVars
<1>1. PICK old, db, e : old = entries[e] /\ db = dbParts[n] /\ e = thread[t].entry
  OBVIOUS
<1>2. n \in Names /\ EntryOK(old) /\ db \in PartsT
  BY <1>1, HeldIs DEF Holds, Holding, RecordOK
<1>3. PICK file : file = NewFile(kind)
  OBVIOUS
<1>4. old.File = NoFile /\ dbFile[n] = NoFile /\ Leaves(t, old)
  BY <1>1, <1>3 DEF MakeFile
<1>5. Acts(old, NoFile, db, old, file, db)
  BY <1>2, <1>3, <1>4, MakeActs
<1>6. Stores(n, file, db)
  BY <1>1, <1>2, <1>3 DEF MakeFile, ContentInv, Stores
<1>7. Acts(entries[e], dbFile[n], dbParts[n], old, file, db)
  BY <1>1, <1>4, <1>5
<1> QED BY <1>1, <1>4, <1>6, <1>7, BodyActs DEF Holds

LEMMA DeleteFileActs ==
    ASSUME PinInv, ContentInv, NEW t \in Threads, NEW n, Holds(t, n), DeleteFile(t, n)
    PROVE  ContentInv' /\ [Files!FilesNext]_Files!filesVars
<1>1. PICK old, db, file, e : old = entries[e] /\ file = dbFile[n] /\ db = dbParts[n] /\ e = thread[t].entry
  OBVIOUS
<1>2. EntryOK(old) /\ RecordOK(file, db)
  BY <1>1, HeldIs DEF Holds, Holding
<1>3. PICK new : new = Cleared(old)
  OBVIOUS
<1>4. Leaves(t, new) /\ Stores(n, NoFile, NoParts)
  BY <1>1, <1>3 DEF DeleteFile, Stores
<1>5. Acts(old, file, db, new, NoFile, NoParts)
  BY <1>2, <1>3, DeleteActs
<1> QED BY <1>1, <1>4, <1>5, BodyActs DEF Holds

LEMMA ChangesNothingActs ==
    ASSUME PinInv, ContentInv, NEW t \in Threads, thread[t].step = "pinned",
           Leaves(t, entries[thread[t].entry]), dbFile' = dbFile, dbParts' = dbParts
    PROVE  ContentInv' /\ [Files!FilesNext]_Files!filesVars
<1>1. PICK old, e, n : old = entries[e] /\ e = thread[t].entry /\ n = thread[t].name
  OBVIOUS
<1>2. EntryOK(old) /\ RecordOK(dbFile[n], dbParts[n])
  BY <1>1, HeldIs DEF Holding
<1>3. Acts(old, dbFile[n], dbParts[n], old, dbFile[n], dbParts[n])
  BY <1>2, NothingActs
<1> QED BY <1>1, <1>3, EntryActs

(* Entry `new' is what an operation, that loaded the file, makes of the entry. *)
ChangesTo(t, n, new) ==
    \A old, file, db, loaded :
        /\ old = entries[thread[t].entry] /\ file = dbFile[n] /\ db = dbParts[n]
        /\ EntryOK(old) /\ RecordOK(file, db) /\ loaded = With(old, file) /\ loaded.File # NoFile
        => Acts(old, file, db, new, file, db)

LEMMA WithFileIs ==
    ASSUME NEW entry, NEW n
    PROVE  WithFile(entry, n) = With(entry, dbFile[n])
BY DEF WithFile, With

LEMMA ChangesActs ==
    ASSUME PinInv, ContentInv, NEW t \in Threads, NEW n, Holds(t, n), NEW new, Changes(t, n, new), ChangesTo(t, n, new)
    PROVE  ContentInv' /\ [Files!FilesNext]_Files!filesVars
<1>1. PICK old, db, file, e : old = entries[e] /\ file = dbFile[n] /\ db = dbParts[n] /\ e = thread[t].entry
  OBVIOUS
<1>2. EntryOK(old) /\ RecordOK(file, db)
  BY <1>1, HeldIs DEF Holds, Holding
<1>3. With(old, file).File # NoFile /\ Leaves(t, new) /\ dbFile' = dbFile /\ dbParts' = dbParts
  BY <1>1, WithFileIs DEF Changes
<1>4. Acts(old, file, db, new, file, db)
  BY <1>1, <1>2, <1>3 DEF ChangesTo
<1>5. thread[t].step = "pinned" /\ n = thread[t].name
  BY DEF Holds
<1>6. Acts(entries[e], dbFile[n], dbParts[n], new, dbFile[n], dbParts[n])
  BY <1>1, <1>4
<1> QED BY <1>1, <1>3, <1>5, <1>6, EntryActs

LEMMA PartsFailToLoadActs ==
    ASSUME PinInv, ContentInv, NEW t \in Threads, NEW n, Holds(t, n), PartsFailToLoad(t, n)
    PROVE  ContentInv' /\ [Files!FilesNext]_Files!filesVars
<1>1. PICK new : new = WithFile(entries[thread[t].entry], n)
  OBVIOUS
<1>2. ChangesTo(t, n, new)
  BY <1>1, WithFileIs, LoadActs DEF ChangesTo
<1>3. Changes(t, n, new)
  BY <1>1 DEF PartsFailToLoad
<1> QED BY <1>2, <1>3, ChangesActs

LEMMA WriteMetaActs ==
    ASSUME PinInv, ContentInv, NEW t \in Threads, NEW n, Holds(t, n), NEW meta \in Metas, WriteMeta(t, n, meta)
    PROVE  ContentInv' /\ [Files!FilesNext]_Files!filesVars
<1>1. PICK entry : entry = WithFile(entries[thread[t].entry], n)
  OBVIOUS
<1>2. PICK new : new = [entry EXCEPT !.File.meta = meta]
  OBVIOUS
<1>3. ChangesTo(t, n, new)
  BY <1>1, <1>2, WithFileIs, MetaActs DEF ChangesTo
<1>4. Changes(t, n, new)
  BY <1>1, <1>2 DEF WriteMeta
<1> QED BY <1>3, <1>4, ChangesActs

(* WriteAt, and AppendData, which writes at the end of the file *)
LEMMA WritesAtActs ==
    ASSUME BeforeWindow = FALSE, PinInv, ContentInv, NEW t \in Threads, NEW n, Holds(t, n),
           NEW entry, entry = WithFile(entries[thread[t].entry], n),
           NEW o \in Offsets \cup {entry.File.size}, NEW data \in Data, WriteAt(t, n, o, data)
    PROVE  ContentInv' /\ [Files!FilesNext]_Files!filesVars
<1>1. /\ o <= entry.File.size /\ o + Len(data) <= Room
      /\ Circular(entry.File) => o >= entry.File.size - MaxSize
  BY DEF WriteAt, Fits, Room
<1>2. PICK prepared : prepared = Prepared(entry, n, o, Len(data))
  OBVIOUS
<1>3. PICK new : new = writeAt(prepared, o, data, FALSE)
  OBVIOUS
<1>4. ASSUME NEW old, NEW file, NEW db, NEW loaded,
             old = entries[thread[t].entry], file = dbFile[n], db = dbParts[n],
             EntryOK(old), RecordOK(file, db), loaded = With(old, file), loaded.File # NoFile
      PROVE  Acts(old, file, db, new, file, db)
  <2>1. loaded = entry
    BY <1>4, WithFileIs
  <2>2. prepared = PreparedFrom(db, loaded, o, data)
    BY <1>2, <1>4, <2>1 DEF Prepared, PreparedFrom, Loaded, LoadedFrom
  <2>3. loaded.File \in FileT
    BY <1>4, WithIs
  <2>4. /\ o \in Offsets \cup {loaded.File.size} /\ o <= loaded.File.size
        /\ Circular(loaded.File) => loaded.File.size - MaxSize <= o
    BY <1>1, <2>1, <2>3, FileFields, FileStoreAssumption
  <2> QED BY <1>1, <1>3, <1>4, <2>2, <2>4, UpdateActs
<1>5. ChangesTo(t, n, new)
  BY <1>4 DEF ChangesTo
<1>6. Changes(t, n, new)
  BY <1>2, <1>3 DEF WriteAt
<1> QED BY <1>5, <1>6, ChangesActs

LEMMA CompactIJsonActs ==
    ASSUME PinInv, ContentInv, NEW t \in Threads, NEW n, Holds(t, n), NEW data \in Data, CompactIJson(t, n, data)
    PROVE  ContentInv' /\ [Files!FilesNext]_Files!filesVars
<1>1. PICK entry : entry = WithFile(entries[thread[t].entry], n)
  OBVIOUS
<1>2. PICK new : new = writeAt(entry, 0, data, TRUE)
  OBVIOUS
<1>3. ChangesTo(t, n, new)
  BY <1>1, <1>2, WithFileIs, CompactActs DEF ChangesTo
<1>4. Changes(t, n, new)
  BY <1>1, <1>2 DEF CompactIJson
<1> QED BY <1>3, <1>4, ChangesActs

(* Flushing an entry: it is written, it fails, or the time is up. *)

Flushes(t, n, w, replace) ==
    FlushSucceeds(t, n, w, replace) \/ FlushFails(t, w) \/ FlushTimesOut(t, n, w, replace)

LEMMA WritesStores ==
    ASSUME ContentInv, NEW n \in Names, NEW w, NEW replace \in BOOLEAN, Writes(n, w, replace),
           NEW base, base = IF replace THEN NoParts ELSE dbParts[n]
    PROVE  Stores(n, w.File, Merged(w.DataEntries, base))
<1>1. CASE replace
  BY <1>1, NoPartsIs DEF Writes, Stores, Merged
<1>2. CASE ~replace
  BY <1>2 DEF Writes, Stores, Merged
<1> QED BY <1>1, <1>2

LEMMA FlushActs ==
    ASSUME PinInv, ContentInv, NEW t \in Threads, NEW n, Holds(t, n), NEW w, NEW replace \in BOOLEAN,
           Flushes(t, n, w, replace),
           NEW base, base = IF replace THEN NoParts ELSE dbParts[n],
           ToFlush(entries[thread[t].entry], dbFile[n], dbParts[n], w, base)
    PROVE  ContentInv' /\ [Files!FilesNext]_Files!filesVars
<1>1. PICK old, db, file, e : old = entries[e] /\ file = dbFile[n] /\ db = dbParts[n] /\ e = thread[t].entry
  OBVIOUS
<1>2. n \in Names /\ thread[t].step = "pinned" /\ n = thread[t].name
  BY HeldIs DEF Holds, Holding
<1>3. ToFlush(old, file, db, w, base)
  BY <1>1
<1>4. PICK db2, file2 : db2 = Merged(w.DataEntries, base) /\ file2 = w.File
  OBVIOUS
<1>5. CASE FlushSucceeds(t, n, w, replace)
  <2>1. PICK new : new = Cleared(w)
    OBVIOUS
  <2>2. Leaves(t, new) /\ Stores(n, file2, db2)
    BY <1>2, <1>4, <1>5, <2>1, WritesStores DEF FlushSucceeds
  <2>3. Acts(old, file, db, new, file2, db2)
    BY <1>3, <1>4, <2>1, FlushSucceedsActs
  <2> QED BY <1>1, <1>2, <2>2, <2>3, BodyActs
<1>6. CASE FlushFails(t, w)
  <2>1. PICK new : new = Failed(w)
    OBVIOUS
  <2>2. Leaves(t, new) /\ dbFile' = dbFile /\ dbParts' = dbParts
    BY <1>6, <2>1 DEF FlushFails
  <2>3. Acts(old, file, db, new, file, db)
    BY <1>3, <2>1, FlushFailsActs
  <2>4. Acts(entries[e], dbFile[n], dbParts[n], new, dbFile[n], dbParts[n])
    BY <1>1, <2>3
  <2> QED BY <1>1, <1>2, <2>2, <2>4, EntryActs
<1>7. CASE FlushTimesOut(t, n, w, replace)
  <2>1. Leaves(t, w)
    BY <1>7 DEF FlushTimesOut
  <2>2. Acts(old, file, db, w, file2, db2) /\ Acts(old, file, db, w, file, db)
    BY <1>3, <1>4, FlushTimesOutActs
  <2>3. CASE Writes(n, w, replace)
    <3>1. Stores(n, file2, db2)
      BY <1>2, <1>4, <2>3, WritesStores
    <3> QED BY <1>1, <1>2, <2>1, <2>2, <3>1, BodyActs
  <2>4. CASE dbFile' = dbFile /\ dbParts' = dbParts
    <3>1. Acts(entries[e], dbFile[n], dbParts[n], w, dbFile[n], dbParts[n])
      BY <1>1, <2>2
    <3> QED BY <1>1, <1>2, <2>1, <2>4, <3>1, EntryActs
  <2> QED BY <1>7, <2>3, <2>4 DEF FlushTimesOut
<1> QED BY <1>5, <1>6, <1>7 DEF Flushes

LEMMA WriteFileActs ==
    ASSUME PinInv, ContentInv, NEW t \in Threads, NEW n, Holds(t, n), NEW data \in Data, WriteFile(t, n, data)
    PROVE  ContentInv' /\ [Files!FilesNext]_Files!filesVars
<1>1. PICK old, db, file : old = entries[thread[t].entry] /\ file = dbFile[n] /\ db = dbParts[n]
  OBVIOUS
<1>2. PICK loaded : loaded = With(old, file)
  OBVIOUS
<1>3. PICK w : w = writeAt(loaded, 0, data, TRUE)
  OBVIOUS
<1>4. loaded.File # NoFile /\ Flushes(t, n, w, TRUE)
  BY <1>1, <1>2, <1>3, WithFileIs DEF WriteFile, Flushes
<1>5. EntryOK(old) /\ RecordOK(file, db)
  BY <1>1, HeldIs DEF Holds, Holding
<1>6. ToFlush(old, file, db, w, NoParts)
  BY <1>2, <1>3, <1>4, <1>5, WriteFileFlushes
<1> QED BY <1>1, <1>4, <1>6, FlushActs

LEMMA FlushEntryActs ==
    ASSUME PinInv, ContentInv, NEW f \in Flushers, FlushEntry(f)
    PROVE  ContentInv' /\ [Files!FilesNext]_Files!filesVars
<1>1. PICK old, n : old = entries[thread[f].entry] /\ n = thread[f].name
  OBVIOUS
<1>2. thread[f].step = "pinned" /\ f \in Threads /\ Holds(f, n)
  BY <1>1 DEF FlushEntry, Threads, Holds
<1>3. CASE Leaves(f, old) /\ dbFile' = dbFile /\ dbParts' = dbParts
  BY <1>1, <1>2, <1>3, ChangesNothingActs
<1>4. CASE old.File # NoFile /\ Flushes(f, n, old, FALSE)
  <2>1. PICK db, file : db = dbParts[n] /\ file = dbFile[n]
    OBVIOUS
  <2>2. EntryOK(old) /\ RecordOK(file, db)
    BY <1>1, <1>2, <2>1, HeldIs DEF Holding
  <2>3. ToFlush(old, file, db, old, db)
    BY <1>4, <2>2, FlusherFlushes
  <2> QED BY <1>1, <1>2, <1>4, <2>1, <2>3, FlushActs
<1> QED BY <1>1, <1>3, <1>4 DEF FlushEntry, Flushes

LEMMA WorksActs ==
    ASSUME BeforeWindow = FALSE, PinInv, ContentInv, NEW c \in Clients, NEW n \in Names, Works(c, n)
    PROVE  ContentInv' /\ [Files!FilesNext]_Files!filesVars
<1>1. c \in Threads /\ Holds(c, n)
  BY DEF Works, Threads
<1>2. ASSUME NEW kind \in Kinds, MakeFile(c, n, kind) PROVE ContentInv' /\ [Files!FilesNext]_Files!filesVars
  BY <1>1, <1>2, MakeFileActs
<1>3. CASE DeleteFile(c, n)
  BY <1>1, <1>3, DeleteFileActs
<1>4. CASE ChangesNothing(c)
  BY <1>1, <1>4, ChangesNothingActs DEF ChangesNothing, Holds
<1>5. CASE PartsFailToLoad(c, n)
  BY <1>1, <1>5, PartsFailToLoadActs
<1>6. ASSUME NEW meta \in Metas, WriteMeta(c, n, meta) PROVE ContentInv' /\ [Files!FilesNext]_Files!filesVars
  BY <1>1, <1>6, WriteMetaActs
<1>7. ASSUME NEW data \in Data, NEW o \in Offsets, WriteAt(c, n, o, data)
      PROVE  ContentInv' /\ [Files!FilesNext]_Files!filesVars
  BY <1>1, <1>7, WritesAtActs
<1>8. ASSUME NEW data \in Data, AppendData(c, n, data) PROVE ContentInv' /\ [Files!FilesNext]_Files!filesVars
  <2>1. PICK entry, o : entry = WithFile(entries[thread[c].entry], n) /\ o = entry.File.size
    OBVIOUS
  <2>2. WriteAt(c, n, o, data)
    BY <1>8, <2>1 DEF AppendData
  <2> QED BY <1>1, <2>1, <2>2, WritesAtActs
<1>9. ASSUME NEW data \in Data, WriteFile(c, n, data) PROVE ContentInv' /\ [Files!FilesNext]_Files!filesVars
  BY <1>1, <1>9, WriteFileActs
<1>10. ASSUME NEW data \in Data, CompactIJson(c, n, data) PROVE ContentInv' /\ [Files!FilesNext]_Files!filesVars
  BY <1>1, <1>10, CompactIJsonActs
<1> QED BY <1>2, <1>3, <1>4, <1>5, <1>6, <1>7, <1>8, <1>9, <1>10 DEF Works

LEMMA ContentStep ==
    ASSUME BeforeWindow = FALSE, PinInv, ContentInv, [FSNext]_fsVars
    PROVE  ContentInv' /\ [Files!FilesNext]_Files!filesVars
<1>1. ASSUME NEW c \in Clients, NEW n \in Names, Works(c, n)
      PROVE  ContentInv' /\ [Files!FilesNext]_Files!filesVars
  BY <1>1, WorksActs
<1>2. ASSUME NEW t \in Threads, unpinEntryAndTryDelete(t)
      PROVE  ContentInv' /\ [Files!FilesNext]_Files!filesVars
  BY <1>2, UnpinActs
<1>3. ASSUME NEW c \in Clients, NEW n \in Names, Enters(c, n)
      PROVE  ContentInv' /\ [Files!FilesNext]_Files!filesVars
  BY <1>3, PinActs DEF Enters
<1>4. ASSUME NEW f \in Flushers, FlushBegins(f) \/ FlushEnds(f)
      PROVE  ContentInv' /\ [Files!FilesNext]_Files!filesVars
  BY <1>4, NothingIsSeen DEF FlushBegins, FlushEnds
<1>5. ASSUME NEW f \in Flushers, FlushEntry(f)
      PROVE  ContentInv' /\ [Files!FilesNext]_Files!filesVars
  BY <1>5, FlushEntryActs
<1>6. ASSUME NEW f \in Flushers, NEW n \in Names, FlushPins(f, n)
      PROVE  ContentInv' /\ [Files!FilesNext]_Files!filesVars
  BY <1>6, PinActs DEF FlushPins
<1>7. CASE Crash
  <2>1. ContentInv' /\ Files!Crash
    BY <1>7, CrashActs
  <2> QED BY <2>1 DEF Files!FilesNext
<1>8. CASE UNCHANGED fsVars
  BY <1>8, NothingIsSeen
<1> QED BY <1>1, <1>2, <1>3, <1>4, <1>5, <1>6, <1>7, <1>8
        DEF FSNext, ClientFinishes, FlusherSteps, Threads

(* The store keeps files as AtomicFiles has them: whatever is cached, loaded in
   parts, flushed, given up or lost in a crash, a file reads as what was written
   to it, one whole operation after the other, and a circular one as the last
   MaxSize bytes of it.  As long as nothing is written before the window of a
   circular file. *)
THEOREM FilesAreAtomic == BeforeWindow = FALSE => (FSSpec => ImplementsAtomicFiles)
<1> SUFFICES ASSUME BeforeWindow = FALSE PROVE FSSpec => ImplementsAtomicFiles
  OBVIOUS
<1>1. FSInit => PinInv /\ ContentInv /\ Files!FilesInit
  BY PinInit, ContentInit
<1>2. PinInv /\ ContentInv /\ [FSNext]_fsVars => PinInv' /\ ContentInv' /\ [Files!FilesNext]_Files!filesVars
  BY PinStep, ContentStep
<1> QED BY <1>1, <1>2, PTL DEF FSSpec, ImplementsAtomicFiles, Files!FilesSpec

=============================================================================
