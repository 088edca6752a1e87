----------------------------- MODULE FileStore -----------------------------
(***************************************************************************)
(* The file store of the server (pkg/filestore): a write-back cache over   *)
(* SQLite.  Every operation pins the cache entry of its file, does its     *)
(* work under the entry's lock, and unpins; the flusher writes the dirty   *)
(* entries to the database, one after the other.                           *)
(*                                                                         *)
(* The body of an operation is one step: nothing else touches the file     *)
(* while the entry's lock is held, as long as all hold the same entry      *)
(* (PinnedIsCached).  A transaction fails or times out at any time.        *)
(***************************************************************************)
EXTENDS Integers, Sequences, FiniteSets

CONSTANTS
    Names, NoFile, Kinds, MaxSize, Metas, Data, Offsets,
    PartSize,       (* partDataSize                                        *)
    MaxParts,       (* bound: parts of a file                              *)
    EntryIds, NoEntry,
    Clients,        (* goroutines that use the store                       *)
    Flushers,       (* runFlusher, and doShutdown                          *)
    MaxFlushErrors, (* 3: one more, and the entry is cleared               *)
    MaxOps,         (* bound: of each name, operations that change the file *)
    MaxFaults,      (* bound: crashes and timeouts                         *)
    BeforeWindow    (* WriteAt also starts before a circular file's window *)

Threads == Clients \cup Flushers

ASSUME FileStoreAssumption ==
    /\ PartSize \in Nat \ {0} /\ MaxSize \in Nat \ {0} /\ MaxSize % PartSize = 0
    /\ Offsets \subseteq Nat /\ BeforeWindow \in BOOLEAN
    /\ IsFiniteSet(Threads) /\ NoEntry \notin EntryIds
    /\ MaxParts \in Nat /\ MaxFlushErrors \in Nat /\ Metas # {}
    /\ \A data \in Data : data \in Seq(Nat) /\ Len(data) <= MaxParts * PartSize
    /\ NoFile \notin [kind : Kinds, size : Nat, meta : Metas]
    /\ NoFile \notin [kind : Kinds, size : Nat, meta : Metas, data : Seq(Nat)]

VARIABLES
    dbFile,       (* db_wave_file: NoFile, or kind, size and meta          *)
    dbParts,      (* db_file_data                                          *)
    Cache,        (* FileStore.Cache                                       *)
    entries,      (* the CacheEntry objects there are: what their Lock is for *)
    PinCount,     (* of each entry; this is what FileStore.Lock is for     *)
    IsFlushing,
    thread,       (* what a goroutine does: step, name and entry           *)
    dirtyKeys,    (* of a flusher: dirtyCacheKeys it has not come to       *)
    ops, faults

pinVars  == <<Cache, PinCount>>
fsVars   == <<dbFile, dbParts, pinVars, entries, IsFlushing, thread, dirtyKeys, ops, faults>>

PartIdx == 0 .. MaxParts - 1
NoPart  == [k \in {} |-> 0]
Zeros   == [k \in 0 .. PartSize - 1 |-> 0]
NoParts == [p \in PartIdx |-> NoPart]

emptyEntry == [File |-> NoFile, DataEntries |-> NoParts, FlushErrors |-> 0]
Idle       == [step |-> "idle", name |-> NoFile, entry |-> NoEntry]
Flushing   == [Idle EXCEPT !.step = "loop"]

FSInit ==
    /\ dbFile = [n \in Names |-> NoFile] /\ dbParts = [n \in Names |-> NoParts]
    /\ Cache = [n \in Names |-> NoEntry] /\ PinCount = [e \in EntryIds |-> 0]
    /\ entries = [e \in EntryIds |-> emptyEntry]
    /\ IsFlushing = FALSE
    /\ thread = [t \in Threads |-> Idle] /\ dirtyKeys = [f \in Flushers |-> {}]
    /\ ops = [n \in Names |-> 0] /\ faults = 0

-----------------------------------------------------------------------------
(* Parts of a file *)

Circular(file) == file.kind = "circular"

partIdxAtOffset(file, o) ==
    IF Circular(file) THEN (o \div PartSize) % (MaxSize \div PartSize) ELSE o \div PartSize

(* Mutation of IncompleteParts: a part that is written from its start is taken
   to be filled. *)
IncompleteAtStart(file, o, len) ==
    IF o % PartSize = 0 THEN {} ELSE {partIdxAtOffset(file, o)}

(* computePartMap and incompletePartsFromMap: the parts that len bytes from o
   do not fill; of those that come up twice, as the last time. *)
IncompleteParts(file, o, len) ==
    LET end      == o + len
        segments == o \div PartSize .. (end - 1) \div PartSize
        fills(q) == o <= q * PartSize /\ (q + 1) * PartSize <= end
    IN  {p \in PartIdx :
            \E q \in segments :
                /\ partIdxAtOffset(file, q * PartSize) = p /\ ~fills(q)
                /\ \A r \in segments :
                      r > q => partIdxAtOffset(file, r * PartSize) # p}
(* loadDataPartsIntoCache *)
Loaded(n, parts, idxs) ==
    [p \in PartIdx |-> IF p \in idxs /\ parts[p] = NoPart THEN dbParts[n][p] ELSE parts[p]]

(* writeAt: what is before the window of a circular file is cut off, and what
   would not fit into it; the rest goes into parts. *)
writeAt(entry, o, data, replace) ==
    LET file  == entry.File
        size  == IF replace THEN 0 ELSE file.size
        end   == o + Len(data)
        from  == IF ~Circular(file) THEN o
                 ELSE CHOOSE p \in {o, size - MaxSize, end - MaxSize} :
                          \A q \in {o, size - MaxSize, end - MaxSize} : q <= p
        base  == IF replace THEN NoParts ELSE entry.DataEntries
        at(p, k) == {w \in from .. end - 1 : partIdxAtOffset(file, w) = p /\ w % PartSize = k}
        part(p)  == [k \in 0 .. PartSize - 1 |->
                        IF at(p, k) # {} THEN data[(CHOOSE w \in at(p, k) : TRUE) - o + 1]
                        ELSE IF base[p] = NoPart THEN 0 ELSE base[p][k]]
    IN  IF Circular(file) /\ end <= size - MaxSize THEN entry
        ELSE [entry EXCEPT
                !.File.size = IF end > size \/ replace THEN end ELSE size,
                !.DataEntries = [p \in PartIdx |->
                    IF \E w \in from .. end - 1 : partIdxAtOffset(file, w) = p
                    THEN part(p) ELSE base[p]]]

(* readAt of the whole file, with the parts in the cache over those in the
   database *)
readFile(file, parts, n) ==
    LET start   == IF Circular(file) /\ file.size > MaxSize THEN file.size - MaxSize ELSE 0
        data(p) == IF parts[p] # NoPart THEN parts[p]
                   ELSE IF dbParts[n][p] # NoPart THEN dbParts[n][p] ELSE Zeros
    IN  [k \in 1 .. file.size - start |->
            data(partIdxAtOffset(file, start + k - 1))[(start + k - 1) % PartSize]]

-----------------------------------------------------------------------------
(* Pinning *)

(* An entry nobody refers to: where makeCacheEntry puts a new one *)
Unused == {e \in EntryIds : /\ \A n \in Names : Cache[n] # e
                            /\ \A t \in Threads : thread[t].entry # e}

getEntryAndPin(t, n) ==
    /\ \/ /\ Cache[n] # NoEntry
          /\ PinCount' = [PinCount EXCEPT ![Cache[n]] = @ + 1]
          /\ UNCHANGED <<Cache, entries>>
       \/ /\ Cache[n] = NoEntry /\ Unused # {}
          /\ LET e == CHOOSE e \in Unused : TRUE
             IN  /\ Cache' = [Cache EXCEPT ![n] = e]
                 /\ entries' = [entries EXCEPT ![e] = emptyEntry]
                 /\ PinCount' = [PinCount EXCEPT ![e] = 1]
    /\ thread' = [thread EXCEPT ![t] = [step |-> "pinned", name |-> n, entry |-> Cache'[n]]]

(* Mutation of Disposable: an entry another goroutine has pinned is removed. *)
DisposableThoughPinned(e) == entries[e].File = NoFile

(* ... once it is not pinned any more *)
Disposable(e) == PinCount[e] <= 1 /\ entries[e].File = NoFile

unpinEntryAndTryDelete(t) ==
    /\ thread[t].step = "done"
    /\ thread' = [thread EXCEPT ![t] = IF t \in Flushers THEN Flushing ELSE Idle]
    /\ LET n == thread[t].name
           e == Cache[n]
       IN  IF e = NoEntry THEN UNCHANGED pinVars
           ELSE /\ PinCount' = [PinCount EXCEPT ![e] = @ - 1]
                /\ Cache' = IF Disposable(e) THEN [Cache EXCEPT ![n] = NoEntry] ELSE Cache
    /\ UNCHANGED <<entries, dbFile, dbParts, IsFlushing, dirtyKeys, ops, faults>>

-----------------------------------------------------------------------------
(* The bodies of the operations, under the lock of the entry *)

Holds(t, n) == thread[t].step = "pinned" /\ thread[t].name = n

(* Thread t leaves its entry as `entry'. *)
Leaves(t, entry) ==
    /\ entries' = [entries EXCEPT ![thread[t].entry] = entry]
    /\ thread' = [thread EXCEPT ![t].step = "done"]
    /\ UNCHANGED <<pinVars, IsFlushing>>

Cleared(entry) == [entry EXCEPT !.File = NoFile, !.DataEntries = NoParts, !.FlushErrors = 0]

(* loadFileIntoCache *)
WithFile(entry, n) == IF entry.File # NoFile THEN entry ELSE [entry EXCEPT !.File = dbFile[n]]

NewFile(kind) == [kind |-> kind, size |-> 0, meta |-> CHOOSE m \in Metas : TRUE]

MakeFile(t, n, kind) ==
    LET entry == entries[thread[t].entry]
    IN  /\ entry.File = NoFile /\ dbFile[n] = NoFile
        /\ dbFile' = [dbFile EXCEPT ![n] = NewFile(kind)]
        /\ Leaves(t, entry)
        /\ UNCHANGED <<dbParts, dirtyKeys, ops, faults>>

DeleteFile(t, n) ==
    /\ dbFile' = [dbFile EXCEPT ![n] = NoFile] /\ dbParts' = [dbParts EXCEPT ![n] = NoParts]
    /\ Leaves(t, Cleared(entries[thread[t].entry]))
    /\ UNCHANGED <<dirtyKeys, ops, faults>>

(* Reads, operations on a file that is not there, and operations whose first
   read of the database fails *)
ChangesNothing(t) ==
    /\ Leaves(t, entries[thread[t].entry])
    /\ UNCHANGED <<dbFile, dbParts, dirtyKeys, ops, faults>>

(* The operations below load the file first; the parts may fail to load. *)
Changes(t, n, entry) ==
    /\ WithFile(entries[thread[t].entry], n).File # NoFile
    /\ ops[n] < MaxOps[n] /\ ops' = [ops EXCEPT ![n] = @ + 1]
    /\ Leaves(t, entry)
    /\ UNCHANGED <<dbFile, dbParts, dirtyKeys, faults>>

PartsFailToLoad(t, n) == Changes(t, n, WithFile(entries[thread[t].entry], n))

WriteMeta(t, n, meta) ==
    LET entry == WithFile(entries[thread[t].entry], n)
    IN  Changes(t, n, [entry EXCEPT !.File.meta = meta])

(* The entry with what len bytes at o do not fill *)
Prepared(entry, n, o, len) ==
    [entry EXCEPT !.DataEntries = Loaded(n, @, IncompleteParts(entry.File, o, len))]

Fits(o, data) == o + Len(data) <= MaxParts * PartSize

WriteAt(t, n, o, data) ==
    LET entry == WithFile(entries[thread[t].entry], n)
        file  == entry.File
    IN  /\ file # NoFile /\ o <= file.size /\ Fits(o, data)
        /\ BeforeWindow \/ ~Circular(file) \/ o >= file.size - MaxSize
        /\ Changes(t, n, writeAt(Prepared(entry, n, o, Len(data)), o, data, FALSE))

AppendData(t, n, data) ==
    LET entry == WithFile(entries[thread[t].entry], n)
    IN  entry.File # NoFile /\ WriteAt(t, n, entry.File.size, data)

(* compactIJson does not flush, though it may make the file shorter. *)
CompactIJson(t, n, data) ==
    LET entry == WithFile(entries[thread[t].entry], n)
    IN  /\ entry.File # NoFile /\ entry.File.kind = "ijson" /\ Len(data) <= entry.File.size
        /\ Changes(t, n, writeAt(entry, 0, data, TRUE))

-----------------------------------------------------------------------------
(* Writing to the database *)

(* dbWriteCacheEntry; `replace' deletes the parts there were. *)
Writes(n, entry, replace) ==
    /\ dbFile' = [dbFile EXCEPT ![n] = entry.File]
    /\ dbParts' = [dbParts EXCEPT ![n] =
            [p \in PartIdx |-> IF entry.DataEntries[p] # NoPart THEN entry.DataEntries[p]
                               ELSE IF replace THEN NoPart ELSE dbParts[n][p]]]

Failed(entry) == IF entry.FlushErrors + 1 > MaxFlushErrors THEN Cleared(entry)
                 ELSE [entry EXCEPT !.FlushErrors = @ + 1]

(* flushToDB of an entry that has a file: it is written, ... *)
FlushSucceeds(t, n, entry, replace) ==
    /\ dbFile[n] # NoFile /\ Writes(n, entry, replace)
    /\ Leaves(t, Cleared(entry)) /\ UNCHANGED faults

(* ... cannot be written, ... *)
FlushFails(t, entry) == Leaves(t, Failed(entry)) /\ UNCHANGED <<dbFile, dbParts, faults>>

(* ... or the time is up, and it was written or not. *)
FlushTimesOut(t, n, entry, replace) ==
    /\ faults < MaxFaults /\ faults' = faults + 1
    /\ Leaves(t, entry)
    /\ \/ dbFile[n] # NoFile /\ Writes(n, entry, replace)
       \/ UNCHANGED <<dbFile, dbParts>>

WriteFile(t, n, data) ==
    LET entry == WithFile(entries[thread[t].entry], n)
    IN  /\ entry.File # NoFile
        /\ ops[n] < MaxOps[n] /\ ops' = [ops EXCEPT ![n] = @ + 1]
        /\ LET written == writeAt(entry, 0, data, TRUE)
           IN  FlushSucceeds(t, n, written, TRUE) \/ FlushFails(t, written)
                 \/ FlushTimesOut(t, n, written, TRUE)
        /\ UNCHANGED dirtyKeys

Dirty(n) == Cache[n] # NoEntry /\ entries[Cache[n]].File # NoFile

(* Mutation of getDirtyCacheKeys: files that are in use are left for later. *)
DirtyAndFree == {n \in Names : Dirty(n) /\ PinCount[Cache[n]] = 0}

getDirtyCacheKeys == {n \in Names : Dirty(n)}

(* FlushCache: setUnlessFlushing, and a copy of the dirty keys *)
FlushBegins(f) ==
    /\ thread[f].step = "idle" /\ ~IsFlushing
    /\ \E n \in Names : Dirty(n)
    /\ IsFlushing' = TRUE
    /\ thread' = [thread EXCEPT ![f] = Flushing]
    /\ dirtyKeys' = [dirtyKeys EXCEPT ![f] = getDirtyCacheKeys]
    /\ UNCHANGED <<dbFile, dbParts, pinVars, entries, ops, faults>>

FlushPins(f, n) ==
    /\ thread[f].step = "loop" /\ n \in dirtyKeys[f]
    /\ dirtyKeys' = [dirtyKeys EXCEPT ![f] = @ \ {n}]
    /\ getEntryAndPin(f, n)
    /\ UNCHANGED <<dbFile, dbParts, IsFlushing, ops, faults>>

(* An entry that was written, deleted or given up meanwhile is passed over; an
   error, or the end of the time, ends the loop. *)
FlushEntry(f) ==
    LET n     == thread[f].name
        entry == entries[thread[f].entry]
    IN  /\ thread[f].step = "pinned"
        /\ \/ /\ entry.File = NoFile
              /\ Leaves(f, entry) /\ UNCHANGED <<dbFile, dbParts, dirtyKeys, faults>>
           \/ /\ entry.File # NoFile
              /\ \/ FlushSucceeds(f, n, entry, FALSE) /\ UNCHANGED dirtyKeys
                 \/ /\ FlushFails(f, entry) \/ FlushTimesOut(f, n, entry, FALSE)
                    /\ dirtyKeys' = [dirtyKeys EXCEPT ![f] = {}]
        /\ UNCHANGED ops

FlushEnds(f) ==
    /\ thread[f].step = "loop" /\ dirtyKeys[f] = {}
    /\ thread' = [thread EXCEPT ![f] = Idle] /\ IsFlushing' = FALSE
    /\ UNCHANGED <<dbFile, dbParts, pinVars, entries, dirtyKeys, ops, faults>>

-----------------------------------------------------------------------------

(* withLock, on its way in *)
Enters(c, n) ==
    /\ thread[c].step = "idle"
    /\ getEntryAndPin(c, n)
    /\ UNCHANGED <<dbFile, dbParts, IsFlushing, dirtyKeys, ops, faults>>

Works(c, n) ==
    /\ Holds(c, n)
    /\ \/ \E kind \in Kinds : MakeFile(c, n, kind)
       \/ DeleteFile(c, n) \/ ChangesNothing(c) \/ PartsFailToLoad(c, n)
       \/ \E meta \in Metas : WriteMeta(c, n, meta)
       \/ \E data \in Data :
              \/ \E o \in Offsets : WriteAt(c, n, o, data)
              \/ AppendData(c, n, data) \/ WriteFile(c, n, data) \/ CompactIJson(c, n, data)

ClientFinishes(c) == (\E n \in Names : Works(c, n)) \/ unpinEntryAndTryDelete(c)

FlusherSteps(f) ==
    \/ FlushBegins(f) \/ FlushEntry(f) \/ FlushEnds(f) \/ unpinEntryAndTryDelete(f)
    \/ \E n \in Names : FlushPins(f, n)

(* The server stops, in the middle of anything. *)
Crash ==
    /\ faults < MaxFaults /\ faults' = faults + 1
    /\ Cache' = [n \in Names |-> NoEntry] /\ PinCount' = [e \in EntryIds |-> 0]
    /\ entries' = [e \in EntryIds |-> emptyEntry]
    /\ IsFlushing' = FALSE
    /\ thread' = [t \in Threads |-> Idle] /\ dirtyKeys' = [f \in Flushers |-> {}]
    /\ UNCHANGED <<dbFile, dbParts, ops>>

FSNext ==
    \/ \E c \in Clients : ClientFinishes(c) \/ \E n \in Names : Enters(c, n)
    \/ \E f \in Flushers : FlusherSteps(f)
    \/ Crash

FSSpec == FSInit /\ [][FSNext]_fsVars

(* What holds an entry lets go of it; the flusher runs on and on. *)
FairFSSpec ==
    /\ FSSpec
    /\ \A c \in Clients : WF_fsVars(ClientFinishes(c))
    /\ \A f \in Flushers : WF_fsVars(FlusherSteps(f))

-----------------------------------------------------------------------------
(* Properties *)

(* Who works on a file holds the entry that is in the cache, so that all hold
   the same lock; and an entry stays no longer than it is held or dirty. *)
PinnedIsCached ==
    /\ \A t \in Threads : thread[t].entry # NoEntry => Cache[thread[t].name] = thread[t].entry
    /\ \A n \in Names : Cache[n] # NoEntry =>
          /\ PinCount[Cache[n]] = Cardinality({t \in Threads : thread[t].entry = Cache[n]})
          /\ PinCount[Cache[n]] = 0 => entries[Cache[n]].File # NoFile

(* What the store shows is what AtomicFiles says, in the window of a circular
   file too, whether it is in the cache, in the database or in both. *)
FileOf(f, parts, n) ==
    IF f = NoFile THEN NoFile
    ELSE [kind |-> f.kind, size |-> f.size, meta |-> f.meta, data |-> readFile(f, parts, n)]

Shown(n) == IF Dirty(n) THEN FileOf(entries[Cache[n]].File, entries[Cache[n]].DataEntries, n)
            ELSE FileOf(dbFile[n], NoParts, n)

Files == INSTANCE AtomicFiles WITH
    MaxFailures <- MaxFlushErrors + 1,
    content  <- [n \in Names |-> Shown(n)],
    saved    <- [n \in Names |-> FileOf(dbFile[n], NoParts, n)],
    failures <- [n \in Names |-> IF Cache[n] = NoEntry THEN 0 ELSE entries[Cache[n]].FlushErrors]

ImplementsAtomicFiles == Files!FilesSpec

(* What is written goes to the database in the end, or is given up. *)
EventuallyFlushed == \A n \in Names : Dirty(n) ~> ~Dirty(n)
=============================================================================
