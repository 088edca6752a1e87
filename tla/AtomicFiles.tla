---------------------------- MODULE AtomicFiles ----------------------------
(***************************************************************************)
(* What the file store promises (pkg/filestore/blockstore.go): files that  *)
(* change one whole operation at a time.  A file is as large as all that   *)
(* was written to it; a circular file keeps the last MaxSize bytes.  What  *)
(* was written since the last save goes when the server crashes, or when   *)
(* saving fails MaxFailures times.                                         *)
(***************************************************************************)
EXTENDS Integers, Sequences

CONSTANTS
    Names, NoFile,
    Kinds,          (* what MakeFile creates: "plain", "circular", "ijson" *)
    MaxSize,        (* of a circular file                                   *)
    Metas,          (* values of a file's metadata                          *)
    Data,           (* what is written: sequences of bytes                  *)
    Offsets,
    MaxFailures     (* saves that may fail before what is not saved is given up *)

VARIABLES content,   (* of each name: NoFile, or what is read             *)
          saved,     (* the same after a crash                            *)
          failures   (* saves that failed, since the last that did not    *)

filesVars == <<content, saved, failures>>

FilesInit ==
    /\ content = [n \in Names |-> NoFile] /\ saved = [n \in Names |-> NoFile]
    /\ failures = [n \in Names |-> 0]

-----------------------------------------------------------------------------
(* What operations make of a file f *)

NewFile(kind) == [kind |-> kind, size |-> 0, meta |-> CHOOSE m \in Metas : TRUE, data |-> <<>>]

(* d written at offset o, and the file cut to `size' *)
Written(f, o, d, size) ==
    LET kept   == IF f.kind = "circular" /\ size > MaxSize THEN MaxSize ELSE size
        old(p) == f.data[p - (f.size - Len(f.data)) + 1]
    IN  [f EXCEPT !.size = size,
                  !.data = [k \in 1..kept |->
                                LET p == size - kept + k - 1
                                IN  IF p \in o .. o + Len(d) - 1 THEN d[p - o + 1] ELSE old(p)]]

Overwritten(f) ==
    {Written(f, o, d, IF o + Len(d) > f.size THEN o + Len(d) ELSE f.size) :
        o \in {off \in Offsets \cup {f.size} : off <= f.size}, d \in Data}

(* WriteFile; and an ijson file is compacted: other bytes, that say the same. *)
Replaced(f) == {Written(f, 0, d, Len(d)) : d \in Data}

Remarked(f) == {[f EXCEPT !.meta = m] : m \in Metas}

-----------------------------------------------------------------------------
(* Steps of one file: `f' and `g' are its content, `s' and `t' what is saved
   of it, `k' and `l' the failures, before and after. *)

Makes(f, g, s, t, k, l) == f = NoFile /\ g \in {NewFile(kind) : kind \in Kinds} /\ t = g /\ l = k

Deletes(f, g, s, t, k, l) == g = NoFile /\ t = NoFile /\ l = 0

Changes(f, g, s, t, k, l) ==
    f # NoFile /\ t = s /\ l = k /\ g \in Remarked(f) \cup Overwritten(f) \cup Replaced(f)

(* Of a save, maybe of what was just written, comes nothing if it fails for
   the last time; one that times out may have happened, and does not count. *)
Saves(f, g, s, t, k, l) ==
    /\ f # NoFile
    /\ \/ t = g /\ l = 0
       \/ k + 1 < MaxFailures /\ t = s /\ l = k + 1
       \/ t \in {s, g} /\ l = k
    /\ g = f \/ g \in Replaced(f)

GivesUp(f, g, s, t, k, l) == f # NoFile /\ k + 1 = MaxFailures /\ g = s /\ t = s /\ l = 0

Operates(f, g, s, t, k, l) ==
    \/ Makes(f, g, s, t, k, l) \/ Deletes(f, g, s, t, k, l) \/ Changes(f, g, s, t, k, l)
    \/ Saves(f, g, s, t, k, l) \/ GivesUp(f, g, s, t, k, l)

Crash == content' = saved /\ failures' = [n \in Names |-> 0] /\ UNCHANGED saved

(* One file changes, or the server crashes. *)
FilesNext ==
    \/ Crash
    \/ \E n \in Names :
          /\ Operates(content[n], content'[n], saved[n], saved'[n], failures[n], failures'[n])
          /\ \A m \in Names \ {n} : content'[m] = content[m] /\ saved'[m] = saved[m]
                                                           /\ failures'[m] = failures[m]

FilesSpec == FilesInit /\ [][FilesNext]_filesVars
=============================================================================
