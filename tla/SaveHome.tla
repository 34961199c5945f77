------------------------------ MODULE SaveHome ------------------------------
(* Where a save puts a target's work, and where `session restart` looks for  *)
(* it (_save_database, TargetManager.note_database, the reload in admin.py). *)
(* Binary Ninja re-homes a view to the database it has just written; the     *)
(* bridge puts the old filename back, so that selectors stay, and has to     *)
(* remember by itself which database holds the work.  A restart reopens that *)
(* database, or the view's filename when it remembers none.                  *)
(*                                                                           *)
(* One bridge with its views of one binary.  A save holds the views          *)
(* exclusively (BridgeLocks), so the only one to act in the middle of it is  *)
(* another bridge that shares the cache directory.  Work is a set of changes *)
(* and only grows.  Of the ledgers a save writes, the module keeps the       *)
(* restart identity: those that pair selectors and word notes are left out.  *)
EXTENDS Naturals

CONSTANTS Views, Changes, Faults

\* What a run may leave out:
\*   "restore"   the filename of a view that has another database on record
\*               cannot be put back
\*   "rehome"    a view stays re-homed to a fallback that could not be written
\*   "inPlace"   a database view's own file cannot be written
\*   "window"    another bridge creates the entry between the check and the write
\*   "shared"    another bridge that loaded an entry saves it again
\*   "hardLink"  a database view is saved through a hard link of its own file
AllFaults == {"restore", "rehome", "inPlace", "window", "shared", "hardLink"}

ASSUME HomeAssumption == Faults \subseteq AllFaults

CacheEntries == {"raw.cache", "raw.bndb.cache"}
Databases == {"raw.bndb", "link", "export"} \cup CacheEntries
Files == {"raw"} \cup Databases

VARIABLES
    exists,     \* files on disk
    disk,       \* what each file holds; a raw file holds no work
    linked,     \* "link" is a hard link of "raw.bndb"
    filename,   \* file.filename of each view; None when it is closed
    recorded,   \* _database_paths
    work,       \* what the view holds
    dirty,      \* _dirty_view_ids
    saved,      \* what a plain save, not an export, last reported as saved
    pending     \* the save whose first write failed: its view, and its filename

files == <<exists, disk, linked>>
view == <<filename, recorded, work, dirty, saved>>
vars == <<files, view, pending>>

None == "none"
NoSave == [by |-> None, home |-> None]

TypeOK ==
    /\ exists \subseteq Files
    /\ disk \in [Files -> SUBSET Changes]
    /\ linked \in BOOLEAN
    /\ filename \in [Views -> Files \cup {None}]
    /\ recorded \in [Views -> Databases \cup {None}]
    /\ work \in [Views -> SUBSET Changes]
    /\ dirty \in [Views -> BOOLEAN]
    /\ saved \in [Views -> SUBSET Changes]
    /\ pending \in {NoSave} \cup [by : Views, home : Files]

Open == {v \in Views : filename[v] # None}

\* Earlier runs may have left databases behind, a hard link among them.  Bound:
\* they hold the same work, and none of them is an export.
Init ==
    /\ exists \in {{"raw"} \cup S : S \in SUBSET {"raw.bndb", "link", "raw.cache"}}
    /\ \E old \in {{}} \cup {{c} : c \in Changes} :
          disk = [f \in Files |-> IF f \in exists \ {"raw"} THEN old ELSE {}]
    /\ linked \in BOOLEAN
    /\ linked => {"raw.bndb", "link"} \subseteq exists
    /\ filename = [v \in Views |-> None]
    /\ recorded = [v \in Views |-> None]
    /\ work = [v \in Views |-> {}]
    /\ dirty = [v \in Views |-> FALSE]
    /\ saved = [v \in Views |-> {}]
    /\ pending = NoSave

-----------------------------------------------------------------------------
(* Paths.                                                                    *)

\* _same_file, on the disk with or without the hard link.
SameFile(f, g, hard) == f = g \/ (hard /\ {f, g} = {"raw.bndb", "link"})

DefaultPath(f) == IF f = "raw" THEN "raw.bndb" ELSE f

\* _cache_bndb_path: one entry per name.  Bound: only a view of these two files
\* falls back, see MayFail.
CachePath(f) == IF f = "raw" THEN "raw.cache" ELSE "raw.bndb.cache"

\* Decided before the write, which gives the destination an inode of its own.
OwnDatabase(v, out) ==
    \/ SameFile(out, filename[v], linked)
    \/ filename[v] = "raw" /\ SameFile(out, "raw.bndb", linked)
    \/ out = CachePath(filename[v])

\* open_target_for_path: the file, or the recorded database, of another target.
Collides(v, out) ==
    \E w \in Open \ {v} : \/ SameFile(filename[w], out, linked)
                          \/ SameFile(recorded[w], out, linked)

\* The mutant writes whatever sits in the entry (#956).
HoldsAnything(v, entry) == FALSE
HoldsOtherWork(v, entry) ==
    entry \in exists /\ entry \notin {filename[v], recorded[v]}

RestartPath(v) == IF recorded[v] # None THEN recorded[v] ELSE filename[v]

-----------------------------------------------------------------------------
(* Saving.                                                                   *)

Write(f, changes) ==
    /\ exists' = exists \cup {f}
    /\ disk' = [disk EXCEPT ![f] = changes]
    /\ linked' = (linked /\ f \notin {"raw.bndb", "link"})

Put(var, v, x) == [var EXCEPT ![v] = x]

\* _note_written: nothing is recorded when the file is the live filename.  The
\* mutant runs before the filename is put back (#857): it always is.
NotedBeforeRestore(v, out, home) == recorded[v]
Noted(v, out, home) == IF SameFile(home, out, linked') THEN recorded[v] ELSE out

StaysRehomed(v, out) ==
    /\ recorded[v] \in {None, out} \/ "restore" \in Faults
    /\ filename' = Put(filename, v, out)

\* The write landed: the filename is put back, the mark goes, and the file is
\* the target's database from now on.  When the filename cannot be put back
\* the view stays where it was written, and nothing is recorded.
Saved(v, out, home) ==
    /\ Write(out, work[v])
    /\ dirty' = Put(dirty, v, FALSE)
    /\ saved' = Put(saved, v, work[v])
    /\ \/ /\ filename' = Put(filename, v, home)
          /\ recorded' = Put(recorded, v, Noted(v, out, home))
       \/ StaysRehomed(v, out) /\ UNCHANGED recorded
    /\ UNCHANGED work

\* Any other destination is a copy: it clears the mark, and no more.
Exported(v, out) ==
    /\ Write(out, work[v])
    /\ dirty' = Put(dirty, v, FALSE)
    /\ \/ UNCHANGED filename
       \/ StaysRehomed(v, out)
    /\ UNCHANGED <<recorded, work, saved>>

\* A refusal before the first write changes nothing, nor does a failed write
\* to a path the caller chose: the filename is put back.
SaveTo(v, out) ==
    /\ pending = NoSave
    /\ v \in Open
    /\ ~Collides(v, out)
    /\ SameFile(out, filename[v], linked) => out = filename[v] \/ "hardLink" \in Faults
    /\ IF OwnDatabase(v, out) THEN Saved(v, out, filename[v]) ELSE Exported(v, out)
    /\ UNCHANGED pending

Save(v) == SaveTo(v, DefaultPath(filename[v]))

\* Bound: an explicit save never names a cache entry.
SaveAs(v) == \E out \in Databases \ CacheEntries : SaveTo(v, out)

\* The first write of a plain save fails and may have re-homed the view: the
\* save goes on to the cache, unless the entry holds work of another run.
MayFail(f) == f = "raw" \/ ("inPlace" \in Faults /\ f = "raw.bndb")
SaveFails(v) ==
    /\ pending = NoSave
    /\ v \in Open
    /\ MayFail(filename[v])
    /\ ~Collides(v, DefaultPath(filename[v]))
    /\ ~HoldsOtherWork(v, CachePath(filename[v]))
    /\ pending' = [by |-> v, home |-> filename[v]]
    /\ filename' \in {filename, Put(filename, v, DefaultPath(filename[v]))}
    /\ UNCHANGED <<files, recorded, work, dirty, saved>>

SaveToCache ==
    /\ pending # NoSave
    /\ Saved(pending.by, CachePath(pending.home), pending.home)
    /\ pending' = NoSave

\* The fallback failed as well: the first error is raised again, and this is
\* the one way out that does not put the filename back.
CacheFails ==
    /\ pending # NoSave
    /\ LET v == pending.by
       IN  \/ filename[v] = pending.home /\ UNCHANGED filename
           \/ /\ "rehome" \in Faults
              /\ filename' \in {filename, Put(filename, v, CachePath(pending.home))}
    /\ pending' = NoSave
    /\ UNCHANGED <<files, recorded, work, dirty, saved>>

-----------------------------------------------------------------------------
(* The rest of a target's life.                                              *)

\* _choose_sidecar: a raw path prefers its database, and restores a cache
\* entry only when its record says this bridge or project wrote it.
Chosen(path, prefer, own) ==
    IF path # "raw" \/ ~prefer THEN path
    ELSE IF "raw.bndb" \in exists THEN "raw.bndb"
    ELSE IF "raw.cache" \in exists /\ own THEN "raw.cache"
    ELSE "raw"

OpenAt(v, f) ==
    /\ filename' = Put(filename, v, f)
    /\ work' = Put(work, v, disk[f])

Load(v) ==
    /\ pending = NoSave
    /\ v \notin Open
    /\ \E path \in exists, prefer, own \in BOOLEAN :
          /\ \A w \in Open : filename[w] # Chosen(path, prefer, own)
          /\ OpenAt(v, Chosen(path, prefer, own))
    /\ UNCHANGED <<files, recorded, dirty, saved, pending>>

Mutate(v) ==
    /\ pending = NoSave
    /\ v \in Open
    /\ \E c \in Changes :
          /\ \A f \in Files : c \notin disk[f]
          /\ \A w \in Views : c \notin work[w] \cup saved[w]
          /\ work' = Put(work, v, work[v] \cup {c})
    /\ dirty' = Put(dirty, v, TRUE)
    /\ UNCHANGED <<files, filename, recorded, saved, pending>>

Close(v) ==
    /\ pending = NoSave
    /\ v \in Open
    /\ filename' = Put(filename, v, None)
    /\ recorded' = Put(recorded, v, None)
    /\ work' = Put(work, v, {})
    /\ dirty' = Put(dirty, v, FALSE)
    /\ saved' = Put(saved, v, {})
    /\ UNCHANGED <<files, pending>>

\* `session restart`: refused while a view is marked, unless told to discard.
\* Paths are reopened one by one; a missing one is lost, and of two targets
\* with one path a single one comes back.
Restart ==
    /\ pending = NoSave
    /\ \E discard \in BOOLEAN : discard \/ \A v \in Open : ~dirty[v]
    /\ \E back \in SUBSET {v \in Open : RestartPath(v) \in exists} :
          /\ \A v, w \in back : RestartPath(v) = RestartPath(w) => v = w
          /\ \A v \in Open : RestartPath(v) \in exists =>
                \E w \in back : RestartPath(w) = RestartPath(v)
          /\ filename' = [v \in Views |-> IF v \in back THEN RestartPath(v) ELSE None]
          /\ work' = [v \in Views |-> IF v \in back THEN disk[RestartPath(v)] ELSE {}]
          /\ saved' = [v \in Views |-> IF v \in back THEN saved[v] ELSE {}]
    /\ recorded' = [v \in Views |-> None]
    /\ dirty' = [v \in Views |-> FALSE]
    /\ UNCHANGED <<files, pending>>

\* Another bridge falls back to an entry of the shared cache: it creates the
\* entry, as its own check has it, or continues what it loaded from it.
OtherBridgeSaves ==
    /\ pending = NoSave \/ "window" \in Faults
    /\ \E entry \in CacheEntries, c \in Changes :
          /\ entry \notin exists \/ "shared" \in Faults
          /\ \A f \in Files : c \notin disk[f]
          /\ \A w \in Views : c \notin work[w] \cup saved[w]
          /\ Write(entry, disk[entry] \cup {c})
    /\ UNCHANGED <<view, pending>>

Next ==
    \/ \E v \in Views : \/ Load(v) \/ Mutate(v) \/ Close(v)
                        \/ Save(v) \/ SaveAs(v) \/ SaveFails(v)
    \/ SaveToCache \/ CacheFails
    \/ Restart \/ OtherBridgeSaves

Spec == Init /\ [][Next]_vars

-----------------------------------------------------------------------------

\* What a plain save reported as saved is in the file that a restart would
\* reopen: not in an older database, an export or a path nobody wrote.
RestartFindsTheWork ==
    pending = NoSave =>
        \A v \in Open : saved[v] # {} =>
            RestartPath(v) \in exists /\ saved[v] \subseteq disk[RestartPath(v)]

\* A save that falls back to the shared cache takes nothing from an entry that
\* another run, or another view, put there.
FallbackKeepsWork ==
    [][pending # NoSave =>
        \A entry \in CacheEntries : disk[entry] \subseteq disk'[entry]]_vars

=============================================================================
