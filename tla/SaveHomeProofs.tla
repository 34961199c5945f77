---------------------------- MODULE SaveHomeProofs ----------------------------
(***************************************************************************)
(* RestartFindsTheWork and FallbackKeepsWork, for any views and changes,   *)
(* each under the faults that it can stand.                                *)
(*                                                                         *)
(* A fallback takes nothing away because an entry that exists is only ever *)
(* written by the view that has it on record, and what such a view holds   *)
(* includes what the entry does (OwnEntries); this needs that no other     *)
(* bridge writes an entry in between.  A restart finds the work because    *)
(* every save leaves the view's way (Way) at the file it wrote, and no     *)
(* other view ever writes there (Ways).                                    *)
(***************************************************************************)
EXTENDS SaveHome, TLAPS

Typed ==
    /\ exists \subseteq Files /\ "raw" \in exists
    /\ disk \in [Files -> SUBSET Changes]
    /\ linked \in BOOLEAN
    /\ filename \in [Views -> Files \cup {None}]
    /\ recorded \in [Views -> Databases \cup {None}]
    /\ work \in [Views -> SUBSET Changes]
    /\ dirty \in [Views -> BOOLEAN]
    /\ saved \in [Views -> SUBSET Changes]
    /\ pending \in {NoSave} \cup [by : Views, home : Files]

\* A record is of an open view, names a file that is there, and is nobody else's.
Records ==
    /\ \A v \in Views : recorded[v] # None => v \in Open /\ recorded[v] \in exists
    /\ \A v, w \in Views : recorded[v] = recorded[w] /\ recorded[v] # None => v = w

\* Where a view that is being saved is at home.
Home(v) == IF pending # NoSave /\ v = pending.by THEN pending.home ELSE filename[v]

\* What a restart would reopen once the save is over.
Way(v) == IF recorded[v] # None THEN recorded[v] ELSE Home(v)

-----------------------------------------------------------------------------
\* What a view has on record in the cache it holds itself, and a save that has begun to
\* fall back found its entry free, or its own.
OwnEntries ==
    /\ \A v \in Views : recorded[v] \in CacheEntries => disk[recorded[v]] \subseteq work[v]
    /\ \A f \in Files \ exists : disk[f] = {}
    /\ pending # NoSave =>
          /\ pending.by \in Open /\ pending.home \in {"raw", "raw.bndb"}
          /\ CachePath(pending.home) \in exists => recorded[pending.by] = CachePath(pending.home)

FallbackInv == Typed /\ Records /\ OwnEntries

-----------------------------------------------------------------------------
\* Whose way leads over what another has on record has saved nothing.
Ways ==
    /\ \A v \in Open : Home(v) \in exists
    /\ \A v \in Views : recorded[v] # None /\ Home(v) # "raw" => recorded[v] = Home(v)
    /\ \A v \in Open, w \in Views : v # w /\
          recorded[w] # None /\ Way(v) = recorded[w] => saved[v] = {}
    /\ pending # NoSave =>
          /\ pending.by \in Open /\ pending.home = "raw"
          /\ \A v \in Open : Way(v) = "raw.cache" => recorded[pending.by] = "raw.cache"

SavedWork ==
    /\ \A v \in Views : saved[v] \subseteq work[v] /\ (v \notin Open => saved[v] = {})
    /\ \A v \in Open : saved[v] \subseteq disk[Way(v)]

RestartInv == Typed /\ Records /\ Ways /\ SavedWork

\* Nobody else has on record the entry that a save is about to fall back to.
EntryFree == pending # NoSave =>
    /\ pending.by \in Open
    /\ \A w \in Views : recorded[w] = CachePath(pending.home) => w = pending.by

-----------------------------------------------------------------------------
(* What a write leaves.                                                      *)

LEMMA PendingIs ==
    ASSUME Typed, pending # NoSave
    PROVE  pending.by \in Views /\ pending.home \in Files
BY DEF Typed

LEMMA PathsAre ==
    /\ \A f : CachePath(f) \in CacheEntries /\ CachePath(f) \in Databases
    /\ \A f \in Files : DefaultPath(f) \in Databases /\ f # None /\ (f # "raw" => DefaultPath(f) = f)
    /\ \A f \in Databases : f \in Files /\ f # None /\ f # "raw"
    /\ CachePath("raw") = "raw.cache"
    /\ \A f : MayFail(f) => f \in {"raw", "raw.bndb"} /\ ("inPlace" \notin Faults => f = "raw")
BY DEF CachePath, CacheEntries, Databases, Files, DefaultPath, None, MayFail

LEMMA Writes ==
    ASSUME Typed, NEW out \in Databases, NEW changes \in SUBSET Changes, Write(out, changes)
    PROVE  /\ exists' = exists \cup {out} /\ exists' \subseteq Files /\ "raw" \in exists'
           /\ disk' \in [Files -> SUBSET Changes] /\ linked' \in BOOLEAN
           /\ disk'[out] = changes
           /\ \A f \in Files \ {out} : disk'[f] = disk[f]
           /\ linked' => out \notin {"raw.bndb", "link"}
<1>1. out \in Files
  BY PathsAre
<1> QED
  BY <1>1 DEF Write, Typed

LEMMA SavedIs ==
    ASSUME Typed, NEW v \in Views, NEW out \in Databases, NEW home \in Files, Saved(v, out, home)
    PROVE  /\ Write(out, work[v]) /\ work' = work /\ saved'[v] = work[v]
           /\ \A w \in Views \ {v} : /\ filename'[w] = filename[w] /\ recorded'[w] = recorded[w]
                                     /\ saved'[w] = saved[w]
           /\ \/ /\ filename'[v] = home
                 /\ recorded'[v] = IF SameFile(home, out, linked') THEN recorded[v] ELSE out
              \/ /\ filename'[v] = out /\ recorded'[v] = recorded[v]
                 /\ recorded[v] \in {None, out} \/ "restore" \in Faults
           /\ filename' \in [Views -> Files \cup {None}]
           /\ recorded' \in [Views -> Databases \cup {None}]
           /\ dirty' \in [Views -> BOOLEAN]
           /\ saved' \in [Views -> SUBSET Changes]
<1>1. out \in Files
  BY PathsAre
<1>2. /\ Write(out, work[v]) /\ work' = work /\ saved' = [saved EXCEPT ![v] = work[v]]
      /\ dirty' = [dirty EXCEPT ![v] = FALSE]
  BY DEF Saved, Put
<1>3. CASE /\ filename' = [filename EXCEPT ![v] = home]
           /\ recorded' = [recorded EXCEPT ![v] = Noted(v, out, home)]
  BY <1>1, <1>2, <1>3 DEF Noted, Typed
<1>4. CASE StaysRehomed(v, out) /\ UNCHANGED recorded
  BY <1>1, <1>2, <1>4 DEF StaysRehomed, Put, Typed
<1> QED
  BY <1>3, <1>4 DEF Saved, Put

LEMMA ExportedIs ==
    ASSUME Typed, NEW v \in Views, NEW out \in Databases, Exported(v, out)
    PROVE  /\ Write(out, work[v]) /\ UNCHANGED <<recorded, work, saved>>
           /\ \A w \in Views \ {v} : filename'[w] = filename[w]
           /\ \/ filename'[v] = filename[v]
              \/ /\ filename'[v] = out
                 /\ recorded[v] \in {None, out} \/ "restore" \in Faults
           /\ filename' \in [Views -> Files \cup {None}]
           /\ dirty' \in [Views -> BOOLEAN]
<1>1. out \in Files
  BY PathsAre
<1> QED
  BY <1>1 DEF Exported, StaysRehomed, Put, Typed

\* A save, not one that falls back.
Saves(v, out) == /\ out \in Databases /\ SaveTo(v, out)
                 /\ \/ out = DefaultPath(filename[v])
                    \/ out \notin CacheEntries

LEMMA SavesAre ==
    ASSUME Typed, NEW v \in Views, Save(v) \/ SaveAs(v)
    PROVE  \E out : Saves(v, out)
<1>1. filename[v] \in Files
  BY DEF Save, SaveAs, SaveTo, Open, Typed
<1> QED
  BY <1>1, PathsAre DEF Save, SaveAs, Saves

LEMMA ChosenExists ==
    ASSUME Typed, NEW path \in exists, NEW prefer \in BOOLEAN, NEW own \in BOOLEAN
    PROVE  Chosen(path, prefer, own) \in exists
BY DEF Chosen, Typed

LEMMA InitTyped ==
    ASSUME Init
    PROVE  Typed
<1>1. PICK old \in {{}} \cup {{c} : c \in Changes} :
         disk = [f \in Files |-> IF f \in exists \ {"raw"} THEN old ELSE {}]
  BY DEF Init
<1>2. old \in SUBSET Changes
  OBVIOUS
<1>3. disk \in [Files -> SUBSET Changes]
  BY <1>1, <1>2
<1>4. exists \subseteq Files /\ "raw" \in exists
  BY DEF Init, Files, Databases, CacheEntries
<1> QED
  BY <1>3, <1>4 DEF Init, Typed

LEMMA TypedStep ==
    ASSUME Typed, Next
    PROVE  Typed'
<1>1. ASSUME NEW v \in Views, Load(v) PROVE Typed'
  <2>1. PICK f \in exists : OpenAt(v, f)
    BY <1>1, ChosenExists DEF Load
  <2> QED
    BY <1>1, <2>1 DEF Load, OpenAt, Put, files, Typed
<1>2. ASSUME NEW v \in Views, Mutate(v) PROVE Typed'
  BY <1>2 DEF Mutate, Put, files, Typed
<1>3. ASSUME NEW v \in Views, Close(v) PROVE Typed'
  BY <1>3 DEF Close, Put, files, Typed
<1>4. ASSUME NEW v \in Views, NEW out \in Databases, SaveTo(v, out) PROVE Typed'
  <2>1. filename[v] \in Files /\ UNCHANGED pending /\ work[v] \in SUBSET Changes
    BY <1>4 DEF SaveTo, Open, Typed
  <2> QED
    BY <1>4, <2>1, SavedIs, ExportedIs, Writes DEF SaveTo, Typed
<1>5. ASSUME NEW v \in Views, SaveFails(v) PROVE Typed'
  <2>1. filename[v] \in Files /\ DefaultPath(filename[v]) \in Files
    BY <1>5, PathsAre DEF SaveFails, Open, Typed
  <2> QED
    BY <1>5, <2>1 DEF SaveFails, files, Put, Typed
<1>6. CASE SaveToCache
  <2>1. pending.by \in Views /\ pending.home \in Files /\ CachePath(pending.home) \in Databases
        /\ work[pending.by] \in SUBSET Changes
    BY <1>6, PendingIs, PathsAre DEF SaveToCache, Typed
  <2> QED
    BY <1>6, <2>1, SavedIs, Writes DEF SaveToCache, Typed
<1>7. CASE CacheFails
  <2>1. pending.by \in Views /\ pending.home \in Files /\ CachePath(pending.home) \in Files
    BY <1>7, PendingIs, PathsAre DEF CacheFails
  <2> QED
    BY <1>7, <2>1 DEF CacheFails, files, Put, Typed
<1>8. CASE Restart
  <2>1. \A v \in Open : RestartPath(v) \in Files
    BY PathsAre DEF RestartPath, Open, Typed
  <2> QED
    BY <1>8, <2>1 DEF Restart, files, Typed
<1>9. CASE OtherBridgeSaves
  <2>1. CacheEntries \subseteq Databases
    BY DEF Databases
  <2>2. PICK entry \in CacheEntries, c \in Changes : Write(entry, disk[entry] \cup {c})
    BY <1>9 DEF OtherBridgeSaves
  <2>3. disk[entry] \cup {c} \in SUBSET Changes
    BY <2>1, <2>2, PathsAre DEF Typed
  <2> QED
    BY <1>9, <2>1, <2>2, <2>3, Writes DEF OtherBridgeSaves, view, Typed
<1>10. \A v \in Views : Save(v) \/ SaveAs(v) => Typed'
  BY <1>4, SavesAre DEF Saves
<1> QED
  BY <1>1, <1>2, <1>3, <1>5, <1>6, <1>7, <1>8, <1>9, <1>10 DEF Next

-----------------------------------------------------------------------------
(* Records.                                                                  *)

LEMMA NoCollision ==
    ASSUME Typed, Records, NEW v \in Views, NEW out \in Databases, SaveTo(v, out),
           NEW w \in Views \ {v}
    PROVE  recorded[w] # out /\ filename[w] # out
<1>1. recorded[w] = out => w \in Open
  BY PathsAre DEF Records
<1>2. filename[w] = out => w \in Open
  BY PathsAre DEF Open
<1> QED
  BY <1>1, <1>2 DEF SaveTo, Collides, SameFile

\* A view records what it wrote, if nobody else has that on record.
LEMMA SavedKeepsRecords ==
    ASSUME Typed, Records, NEW v \in Views, NEW out \in Databases, NEW home \in Files,
           Saved(v, out, home), \A w \in Views \ {v} : recorded[w] # out,
           recorded[v] # None => v \in Open
    PROVE  Records'
<1>1. work[v] \in SUBSET Changes
  BY DEF Typed
<1>2. out \in exists' /\ exists \subseteq exists'
  BY <1>1, SavedIs, Writes
<1>3. v \in Open'
  BY SavedIs, PathsAre DEF Open
<1>4. \A w \in Views \ {v} : w \in Open <=> w \in Open'
  BY SavedIs DEF Open
<1> QED
  BY <1>2, <1>3, <1>4, SavedIs DEF Records

LEMMA RecordsStep ==
    ASSUME Typed, Records, EntryFree, Next
    PROVE  Records'
<1>1. ASSUME NEW v \in Views, Load(v) PROVE Records'
  <2>1. UNCHANGED <<recorded, exists>> /\ \E f \in exists : filename' = [filename EXCEPT ![v] = f]
    BY <1>1, ChosenExists DEF Load, OpenAt, Put, files
  <2>2. \A w \in Open : w \in Open'
    BY <2>1, PathsAre DEF Open, Typed
  <2> QED
    BY <2>1, <2>2 DEF Records
<1>2. ASSUME NEW v \in Views, Mutate(v) PROVE Records'
  BY <1>2 DEF Mutate, files, Records, Open
<1>3. ASSUME NEW v \in Views, Close(v) PROVE Records'
  BY <1>3 DEF Close, Put, files, Records, Open, Typed
<1>4. ASSUME NEW v \in Views, Save(v) \/ SaveAs(v) PROVE Records'
  <2>1. PICK out : Saves(v, out)
    BY <1>4, SavesAre
  <2>2. out \in Databases /\ SaveTo(v, out) /\ v \in Open /\ filename[v] \in Files
    BY <2>1 DEF Saves, SaveTo, Open, Typed
  <2>3. CASE Saved(v, out, filename[v])
    BY <2>2, <2>3, NoCollision, SavedKeepsRecords
  <2>4. CASE Exported(v, out)
    <3>1. work[v] \in SUBSET Changes
      BY DEF Typed
    <3>2. UNCHANGED recorded /\ exists \subseteq exists' /\ \A w \in Open : w \in Open'
      BY <2>2, <2>4, <3>1, ExportedIs, Writes, PathsAre DEF Open
    <3> QED
      BY <3>2 DEF Records
  <2> QED
    BY <2>2, <2>3, <2>4 DEF SaveTo
<1>5. ASSUME NEW v \in Views, SaveFails(v) PROVE Records'
  <2>1. UNCHANGED <<recorded, exists>> /\ DefaultPath(filename[v]) \in Files
        /\ filename' \in {filename, [filename EXCEPT ![v] = DefaultPath(filename[v])]}
    BY <1>5, PathsAre DEF SaveFails, Put, files, Open, Typed
  <2>2. \A w \in Open : w \in Open'
    BY <2>1, PathsAre DEF Open, Typed
  <2> QED
    BY <2>1, <2>2 DEF Records
<1>6. CASE SaveToCache
  <2>1. pending.by \in Views /\ pending.home \in Files /\ CachePath(pending.home) \in Databases
        /\ Saved(pending.by, CachePath(pending.home), pending.home)
    BY <1>6, PendingIs, PathsAre DEF SaveToCache
  <2>2. pending.by \in Open /\ \A w \in Views \ {pending.by} : recorded[w] # CachePath(pending.home)
    BY <1>6 DEF SaveToCache, EntryFree
  <2> QED
    BY <2>1, <2>2, SavedKeepsRecords
<1>7. CASE CacheFails
  <2>1. pending.by \in Views /\ UNCHANGED <<recorded, exists>>
        /\ (filename' = filename \/ filename' = [filename EXCEPT ![pending.by] = CachePath(pending.home)])
    BY <1>7, PendingIs DEF CacheFails, Put, files
  <2>2. \A w \in Open : w \in Open'
    BY <2>1, PathsAre DEF Open, Typed
  <2> QED
    BY <2>1, <2>2 DEF Records
<1>8. CASE Restart
  BY <1>8 DEF Restart, Records
<1>9. CASE OtherBridgeSaves
  BY <1>9 DEF OtherBridgeSaves, Write, view, Records, Open
<1> QED
  BY <1>1, <1>2, <1>3, <1>4, <1>5, <1>6, <1>7, <1>8, <1>9 DEF Next

-----------------------------------------------------------------------------
(* The fallback.                                                             *)

LEMMA FallbackIsFree ==
    ASSUME FallbackInv
    PROVE  EntryFree
<1>1. ASSUME pending # NoSave, NEW w \in Views, recorded[w] = CachePath(pending.home)
      PROVE  w = pending.by
  <2>1. recorded[w] # None /\ recorded[w] \in exists /\ pending.by \in Views
    BY <1>1, PathsAre, PendingIs DEF FallbackInv, Records
  <2> QED
    BY <1>1, <2>1 DEF FallbackInv, OwnEntries, Records
<1> QED
  BY <1>1 DEF FallbackInv, OwnEntries, EntryFree

\* A write to a file that no other view has on record.
LEMMA SavedKeepsEntries ==
    ASSUME FallbackInv, NEW v \in Views, NEW out \in Databases, NEW home \in Files,
           Saved(v, out, home), \A w \in Views \ {v} : recorded[w] # out
    PROVE  /\ \A w \in Views : recorded'[w] \in CacheEntries => disk'[recorded'[w]] \subseteq work'[w]
           /\ \A f \in Files \ exists' : disk'[f] = {}
<1>1. Typed /\ work[v] \in SUBSET Changes
  BY DEF FallbackInv, Typed
<1>2. /\ exists' = exists \cup {out} /\ disk'[out] = work[v]
      /\ \A f \in Files \ {out} : disk'[f] = disk[f]
  BY <1>1, SavedIs, Writes
<1>3. ASSUME NEW w \in Views \ {v}, recorded'[w] \in CacheEntries PROVE disk'[recorded'[w]] \subseteq work'[w]
  <2>1. recorded'[w] = recorded[w] /\ recorded[w] # out /\ recorded[w] \in Files /\ work' = work
    BY <1>1, <1>3, SavedIs, PathsAre DEF CacheEntries, Files, Databases
  <2> QED
    BY <1>2, <1>3, <2>1 DEF FallbackInv, OwnEntries
<1>4. ASSUME recorded'[v] \in CacheEntries PROVE disk'[recorded'[v]] \subseteq work'[v]
  <2>1. recorded'[v] \in {recorded[v], out} /\ work' = work
    BY <1>1, SavedIs
  <2>2. recorded'[v] \in Files
    BY <1>4 DEF CacheEntries, Files, Databases
  <2> QED
    BY <1>2, <1>4, <2>1, <2>2 DEF FallbackInv, OwnEntries
<1> QED
  BY <1>2, <1>3, <1>4 DEF FallbackInv, OwnEntries

LEMMA ExportKeepsEntries ==
    ASSUME FallbackInv, NEW v \in Views, NEW out \in Databases, Exported(v, out),
           \A w \in Views \ {v} : recorded[w] # out
    PROVE  /\ \A w \in Views : recorded'[w] \in CacheEntries => disk'[recorded'[w]] \subseteq work'[w]
           /\ \A f \in Files \ exists' : disk'[f] = {}
<1>1. Typed /\ work[v] \in SUBSET Changes
  BY DEF FallbackInv, Typed
<1>2. /\ exists' = exists \cup {out} /\ disk'[out] = work[v] /\ recorded' = recorded /\ work' = work
      /\ \A f \in Files \ {out} : disk'[f] = disk[f]
  BY <1>1, ExportedIs, Writes
<1>3. \A f \in CacheEntries : f \in Files
  BY DEF CacheEntries, Files, Databases
<1> QED
  BY <1>2, <1>3 DEF FallbackInv, OwnEntries

LEMMA EntriesStep ==
    ASSUME Faults \cap {"window", "shared"} = {}, FallbackInv, Next
    PROVE  OwnEntries'
<1>1. Typed /\ Records /\ OwnEntries /\ EntryFree
  BY FallbackIsFree DEF FallbackInv
<1>2. CASE pending' = NoSave /\ UNCHANGED <<disk, exists>>
           /\ \A w \in Views : recorded'[w] = None \/ (recorded'[w] = recorded[w] /\ work[w] \subseteq work'[w])
  <2>1. None \notin CacheEntries
    BY DEF None, CacheEntries
  <2> QED
    BY <1>1, <1>2, <2>1 DEF OwnEntries
<1>3. ASSUME NEW v \in Views, Load(v) PROVE OwnEntries'
  <2>1. recorded[v] = None
    BY <1>1, <1>3 DEF Load, Records
  <2> QED
    BY <1>1, <1>2, <1>3, <2>1 DEF Load, OpenAt, Put, files, Typed
<1>4. ASSUME NEW v \in Views, Mutate(v) PROVE OwnEntries'
  BY <1>1, <1>2, <1>4 DEF Mutate, Put, files, Typed
<1>5. ASSUME NEW v \in Views, Close(v) PROVE OwnEntries'
  BY <1>1, <1>2, <1>5 DEF Close, Put, files, Typed
<1>6. CASE Restart
  BY <1>1, <1>2, <1>6 DEF Restart, files
<1>7. CASE CacheFails
  BY <1>1, <1>2, <1>7 DEF CacheFails, files
<1>8. ASSUME NEW v \in Views, Save(v) \/ SaveAs(v) PROVE OwnEntries'
  <2>1. PICK out : Saves(v, out)
    BY <1>1, <1>8, SavesAre
  <2>2. out \in Databases /\ SaveTo(v, out) /\ filename[v] \in Files /\ pending' = NoSave
    BY <1>1, <2>1 DEF Saves, SaveTo, Open, Typed
  <2>3. \A w \in Views \ {v} : recorded[w] # out
    BY <1>1, <2>2, NoCollision
  <2> QED
    BY <2>2, <2>3, SavedKeepsEntries, ExportKeepsEntries DEF SaveTo, OwnEntries
<1>9. CASE SaveToCache
  <2>1. pending.by \in Views /\ pending.home \in Files /\ CachePath(pending.home) \in Databases
        /\ Saved(pending.by, CachePath(pending.home), pending.home) /\ pending' = NoSave
    BY <1>1, <1>9, PendingIs, PathsAre DEF SaveToCache
  <2>2. \A w \in Views \ {pending.by} : recorded[w] # CachePath(pending.home)
    BY <1>1, <1>9 DEF SaveToCache, EntryFree
  <2> QED
    BY <2>1, <2>2, SavedKeepsEntries DEF OwnEntries
<1>10. ASSUME NEW v \in Views, SaveFails(v) PROVE OwnEntries'
  <2>1. /\ UNCHANGED <<disk, exists, recorded, work>> /\ pending' = [by |-> v, home |-> filename[v]]
        /\ v \in Open /\ filename[v] \in {"raw", "raw.bndb"}
        /\ ~HoldsOtherWork(v, CachePath(filename[v]))
    BY <1>10, PathsAre DEF SaveFails, files
  <2>2. pending'.by = v /\ pending'.home = filename[v]
    BY <2>1
  <2>3. CachePath(filename[v]) # filename[v]
    BY <2>1 DEF CachePath
  <2>4. CachePath(filename[v]) \in exists => recorded[v] = CachePath(filename[v])
    BY <2>1, <2>3 DEF HoldsOtherWork
  <2>5. v \in Open'
    <3>1. filename'[v] \in {filename[v], DefaultPath(filename[v])}
      BY <1>1, <1>10 DEF SaveFails, Put, Typed
    <3> QED
      BY <2>1, <3>1, PathsAre DEF Open, DefaultPath, None
  <2> QED
    BY <1>1, <2>1, <2>2, <2>4, <2>5 DEF OwnEntries
<1>11. CASE OtherBridgeSaves
  <2>1. pending = NoSave /\ UNCHANGED <<recorded, work, pending>>
    BY <1>11 DEF OtherBridgeSaves, view
  <2>2. PICK entry \in CacheEntries \ exists, c \in Changes : Write(entry, disk[entry] \cup {c})
    BY <1>11 DEF OtherBridgeSaves
  <2>3. \A w \in Views : recorded[w] # entry
    BY <1>1, <2>2, PathsAre DEF Records, CacheEntries, None
  <2>4. \A f \in CacheEntries : f \in Files /\ f \in Databases
    BY DEF CacheEntries, Databases, Files
  <2>5. disk[entry] \cup {c} \in SUBSET Changes
    BY <1>1, <2>2, <2>4 DEF Typed
  <2>6. exists' = exists \cup {entry} /\ \A f \in Files \ {entry} : disk'[f] = disk[f]
    BY <1>1, <2>2, <2>4, <2>5, Writes
  <2> QED
    BY <1>1, <2>1, <2>3, <2>4, <2>6 DEF OwnEntries
<1> QED
  BY <1>3, <1>4, <1>5, <1>6, <1>7, <1>8, <1>9, <1>10, <1>11 DEF Next

LEMMA EntriesGrow ==
    ASSUME Faults \cap {"window", "shared"} = {}, FallbackInv, Next, pending # NoSave,
           NEW entry \in CacheEntries
    PROVE  disk[entry] \subseteq disk'[entry]
<1>1. Typed /\ OwnEntries
  BY DEF FallbackInv
<1>2. CASE SaveToCache
  <2>1. /\ pending.by \in Views /\ pending.home \in Files /\ CachePath(pending.home) \in Databases
        /\ CachePath(pending.home) \in Files
        /\ Saved(pending.by, CachePath(pending.home), pending.home)
    BY <1>1, <1>2, PendingIs, PathsAre DEF SaveToCache
  <2>2. work[pending.by] \in SUBSET Changes /\ entry \in Files
    BY <1>1, <2>1 DEF Typed, CacheEntries, Files, Databases
  <2>3. /\ disk'[CachePath(pending.home)] = work[pending.by]
        /\ entry # CachePath(pending.home) => disk'[entry] = disk[entry]
    BY <1>1, <2>1, <2>2, SavedIs, Writes
  <2>4. disk[CachePath(pending.home)] \subseteq work[pending.by]
    BY <1>1, <2>1, PathsAre DEF OwnEntries
  <2> QED
    BY <2>3, <2>4
<1>3. CASE CacheFails
  BY <1>3 DEF CacheFails, files
<1> QED
  BY <1>2, <1>3 DEF Next, Load, Mutate, Close, Save, SaveAs, SaveTo, SaveFails, Restart, OtherBridgeSaves

\* A save that falls back to the shared cache takes nothing from an entry that another run
\* or view put there, unless another bridge writes the entry it found free or continues
\* the one it has (bridge.py, _save_database and its cache fallback).
THEOREM FallbackTakesNothing ==
    ASSUME Faults \cap {"window", "shared"} = {}
    PROVE  Spec => FallbackKeepsWork
<1>1. Init => FallbackInv
  <2> SUFFICES ASSUME Init PROVE FallbackInv
    OBVIOUS
  <2>1. Typed
    BY InitTyped
  <2> QED
    BY <2>1 DEF Init, FallbackInv, Records, OwnEntries, None, CacheEntries
<1>2. FallbackInv /\ [Next]_vars => FallbackInv'
  <2>1. FallbackInv /\ Next => FallbackInv'
    BY TypedStep, RecordsStep, EntriesStep, FallbackIsFree DEF FallbackInv
  <2>2. FallbackInv /\ UNCHANGED vars => FallbackInv'
    BY DEF vars, files, view, FallbackInv, Typed, Records, Open, OwnEntries
  <2> QED
    BY <2>1, <2>2
<1>3. FallbackInv /\ [Next]_vars =>
          [pending # NoSave => \A entry \in CacheEntries : disk[entry] \subseteq disk'[entry]]_vars
  BY EntriesGrow
<1> QED
  BY <1>1, <1>2, <1>3, PTL DEF Spec, FallbackKeepsWork

-----------------------------------------------------------------------------
(* What a restart reopens.                                                   *)

Harmless == Faults \cap {"restore", "rehome", "inPlace", "hardLink"} = {}

LEMMA RestartIsFree ==
    ASSUME RestartInv
    PROVE  EntryFree
<1>1. ASSUME pending # NoSave, NEW w \in Views, recorded[w] = CachePath(pending.home)
      PROVE  w = pending.by
  <2>1. recorded[w] = "raw.cache" /\ recorded[w] # None /\ w \in Open /\ pending.by \in Views
    BY <1>1, PathsAre, PendingIs DEF RestartInv, Ways, Records
  <2>2. recorded[pending.by] = "raw.cache"
    BY <1>1, <2>1 DEF RestartInv, Ways, Way
  <2> QED
    BY <2>1, <2>2 DEF RestartInv, Records
<1> QED
  BY <1>1 DEF RestartInv, Ways, EntryFree

LEMMA WaysAreFiles ==
    ASSUME RestartInv, NEW v \in Open
    PROVE  v \in Views /\ Way(v) \in Files /\ Way(v) \in exists
BY DEF RestartInv, Ways, Records, Way, Open, Typed

LEMMA SavedKeepsWays ==
    ASSUME Harmless, RestartInv, NEW v \in Open, NEW out \in Databases, NEW home \in Files,
           Saved(v, out, home), home = Home(v), home # "raw" => out = home,
           \A w \in Views \ {v} : recorded[w] # out,
           \A w \in Open \ {v} : Way(w) = out => saved[w] = {},
           pending # NoSave => pending.by = v, pending' = NoSave
    PROVE  Ways' /\ SavedWork'
<1>1. Typed /\ Records /\ Ways /\ SavedWork /\ v \in Views /\ work[v] \in SUBSET Changes /\ out \in Files
  BY PathsAre DEF RestartInv, Open, Typed
<1>2. /\ exists' = exists \cup {out} /\ disk'[out] = work[v] /\ work' = work /\ saved'[v] = work[v]
      /\ \A f \in Files \ {out} : disk'[f] = disk[f]
  BY <1>1, SavedIs, Writes
<1>3. \A w \in Views \ {v} : /\ filename'[w] = filename[w] /\ recorded'[w] = recorded[w] /\ saved'[w] = saved[w]
                             /\ Home(w)' = Home(w) /\ Way(w)' = Way(w)
                             /\ w \in Open <=> w \in Open'
  BY <1>1, SavedIs DEF Home, Way, Open
<1>4. Home(v)' = filename'[v]
  BY DEF Home
<1>5. /\ filename'[v] \in {home, out} /\ recorded'[v] \in {recorded[v], out}
      /\ Way(v)' = out /\ (recorded'[v] # None /\ filename'[v] # "raw" => recorded'[v] = filename'[v])
  <2>1. CASE filename'[v] = home /\ recorded'[v] = IF SameFile(home, out, linked') THEN recorded[v] ELSE out
    <3>1. CASE home = "raw"
      <4>1. ~SameFile(home, out, linked')
        BY <3>1, PathsAre DEF SameFile
      <4> QED
        BY <1>4, <2>1, <3>1, <4>1, PathsAre DEF Way
    <3>2. CASE home # "raw"
      <4>1. SameFile(home, out, linked')
        BY <3>2 DEF SameFile
      <4>2. recorded[v] # None => recorded[v] = home
        BY <1>1, <3>2 DEF Ways
      <4> QED
        BY <1>4, <2>1, <3>2, <4>1, <4>2 DEF Way
    <3> QED
      BY <3>1, <3>2
  <2>2. CASE filename'[v] = out /\ recorded'[v] = recorded[v] /\ recorded[v] \in {None, out}
    BY <1>4, <2>2, PathsAre DEF Way
  <2> QED
    BY <1>1, <2>1, <2>2, SavedIs DEF Harmless
<1>6. v \in Open'
  BY <1>1, <1>5, PathsAre DEF Open
<1>7. Ways'
  <2>1. \A w \in Open' : Home(w)' \in exists'
    BY <1>1, <1>2, <1>3, <1>4, <1>5 DEF Ways, Open
  <2>2. \A w \in Views : recorded'[w] # None /\ Home(w)' # "raw" => recorded'[w] = Home(w)'
    BY <1>1, <1>3, <1>4, <1>5 DEF Ways
  <2>3. ASSUME NEW x \in Open', NEW y \in Views, x # y, recorded'[y] # None, Way(x)' = recorded'[y]
        PROVE  saved'[x] = {}
    <3>1. x # v
      BY <1>3, <1>5, <2>3
    <3>2. x \in Views /\ x \in Open
      BY <1>3, <3>1 DEF Open
    <3>3. CASE y = v
      BY <1>1, <1>3, <1>5, <2>3, <3>1, <3>2, <3>3 DEF Ways
    <3>4. CASE y # v
      BY <1>1, <1>3, <2>3, <3>1, <3>2, <3>4 DEF Ways
    <3> QED
      BY <3>3, <3>4
  <2> QED
    BY <2>1, <2>2, <2>3 DEF Ways
<1>8. SavedWork'
  <2>1. \A w \in Views : saved'[w] \subseteq work'[w] /\ (w \notin Open' => saved'[w] = {})
    BY <1>1, <1>2, <1>3, <1>6 DEF SavedWork
  <2>2. ASSUME NEW w \in Open', w # v PROVE saved'[w] \subseteq disk'[Way(w)']
    <3>1. w \in Views /\ w \in Open
      BY <1>3, <2>2 DEF Open
    <3> QED
      BY <1>1, <1>2, <1>3, <2>2, <3>1, WaysAreFiles DEF SavedWork
  <2>3. saved'[v] \subseteq disk'[Way(v)']
    BY <1>2, <1>5
  <2> QED
    BY <2>1, <2>2, <2>3 DEF SavedWork
<1> QED
  BY <1>7, <1>8

LEMMA ExportKeepsWays ==
    ASSUME Harmless, RestartInv, NEW v \in Open, NEW out \in Databases, Exported(v, out),
           \A w \in Views \ {v} : recorded[w] # out /\ filename[w] # out,
           pending = NoSave, pending' = NoSave
    PROVE  Ways' /\ SavedWork'
<1>1. Typed /\ Records /\ Ways /\ SavedWork /\ v \in Views /\ work[v] \in SUBSET Changes /\ out \in Files
  BY PathsAre DEF RestartInv, Open, Typed
<1>2. /\ exists' = exists \cup {out} /\ disk'[out] = work[v]
      /\ work' = work /\ saved' = saved /\ recorded' = recorded
      /\ \A f \in Files \ {out} : disk'[f] = disk[f]
  BY <1>1, ExportedIs, Writes
<1>3. \A w \in Views : Home(w) = filename[w] /\ Home(w)' = filename'[w]
  BY DEF Home
<1>4. \A w \in Views \ {v} : filename'[w] = filename[w] /\ Way(w)' = Way(w) /\ Way(w) # out /\ (w \in Open <=> w \in Open')
  BY <1>1, <1>2, <1>3, ExportedIs DEF Way, Open
<1>5. \/ filename'[v] = filename[v] /\ Way(v)' = Way(v)
      \/ filename'[v] = out /\ recorded[v] \in {None, out} /\ Way(v)' = out
  <2>1. CASE filename'[v] = filename[v]
    BY <1>1, <1>2, <1>3, <2>1 DEF Way
  <2>2. CASE filename'[v] = out /\ recorded[v] \in {None, out}
    BY <1>1, <1>2, <1>3, <2>2 DEF Way
  <2> QED
    BY <1>1, <2>1, <2>2, ExportedIs DEF Harmless
<1>6. v \in Open'
  BY <1>1, <1>5, PathsAre DEF Open
<1>7. Ways'
  <2>1. \A w \in Open' : Home(w)' \in exists'
    BY <1>1, <1>2, <1>3, <1>4, <1>5 DEF Ways, Open
  <2>2. \A w \in Views : recorded'[w] # None /\ Home(w)' # "raw" => recorded'[w] = Home(w)'
    BY <1>1, <1>2, <1>3, <1>4, <1>5 DEF Ways
  <2>3. ASSUME NEW x \in Open', NEW y \in Views, x # y, recorded'[y] # None, Way(x)' = recorded'[y]
        PROVE  saved'[x] = {}
    <3>1. x \in Open /\ x \in Views /\ Way(x)' = Way(x)
      BY <1>1, <1>2, <1>4, <1>5, <2>3 DEF Open
    <3> QED
      BY <1>1, <1>2, <2>3, <3>1 DEF Ways
  <2> QED
    BY <2>1, <2>2, <2>3 DEF Ways
<1>8. SavedWork'
  <2>1. \A w \in Views : saved'[w] \subseteq work'[w] /\ (w \notin Open' => saved'[w] = {})
    BY <1>1, <1>2, <1>4, <1>6 DEF SavedWork
  <2>2. ASSUME NEW w \in Open', w # v PROVE saved'[w] \subseteq disk'[Way(w)']
    <3>1. w \in Views /\ w \in Open
      BY <1>4, <2>2 DEF Open
    <3> QED
      BY <1>1, <1>2, <1>4, <2>2, <3>1, WaysAreFiles DEF SavedWork
  <2>3. saved'[v] \subseteq disk'[Way(v)']
    <3>1. saved[v] \subseteq work[v] /\ saved[v] \subseteq disk[Way(v)] /\ Way(v) \in Files
      BY <1>1, WaysAreFiles DEF SavedWork
    <3> QED
      BY <1>2, <1>5, <3>1
  <2> QED
    BY <2>1, <2>2, <2>3 DEF SavedWork
<1> QED
  BY <1>7, <1>8

LEMMA WaysStep ==
    ASSUME Harmless, RestartInv, Next
    PROVE  Ways' /\ SavedWork'
<1>1. Typed /\ Records /\ Ways /\ SavedWork /\ EntryFree /\ Open \subseteq Views
  BY RestartIsFree DEF RestartInv, Open
<1>2. ASSUME NEW v \in Views, Load(v) PROVE Ways' /\ SavedWork'
  <2>1. PICK f \in exists : OpenAt(v, f)
    BY <1>1, <1>2, ChosenExists DEF Load
  <2>2. /\ pending = NoSave /\ pending' = NoSave /\ v \notin Open
        /\ UNCHANGED <<exists, disk, recorded, saved>>
    BY <1>2 DEF Load, files
  <2>3. recorded[v] = None /\ saved[v] = {} /\ f # None
    BY <1>1, <2>2, PathsAre DEF Records, SavedWork, Typed
  <2>4. /\ filename'[v] = f /\ Open' = Open \cup {v} /\ Way(v)' = f /\ Home(v)' = f
        /\ \A w \in Views \ {v} : filename'[w] = filename[w] /\ work'[w] = work[w] /\ Way(w)' = Way(w) /\ Home(w)' = Home(w)
    BY <1>1, <2>1, <2>2, <2>3 DEF OpenAt, Put, Open, Way, Home, Typed
  <2>5. Ways'
    BY <1>1, <2>2, <2>3, <2>4 DEF Ways
  <2>6. SavedWork'
    BY <1>1, <2>2, <2>3, <2>4 DEF SavedWork
  <2> QED
    BY <2>5, <2>6
<1>3. ASSUME NEW v \in Views, Mutate(v) PROVE Ways' /\ SavedWork'
  <2>1. /\ UNCHANGED <<exists, disk, filename, recorded, saved, pending>>
        /\ \A w \in Views : work[w] \subseteq work'[w]
    BY <1>1, <1>3 DEF Mutate, Put, files, Typed
  <2> QED
    BY <1>1, <2>1 DEF Ways, SavedWork, Open, Way, Home
<1>4. ASSUME NEW v \in Views, Close(v) PROVE Ways' /\ SavedWork'
  <2>1. /\ pending = NoSave /\ pending' = NoSave /\ UNCHANGED <<exists, disk>>
        /\ filename'[v] = None /\ recorded'[v] = None /\ saved'[v] = {} /\ Open' = Open \ {v}
        /\ \A w \in Views \ {v} : /\ filename'[w] = filename[w] /\ recorded'[w] = recorded[w]
                                  /\ work'[w] = work[w] /\ saved'[w] = saved[w]
    BY <1>1, <1>4 DEF Close, Put, files, Typed, Open
  <2>2. \A w \in Views \ {v} : Way(w)' = Way(w) /\ Home(w)' = Home(w)
    BY <2>1 DEF Way, Home
  <2> QED
    BY <1>1, <2>1, <2>2 DEF Ways, SavedWork
<1>5. ASSUME NEW v \in Views, Save(v) \/ SaveAs(v) PROVE Ways' /\ SavedWork'
  <2>1. PICK out : Saves(v, out)
    BY <1>1, <1>5, SavesAre
  <2>2. /\ out \in Databases /\ SaveTo(v, out) /\ v \in Open /\ filename[v] \in Files
        /\ pending = NoSave /\ pending' = NoSave
    BY <1>1, <2>1 DEF Saves, SaveTo, Open, Typed
  <2>3. \A w \in Views \ {v} : recorded[w] # out /\ filename[w] # out
    BY <1>1, <2>2, NoCollision
  <2>4. \A w \in Views : Home(w) = filename[w]
    BY <2>2 DEF Home
  <2>5. \A w \in Open \ {v} : Way(w) # out
    BY <1>1, <2>3, <2>4 DEF Way
  <2>6. CASE Saved(v, out, filename[v]) /\ OwnDatabase(v, out)
    <3>1. filename[v] # "raw" => out = filename[v]
      <4>1. SameFile(out, filename[v], linked) => out = filename[v]
        BY <2>2 DEF SaveTo, Harmless
      <4>2. out = CachePath(filename[v]) => out = DefaultPath(filename[v])
        BY <2>1, PathsAre DEF Saves
      <4> QED
        BY <2>2, <2>6, <4>1, <4>2, PathsAre DEF OwnDatabase
    <3> QED
      BY <1>1, <2>2, <2>3, <2>4, <2>5, <2>6, <3>1, SavedKeepsWays
  <2>7. CASE Exported(v, out)
    BY <2>2, <2>3, <2>7, ExportKeepsWays
  <2> QED
    BY <2>2, <2>6, <2>7 DEF SaveTo
<1>6. ASSUME NEW v \in Views, SaveFails(v) PROVE Ways' /\ SavedWork'
  <2>1. /\ pending = NoSave /\ UNCHANGED <<exists, disk, recorded, work, saved>>
        /\ pending' = [by |-> v, home |-> filename[v]] /\ v \in Open /\ filename[v] = "raw"
        /\ ~HoldsOtherWork(v, "raw.cache")
        /\ filename' \in {filename, [filename EXCEPT ![v] = "raw.bndb"]}
    BY <1>6, PathsAre DEF SaveFails, files, Harmless, Put, DefaultPath
  <2>2. pending' # NoSave /\ pending'.by = v /\ pending'.home = filename[v]
    BY <2>1 DEF NoSave, None
  <2>3. filename'[v] \in {"raw", "raw.bndb"} /\ \A w \in Views \ {v} : filename'[w] = filename[w]
    BY <1>1, <2>1 DEF Typed
  <2>4. Open' = Open
    BY <1>1, <2>1, <2>3 DEF Open, None
  <2>5. \A w \in Views : Home(w)' = Home(w) /\ Way(w)' = Way(w)
    BY <2>1, <2>2, <2>3 DEF Home, Way
  <2>6. "raw.cache" \in exists => recorded[v] = "raw.cache"
    BY <2>1 DEF HoldsOtherWork
  <2>7. \A w \in Open : Way(w) = "raw.cache" => recorded[v] = "raw.cache"
    BY <2>6, WaysAreFiles
  <2> QED
    BY <1>1, <2>1, <2>2, <2>4, <2>5, <2>7 DEF Ways, SavedWork
<1>7. CASE SaveToCache
  <2>1. /\ pending.by \in Open /\ pending.by \in Views /\ pending.home \in Files /\ pending.home = "raw"
        /\ CachePath(pending.home) = "raw.cache" /\ "raw.cache" \in Databases
        /\ Saved(pending.by, "raw.cache", pending.home) /\ pending # NoSave /\ pending' = NoSave
    BY <1>1, <1>7, PendingIs, PathsAre DEF SaveToCache, Ways
  <2>2. \A w \in Views \ {pending.by} : recorded[w] # "raw.cache"
    BY <1>1, <2>1 DEF EntryFree
  <2>3. ASSUME NEW w \in Open \ {pending.by}, Way(w) = "raw.cache" PROVE saved[w] = {}
    <3>1. recorded[pending.by] = "raw.cache"
      BY <1>1, <2>1, <2>3 DEF Ways
    <3> QED
      BY <1>1, <2>1, <2>3, <3>1, PathsAre DEF Ways
  <2>4. pending.home = Home(pending.by)
    BY <2>1 DEF Home
  <2> QED
    BY <2>1, <2>2, <2>3, <2>4, SavedKeepsWays
<1>8. CASE CacheFails
  <2>1. /\ pending # NoSave /\ pending' = NoSave /\ UNCHANGED <<exists, disk, recorded, work, saved, filename>>
        /\ filename[pending.by] = pending.home
    BY <1>8 DEF CacheFails, files, Harmless
  <2>2. \A w \in Views : Home(w)' = Home(w) /\ Way(w)' = Way(w)
    BY <2>1 DEF Home, Way
  <2> QED
    BY <1>1, <2>1, <2>2 DEF Ways, SavedWork, Open
<1>9. CASE Restart
  <2>1. /\ pending = NoSave /\ pending' = NoSave /\ UNCHANGED <<exists, disk>>
        /\ recorded' = [v \in Views |-> None]
    BY <1>9 DEF Restart, files
  <2>2. PICK back \in SUBSET {v \in Open : RestartPath(v) \in exists} :
          /\ filename' = [v \in Views |-> IF v \in back THEN RestartPath(v) ELSE None]
          /\ work' = [v \in Views |-> IF v \in back THEN disk[RestartPath(v)] ELSE {}]
          /\ saved' = [v \in Views |-> IF v \in back THEN saved[v] ELSE {}]
    BY <1>9 DEF Restart
  <2>3. \A v \in Views : Way(v) = RestartPath(v) /\ Home(v)' = filename'[v] /\ Way(v)' = filename'[v]
    BY <2>1 DEF Way, Home, RestartPath
  <2>4. \A v \in Open' : v \in back /\ v \in Open /\ v \in Views
    BY <1>1, <2>2 DEF Open
  <2>5. \A v \in back : RestartPath(v) # None /\ v \in Open /\ v \in Views /\ v \in Open'
    BY <1>1, <2>2, PathsAre DEF Open, Typed
  <2>6. \A v \in back : saved[v] \subseteq disk[RestartPath(v)]
    BY <1>1, <2>3, <2>5 DEF SavedWork
  <2>7. Ways'
    BY <2>1, <2>2, <2>3, <2>4 DEF Ways
  <2>8. SavedWork'
    BY <1>1, <2>1, <2>2, <2>3, <2>4, <2>5, <2>6 DEF SavedWork
  <2> QED
    BY <2>7, <2>8
<1>10. CASE OtherBridgeSaves
  <2>1. PICK entry \in CacheEntries, c \in Changes : Write(entry, disk[entry] \cup {c})
    BY <1>10 DEF OtherBridgeSaves
  <2>2. UNCHANGED <<filename, recorded, work, saved, pending>>
    BY <1>10 DEF OtherBridgeSaves, view
  <2>3. exists \subseteq exists' /\ \A f \in Files : disk[f] \subseteq disk'[f]
    BY <1>1, <2>1 DEF Write, Typed
  <2>4. Open' = Open /\ \A w \in Views : Home(w)' = Home(w) /\ Way(w)' = Way(w)
    BY <2>2 DEF Home, Way, Open
  <2>5. \A w \in Open : Way(w) \in Files
    BY WaysAreFiles
  <2>6. Ways'
    BY <1>1, <2>2, <2>3, <2>4 DEF Ways
  <2>7. SavedWork'
    BY <1>1, <2>2, <2>3, <2>4, <2>5 DEF SavedWork
  <2> QED
    BY <2>6, <2>7
<1> QED
  BY <1>2, <1>3, <1>4, <1>5, <1>6, <1>7, <1>8, <1>9, <1>10 DEF Next

\* What a plain save reported as saved is in the file that a restart reopens, for any
\* views that save, export, fall back and restart, and whatever another bridge does with
\* the cache; it takes one of the four failures in Harmless to lose it (bridge.py,
\* _save_database and note_database).
THEOREM RestartsFindTheWork ==
    ASSUME Harmless
    PROVE  Spec => []RestartFindsTheWork
<1>1. Init => RestartInv
  <2> SUFFICES ASSUME Init PROVE RestartInv
    OBVIOUS
  <2>1. Typed
    BY InitTyped
  <2>2. Open = {} /\ \A v \in Views : filename[v] = None /\ recorded[v] = None
    BY DEF Init, Open
  <2>3. Ways /\ SavedWork
    BY <2>2 DEF Init, Ways, SavedWork
  <2> QED
    BY <2>1, <2>2, <2>3 DEF RestartInv, Records
<1>2. RestartInv /\ [Next]_vars => RestartInv'
  <2>1. RestartInv /\ Next => RestartInv'
    BY TypedStep, RecordsStep, WaysStep, RestartIsFree DEF RestartInv
  <2>2. RestartInv /\ UNCHANGED vars => RestartInv'
    BY DEF vars, files, view, RestartInv, Typed, Records, Open, Ways, Way, Home, SavedWork
  <2> QED
    BY <2>1, <2>2
<1>3. RestartInv => RestartFindsTheWork
  <2> SUFFICES ASSUME RestartInv, pending = NoSave, NEW v \in Open
               PROVE  RestartPath(v) \in exists /\ saved[v] \subseteq disk[RestartPath(v)]
    BY DEF RestartFindsTheWork
  <2>1. Way(v) = RestartPath(v)
    BY DEF Way, Home, RestartPath
  <2> QED
    BY <2>1, WaysAreFiles DEF RestartInv, SavedWork
<1> QED
  BY <1>1, <1>2, <1>3, PTL DEF Spec

=============================================================================
