------------------------------ MODULE DuckfsDisk ------------------------------
(***************************************************************************)
(* Durability under crates/duckfs/disk: which directory entries survive a  *)
(* power loss while a block is flushed (DiskStore::put, sync_dirs), its    *)
(* refs file saved (DiskRefs::save) and the store swept.  Duckfs.tla takes *)
(* "put, then save" for durable; this module looks at the fsyncs.          *)
(*                                                                         *)
(* Two failures differ.  A dead process loses its memory, and the list of  *)
(* directories it still had to fsync with it, but the page cache stays: a  *)
(* restart sees every rename.  A power loss keeps what was fsynced, and of *)
(* the rest whatever the kernel happened to write back.                    *)
(***************************************************************************)
EXTENDS Naturals, FiniteSets

CONSTANTS
  Obj,          \* content-addressed objects
  Dir,          \* fanout directories
  DirOf,        \* the directory an object's file lives in
  PowerLosses   \* may the machine lose power

ASSUME DiskAssumption ==
  /\ DirOf \in [Obj -> Dir]
  /\ PowerLosses \in BOOLEAN

VARIABLES
  seen,      \* objects with a visible directory entry (page cache)
  durable,   \* objects with a directory entry on the medium
  dirty,     \* DiskStore::dirty: directories put renamed into, not yet fsynced
  named,     \* objects the visible refs file reaches
  onDisk,    \* objects the refs file on the medium reaches
  block,     \* the block being persisted: its objects, the refs it leads to
  phase,     \* "idle", "put", "synced", "renamed" or "sweep"
  slipped    \* history: objects a flush that died had put and not fsynced, until
             \* their directory is; later puts of them mark nothing

vars == <<seen, durable, dirty, named, onDisk, block, phase, slipped>>

NoBlock == [objs |-> {}, next |-> {}, put |-> {}]

TypeOK ==
  /\ seen \subseteq Obj /\ durable \subseteq Obj /\ dirty \subseteq Dir
  /\ named \subseteq Obj /\ onDisk \subseteq Obj
  /\ block \in [objs : SUBSET Obj, next : SUBSET Obj, put : SUBSET Obj]
  /\ phase \in {"idle", "put", "synced", "renamed", "sweep"}
  /\ slipped \subseteq Obj

Init ==
  /\ seen = {} /\ durable = {} /\ dirty = {}
  /\ named = {} /\ onDisk = {}
  /\ block = NoBlock /\ phase = "idle" /\ slipped = {}

------------------------------------------------------------------------------
(* Fs::commit_block hands over the block.  The refs it leads to reach what  *)
(* the old ones reached, its own objects and, by stage_object's dedup,      *)
(* anything the store already shows.                                        *)
HandOver(objs, next) ==
  /\ phase = "idle"
  /\ next \subseteq named \cup objs \cup seen
  /\ block' = [objs |-> objs, next |-> next, put |-> {}]
  /\ phase' = "put"
  /\ UNCHANGED <<seen, durable, dirty, named, onDisk, slipped>>

(* put: an entry of the right length is left alone, and its directory is    *)
(* not marked; else tmp, fsync of the bytes, rename, mark.                  *)
Put(o) ==
  /\ phase = "put" /\ o \in block.objs \ block.put
  /\ block' = [block EXCEPT !.put = @ \cup {o}]
  /\ seen' = seen \cup {o}
  /\ dirty' = IF o \in seen THEN dirty ELSE dirty \cup {DirOf[o]}
  /\ UNCHANGED <<durable, named, onDisk, phase, slipped>>

(* An fsynced directory has on the medium the entries it shows.             *)
Synced(ds) == {o \in Obj : IF DirOf[o] \in ds THEN o \in seen ELSE o \in durable}

SyncDirsRootOnly ==   \* mutant: fsyncs the odb root, not the fanout dirs
  /\ phase = "put" /\ block.put = block.objs
  /\ dirty' = {} /\ phase' = "synced"
  /\ UNCHANGED <<seen, durable, named, onDisk, block, slipped>>

SyncDirs ==
  /\ phase = "put" /\ block.put = block.objs
  /\ durable' = Synced(dirty) /\ dirty' = {} /\ slipped' = slipped \ durable'
  /\ phase' = "synced"
  /\ UNCHANGED <<seen, named, onDisk, block>>

(* DiskRefs::save: the rename, then the fsync of the parent directory.      *)
RenameRefs ==
  /\ phase = "synced"
  /\ named' = block.next /\ phase' = "renamed"
  /\ UNCHANGED <<seen, durable, dirty, onDisk, block, slipped>>

FsyncRefs ==
  /\ phase = "renamed"
  /\ onDisk' = named /\ phase' = "sweep" /\ block' = NoBlock
  /\ UNCHANGED <<seen, durable, dirty, named, slipped>>

(* gc: remove what the saved refs do not reach.  Nothing fsyncs a removal.  *)
Remove(o) ==
  /\ phase = "sweep" /\ o \in seen \ named
  /\ seen' = seen \ {o} /\ slipped' = slipped \ {o}
  /\ UNCHANGED <<durable, dirty, named, onDisk, block, phase>>

EndBlock ==
  /\ phase = "sweep" /\ phase' = "idle"
  /\ UNCHANGED <<seen, durable, dirty, named, onDisk, block, slipped>>

------------------------------------------------------------------------------
(* DiskStore::open starts with no directory to fsync, whatever a flush that *)
(* died had left to do.                                                     *)
ProcessCrash ==
  /\ slipped' = slipped \cup {o \in seen \ durable : DirOf[o] \in dirty}
  /\ dirty' = {} /\ block' = NoBlock /\ phase' = "idle"
  /\ UNCHANGED <<seen, durable, named, onDisk>>

(* The medium decides about every entry and rename not fsynced.             *)
PowerLoss(kept, file) ==
  /\ PowerLosses
  /\ seen \cap durable \subseteq kept /\ kept \subseteq seen \cup durable
  /\ file \in {named, onDisk}
  /\ seen' = kept /\ durable' = kept
  /\ named' = file /\ onDisk' = file
  /\ slipped' = (slipped \ kept) \cap file
  /\ dirty' = {} /\ block' = NoBlock /\ phase' = "idle"

Next ==
  \/ \E objs, next \in SUBSET Obj : HandOver(objs, next)
  \/ \E o \in Obj : Put(o)
  \/ SyncDirs \/ RenameRefs \/ FsyncRefs
  \/ \E o \in Obj : Remove(o)
  \/ EndBlock
  \/ ProcessCrash
  \/ \E kept \in SUBSET Obj, file \in {named, onDisk} : PowerLoss(kept, file)

Spec == Init /\ [][Next]_vars

------------------------------------------------------------------------------
(* Properties *)

(* The "no window" contract of DiskRefs and sync_dirs, as far as the code   *)
(* keeps it: whatever fails and however often blocks are replayed, the refs *)
(* file a restart loads reaches only objects whose directory entries are    *)
(* there.  The exception takes two failures: a flush dies between a put and *)
(* sync_dirs (or a promotion fails there), the retry finds the entry and    *)
(* marks nothing (disk.rs:105), and power goes before anything fsyncs that  *)
(* directory.  Until the power loss slipped objects are seen, and without a *)
(* dead flush there are none.                                               *)
NoTornWindow == named \ seen \subseteq slipped

(* The inductive form: what either copy of the refs file reaches is on the  *)
(* medium and stays visible, or has slipped.                                *)
NamedDurable == named \cup onDisk \subseteq (seen \cap durable) \cup slipped
==============================================================================
