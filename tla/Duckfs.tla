-------------------------------- MODULE Duckfs --------------------------------
(***************************************************************************)
(* One node's duckfs: the block overlay of crates/duckfs/core/src/fs.rs,   *)
(* the commit ordering of crates/duckfs/disk/src/commit.rs, garbage        *)
(* collection, crash and restart.  A block runs verbs over a pending copy  *)
(* of the refs; committing it puts the buffered objects, saves the refs    *)
(* file (the commit point), adopts the refs in memory, and on the first    *)
(* block of a period marks and sweeps the object store.                    *)
(***************************************************************************)
EXTENDS DuckfsVerbs

CONSTANTS
  GcPeriod,    \* GC_PERIOD_BLOCKS
  MaxSource,   \* largest source revision (u64::MAX in the code)
  MaxHeight,   \* bound: block heights
  MaxRot       \* bound: objects the disk may lose or corrupt

ASSUME NodeAssumption ==
  /\ GcPeriod \in Nat \ {0}
  /\ MaxSource \in Nat /\ MaxHeight \in Nat /\ MaxRot \in Nat

VARIABLES
  cat,      \* bodies of the snapshots minted so far (content addressing)
  minted,   \* how many were minted; snapshot ids are 1..minted
  refs,     \* Fs::refs, the committed refs in memory: the module root
  block,    \* Fs::pending; after commit_block, the (refs, objects) handed over
  odb,      \* ids present in the on-disk object store
  disk,     \* the refs file: refs, height and gc watermark
  mark,     \* the gc watermark in memory
  height,   \* height of the block being executed or last executed
  phase,    \* where the block stands
  live,     \* the objects gc marked, while its sweep runs
  lost      \* history: objects the disk lost and nobody put back

vars == <<cat, minted, refs, block, odb, disk, mark, height, phase, live,
          lost>>

Object == Chunk \cup Snap
NoBlock == [open |-> FALSE, refs |-> GenesisRefs, objs |-> {}, put |-> {}]
Phases == {"exec", "flush", "saved", "sweep", "skip", "done"}

(* Types, and through Refs the cap of the history window: whatever commits *)
(* and projections push, in memory, in the overlay and in the refs file.    *)
TypeOK ==
  /\ cat \in [Snap -> Body] /\ minted \in 0..MaxSnap
  /\ refs \in Refs
  /\ block \in [open : BOOLEAN, refs : Refs, objs : SUBSET Object,
               put : SUBSET Object]
  /\ odb \in SUBSET Object /\ live \in SUBSET Object /\ lost \in SUBSET Object
  /\ disk \in [refs : Refs, height : Nat, mark : Nat]
  /\ mark \in Nat /\ height \in Nat /\ phase \in Phases

Init ==
  /\ cat = [s \in Snap |-> Unborn] /\ minted = 0
  /\ refs = GenesisRefs /\ block = NoBlock
  /\ odb = {} /\ live = {} /\ lost = {}
  /\ disk = [refs |-> GenesisRefs, height |-> 0, mark |-> 0]
  /\ mark = 0 /\ height = 0 /\ phase = "done"

------------------------------------------------------------------------------
(* Verbs *)

(* The effective refs: the overlay when a verb already forked it. *)
View == IF block.open THEN block.refs ELSE refs

NextBlock ==
  /\ phase = "done" \/ (phase = "exec" /\ ~block.open)
  /\ height < MaxHeight
  /\ height' = height + 1 /\ phase' = "exec"
  /\ UNCHANGED <<live, cat, minted, refs, block, odb, disk, mark, lost>>

Overlay(r, o) ==
  /\ phase = "exec"
  /\ block' = [open |-> TRUE, refs |-> r, objs |-> o, put |-> {}]
  /\ UNCHANGED <<live, refs, odb, disk, mark, height, phase, lost>>

(* What an accepted verb leaves in the overlay.  transact refuses every verb *)
(* once the source revision has no successor.                               *)
Stage(r, o) == View.rev < MaxSource /\ Overlay(r, o)

(* A snapshot is its content: a body met before at this height may be the   *)
(* very same object (a replayed block), else a new id is taken.             *)
Mint(id, body) ==
  \/ /\ id \in 1..minted /\ cat[id] = body
     /\ UNCHANGED <<cat, minted>>
  \/ /\ minted < MaxSnap /\ id = minted + 1
     /\ minted' = id
     /\ cat' = [cat EXCEPT ![id] = body]

PutBlob(o, c) ==
  /\ PutBlobOk(View, block.objs, o, c, height)
  /\ Stage(PutBlobRefs(View, block.objs, o, c, height),
           PutBlobObjs(View, block.objs, c, height))
  /\ UNCHANGED <<cat, minted>>

Commit(base, ch) == \E id \in Snap :
  /\ CommitOk(cat, View, block.objs, odb, base, ch, height)
  /\ Mint(id, CommitBody(cat, View, base, ch, height))
  /\ Stage(CommitRefs(View, ch, id, height), CommitObjs(block.objs, odb, ch, id))

ProjectSnapshot(s, p) == \E id \in Snap :
  /\ ProjectOk(cat, View, block.objs, odb, s, p)
  /\ Mint(id, ProjectBody(cat, s, p, height))
  /\ Stage(ProjectRefs(View, id, height), block.objs \cup {id})

Pin(o, s, n) ==
  /\ PinOk(View, o, s, n, height)
  /\ Stage(PinRefs(View, o, s, n, height), block.objs)
  /\ UNCHANGED <<cat, minted>>

Unpin(n) ==
  /\ UnpinOk(View, n)
  /\ Stage(UnpinRefs(View, n, height), block.objs)
  /\ UNCHANGED <<cat, minted>>

RegisterWatch(w) ==
  /\ WatchOk(View, w, height)
  /\ Stage(WatchRefs(View, w, height), block.objs)
  /\ UNCHANGED <<cat, minted>>

Unwatch(w) ==
  /\ UnwatchOk(View, w)
  /\ Stage(UnwatchRefs(View, w, height), block.objs)
  /\ UNCHANGED <<cat, minted>>

Retain(k, new) ==
  /\ RetainOk(View, k, View.ret[k], new)
  /\ Stage(RetainRefs(View, k, View.ret[k], new, height), block.objs)
  /\ UNCHANGED <<cat, minted>>

(* A refused verb restores the refs it found and leaves an open overlay. *)
Refuse ==
  /\ Overlay(View, block.objs)
  /\ UNCHANGED <<cat, minted>>

Verb ==
  \/ \E o \in Owner, c \in Chunk : PutBlob(o, c)
  \/ \E base \in 0..minted, ch \in Changes : Commit(base, ch)
  \/ \E s \in 1..minted, p \in Path : ProjectSnapshot(s, p)
  \/ \E o \in Owner, s \in 1..minted, n \in PinName : Pin(o, s, n)
  \/ \E n \in PinName : Unpin(n)
  \/ \E w \in Watch : RegisterWatch(w)
  \/ \E w \in Watch : Unwatch(w)
  \/ \E k \in RetKey, s \in 1..minted, v \in 1..MaxRev :
       Retain(k, [snap |-> s, rev |-> v])
  \/ \E k \in RetKey : Retain(k, NoEntry)
  \/ Refuse

------------------------------------------------------------------------------
(* The block boundary *)

AbortBlock ==
  /\ phase = "exec" /\ block.open
  /\ block' = NoBlock
  /\ UNCHANGED <<live, cat, minted, refs, odb, disk, mark, height, phase, lost>>

CommitBlock ==
  /\ phase = "exec" /\ block.open
  /\ phase' = "flush"
  /\ UNCHANGED <<live, cat, minted, refs, block, odb, disk, mark, height, lost>>

PutObject(o) ==
  /\ phase = "flush" /\ o \in block.objs \ block.put
  /\ odb' = odb \cup {o} /\ lost' = lost \ {o}
  /\ block' = [block EXCEPT !.put = @ \cup {o}]
  /\ UNCHANGED <<live, cat, minted, refs, disk, mark, height, phase>>

SaveRefs ==
  /\ phase = "flush" /\ block.put = block.objs
  /\ disk' = [refs |-> block.refs, height |-> height, mark |-> mark]
  /\ phase' = "saved"
  /\ UNCHANGED <<live, cat, minted, refs, block, odb, mark, height, lost>>

GcDue(h, w) == h \div GcPeriod > w \div GcPeriod

MarkNeverFails(r) == FALSE   \* mutant: sweeps on a partial mark

(* gc::mark reads every object it reaches and errors on a missing one; the  *)
(* boundary then skips its sweep.                                           *)
MarkFails(r) == ~(Marked(cat, r, odb) \subseteq odb)

Adopt ==
  /\ phase = "saved"
  /\ refs' = block.refs /\ block' = NoBlock
  /\ \/ ~GcDue(height, mark) /\ phase' = "done" /\ live' = {}
     \/ GcDue(height, mark) /\ MarkFails(block.refs) /\ phase' = "skip" /\ live' = {}
     \/ /\ GcDue(height, mark) /\ ~MarkFails(block.refs)
        /\ phase' = "sweep" /\ live' = Marked(cat, block.refs, odb)
  /\ UNCHANGED <<cat, minted, odb, disk, mark, height, lost>>

SweepObject(o) ==
  /\ phase = "sweep" /\ o \in odb \ live
  /\ odb' = odb \ {o}
  /\ UNCHANGED <<live, cat, minted, refs, block, disk, mark, height, phase, lost>>

SaveWatermarkStale ==  \* mutant: saves the handed-over block it no longer has
  /\ phase = "skip" \/ (phase = "sweep" /\ odb \subseteq live)
  /\ disk' = [refs |-> block.refs, height |-> height, mark |-> height]
  /\ mark' = height /\ phase' = "done" /\ live' = {}
  /\ UNCHANGED <<cat, minted, refs, block, odb, height, lost>>

SaveWatermark ==
  /\ phase = "skip" \/ (phase = "sweep" /\ odb \subseteq live)
  /\ disk' = [refs |-> refs, height |-> height, mark |-> height]
  /\ mark' = height /\ phase' = "done" /\ live' = {}
  /\ UNCHANGED <<cat, minted, refs, block, odb, height, lost>>

------------------------------------------------------------------------------
(* The environment *)

(* A crash, or an I/O error that stops the node: memory is rebuilt from the *)
(* refs file and the blocks after its height are executed again.            *)
Crash ==
  /\ refs' = disk.refs /\ mark' = disk.mark /\ height' = disk.height
  /\ block' = NoBlock /\ phase' = "done" /\ live' = {}
  /\ UNCHANGED <<cat, minted, odb, disk, lost>>

(* An object's file is gone: lost, or dropped by verify as corrupt.  A flip *)
(* that keeps the length, which has and put do not see, is not modelled.    *)
Rot(o) ==
  /\ o \in odb /\ Cardinality(lost) < MaxRot
  /\ odb' = odb \ {o} /\ lost' = lost \cup {o}
  /\ UNCHANGED <<live, cat, minted, refs, block, disk, mark, height, phase>>

Next ==
  \/ NextBlock \/ (phase = "exec" /\ Verb)
  \/ AbortBlock \/ CommitBlock
  \/ \E o \in Object : PutObject(o)
  \/ SaveRefs \/ Adopt
  \/ \E o \in Object : SweepObject(o)
  \/ SaveWatermark
  \/ Crash
  \/ \E o \in Object : Rot(o)

Spec == Init /\ [][Next]_vars

------------------------------------------------------------------------------
(* Properties *)

(* Whatever the order of flushes, crashes, aborts and sweeps, the refs file *)
(* a restart would load names only objects the odb holds: the "no torn      *)
(* window" contract of Fs::commit_block and DiskRefs.  A lossy disk is the  *)
(* one excuse.                                                                  *)
DurableClosure == Live(cat, disk.refs) \subseteq odb \cup lost

(* A block in progress never depends on an object that is neither stored    *)
(* nor buffered: a dedup against the local odb (stage_object) stays good    *)
(* until the block is saved, so the flush completes the closure.            *)
PendingClosure ==
  block.open => Live(cat, block.refs) \subseteq odb \cup block.objs \cup lost

(* The module root in memory never runs ahead of the refs file; it lags     *)
(* only between the save and the adoption.                                  *)
RootNeverAhead == refs # disk.refs => phase = "saved"

(* Retention membership, which decides what a base or a pin may name, is    *)
(* the number of references to each snapshot, through every exchange.       *)
MembershipCounts == \A r \in {refs, disk.refs, block.refs} : CountsExact(r)

(* Whatever a verb or a query accepts as a base, a pin or a reference is    *)
(* there to be read: membership, answered by the catalog's counts, never    *)
(* outlives what gc keeps.                                                  *)
ResolvableReadable ==
  \A s \in Snap :
    /\ Contains(refs, s) => SnapObjects(cat, s) \subseteq odb \cup block.objs \cup lost
    /\ Contains(View, s) => SnapObjects(cat, s) \subseteq odb \cup block.objs \cup lost

(* A saved revision names one state: the refs file changes only together    *)
(* with a higher source revision, across aborts, crashes and replays.       *)
RevisionNamesState ==
  [][disk'.refs # disk.refs => disk'.refs.rev > disk.refs.rev]_vars

(* To a reader of the refs file a block is atomic: the save is its commit   *)
(* point, and aborts, crashes, adoptions and sweeps change nothing else     *)
(* (duckfs-disk's recovery contract).                                       *)
Atomic == INSTANCE DuckfsAtomic WITH
  Image   <- Refs,
  Genesis <- GenesisRefs,
  image   <- disk.refs,
  draft   <- IF phase \in {"exec", "flush"}
             THEN [open |-> block.open, refs |-> block.refs]
             ELSE [open |-> FALSE, refs |-> GenesisRefs]

ImplementsAtomic == Atomic!Spec
==============================================================================
