----------------------------- MODULE DuckfsVerbs -----------------------------
(***************************************************************************)
(* The verbs of the duckfs state machine (crates/duckfs/core/src/fs.rs) as *)
(* pure operators.  A verb reads                                           *)
(*   r    the effective refs of the block (Pending::refs),                 *)
(*   objs the objects the block buffered so far (Pending::object_ids),     *)
(*   odb  the objects in this node's local object store,                   *)
(*   cat  the catalogue of snapshot bodies, cat[s] for a snapshot s,       *)
(* at a block height h.  XxxOk is the conjunction of the verb's checks,    *)
(* XxxRefs the refs it leaves and XxxObjs the objects it buffers.          *)
(* Duckfs.tla drives one node with them and DuckfsReplicas.tla several     *)
(* nodes over one operation stream.                                        *)
(*                                                                         *)
(* Data abstraction: a path is one entry of a flat tree, a file is one     *)
(* chunk, and a snapshot object stands for itself with the tree and file   *)
(* objects only it reaches.  The chunk stays an object of its own because  *)
(* it is staged, shared and deduplicated by content.                       *)
(***************************************************************************)
EXTENDS Naturals, Sequences, FiniteSets

CONSTANTS
  Path,        \* canonical paths of the tree
  Chunk,       \* content-addressed chunks (a chunk is its own digest)
  Owner,       \* principals: a staging entry and a pin belong to one
  PinName,     \* names of the public pin table
  Watch,       \* (prefix, module) pairs that may be watched
  RetKey,      \* (module, key) pairs of the protected retention catalog
  Absent,      \* no entry at a path
  NoEntry,     \* no row in a table
  ChunkLen,    \* byte length of every chunk
  MaxSnap,     \* bound: snapshots ever minted
  MaxRev,      \* bound: retention revisions tried
  WindowCap,   \* HISTORY_WINDOW
  StagingCap,  \* MAX_STAGING_ENTRIES
  OwnerCap,    \* MAX_STAGING_ENTRIES_PER_OWNER
  Quota,       \* STAGING_QUOTA_BYTES
  PinCap,      \* MAX_PINS
  PinShare,    \* MAX_PINS_PER_OWNER
  WatchCap,    \* MAX_WATCHES
  TTL,         \* STAGING_TTL_BLOCKS
  EntryLen,    \* encoded bytes of an id and of a staging, pin and watch entry
  MaxImage     \* MAX_REFS_IMAGE_BYTES, less the fixed fields of the image

ASSUME SizesAssumption ==
  /\ MaxSnap \in Nat /\ MaxRev \in Nat
  /\ WindowCap \in Nat \ {0}
  /\ TTL \in Nat \ {0}

ASSUME TablesAssumption ==
  /\ ChunkLen \in [Chunk -> Nat]
  /\ {StagingCap, OwnerCap, Quota, PinCap, PinShare, WatchCap} \subseteq Nat
  /\ IsFiniteSet(Chunk) /\ IsFiniteSet(PinName)
  /\ IsFiniteSet(Watch) /\ IsFiniteSet(RetKey)
  /\ EntryLen \in [{"id", "staged", "pin", "watch"} -> Nat]
  /\ MaxImage \in Nat /\ EntryLen["id"] * (WindowCap + 2) <= MaxImage

ASSUME SentinelAssumption ==
  /\ Absent \notin Chunk
  /\ Chunk \cap 1..MaxSnap = {}
  /\ NoEntry \notin [owner : Owner, expires : Nat]
  /\ NoEntry \notin [owner : Owner, snap : 1..MaxSnap]
  /\ NoEntry \notin [snap : 1..MaxSnap, rev : 1..MaxRev]

------------------------------------------------------------------------------
(* The state *)

Snap == 1..MaxSnap
None == 0                    \* Option::<ObjectId>::None of a head or a base
Tree == [Path -> Chunk \cup {Absent}]
EmptyTree == [p \in Path |-> Absent]

(* A snapshot body: its tree, parent and height are fields of SnapshotObj;  *)
(* base and kind are history, the base its author worked from and its verb. *)
Body == [tree : Tree, parent : 0..MaxSnap, base : 0..MaxSnap, at : Nat,
         kind : {"commit", "projection", "unborn"}]
Unborn == [tree |-> EmptyTree, parent |-> None, base |-> None, at |-> 0,
           kind |-> "unborn"]

StagedRow == [owner : Owner, expires : Nat]
PinRow == [owner : Owner, snap : Snap]
RetRow == [snap : Snap, rev : 1..MaxRev]

(* The history window never outgrows its cap. *)
Window == {w \in Seq(Snap) : Len(w) <= WindowCap}

Refs == [rev     : Nat,
         head    : 0..MaxSnap,
         window  : Window,
         pins    : [PinName -> PinRow \cup {NoEntry}],
         staging : [Chunk -> StagedRow \cup {NoEntry}],
         watches : SUBSET Watch,
         ret     : [RetKey -> RetRow \cup {NoEntry}],
         members : [Snap -> Nat]]

GenesisRefs ==
  [rev     |-> 0,
   head    |-> None,
   window  |-> <<>>,
   pins    |-> [n \in PinName |-> NoEntry],
   staging |-> [c \in Chunk |-> NoEntry],
   watches |-> {},
   ret     |-> [k \in RetKey |-> NoEntry],
   members |-> [s \in Snap |-> 0]]

------------------------------------------------------------------------------
(* Reachability: the walk of gc::mark *)

TreeChunks(t) == {t[p] : p \in Path} \ {Absent}

(* The objects one snapshot reaches.  Its parent pointer is no gc edge. *)
SnapObjects(cat, s) == {s} \cup TreeChunks(cat[s].tree)

WindowSnaps(r) == {r.window[i] : i \in DOMAIN r.window}
PinSnaps(r) == {r.pins[n].snap : n \in {m \in PinName : r.pins[m] # NoEntry}}
RetSnaps(r) == {r.ret[k].snap : k \in {j \in RetKey : r.ret[j] # NoEntry}}

RootsUnpinned(r) ==       \* mutant: the walk forgets the pin table
  ({r.head} \ {None}) \cup WindowSnaps(r) \cup RetSnaps(r)

Roots(r) == ({r.head} \ {None}) \cup WindowSnaps(r) \cup PinSnaps(r) \cup RetSnaps(r)

StagedChunks(r) == {c \in Chunk : r.staging[c] # NoEntry}

Live(cat, r) == StagedChunks(r) \cup UNION {SnapObjects(cat, s) : s \in Roots(r)}

(* What the walk reaches when only the objects of odb can be read: a lost   *)
(* snapshot hides what lies behind it.                                      *)
Marked(cat, r, odb) ==
  StagedChunks(r)
    \cup UNION {IF s \in odb THEN SnapObjects(cat, s) ELSE {s} : s \in Roots(r)}

(* Membership used by bases, pins, projections and retention references:   *)
(* the catalog answers from its counts, not from its references.           *)
Contains(r, s) ==
  \/ r.head = s
  \/ s \in WindowSnaps(r)
  \/ s \in PinSnaps(r)
  \/ r.members[s] # 0

(* The keys that reference a snapshot, and the counts that stand for them.  *)
HoldersOf(r, s) == {k \in RetKey : r.ret[k] # NoEntry /\ r.ret[k].snap = s}
CountsExact(r) == \A s \in Snap : r.members[s] = Cardinality(HoldersOf(r, s))

TreeOf(cat, s) == IF s = None THEN EmptyTree ELSE cat[s].tree

------------------------------------------------------------------------------
(* Shared steps of the verbs *)

SweptEarly(r, h) ==       \* mutant: drops a row one block before its expiry
  [r EXCEPT !.staging = [c \in Chunk |->
     IF r.staging[c] # NoEntry /\ r.staging[c].expires <= h + 1
     THEN NoEntry ELSE r.staging[c]]]

(* The staging sweep every verb runs first: expires_at <= h is dropped. *)
Swept(r, h) ==
  [r EXCEPT !.staging = [c \in Chunk |->
     IF r.staging[c] # NoEntry /\ r.staging[c].expires <= h
     THEN NoEntry ELSE r.staging[c]]]

PushedOver(w, s) ==       \* mutant: evicts only once the window is past its cap
  IF Len(w) <= WindowCap THEN Append(w, s) ELSE Append(Tail(w), s)

(* Push a snapshot into the bounded window, oldest out first. *)
Pushed(w, s) == IF Len(w) < WindowCap THEN Append(w, s) ELSE Append(Tail(w), s)

TransactedUnticked(before, after) == after   \* mutant: forgets the revision

(* The revision rule of transact: one step exactly when the verb changed    *)
(* the refs.                                                                *)
Transacted(before, after) ==
  IF after = before THEN before ELSE [after EXCEPT !.rev = before.rev + 1]

(* Rows of the pin table, held by anyone. *)
Pinned(r) == {n \in PinName : r.pins[n] # NoEntry}

(* The encoded image and the bytes commits, projections and retention may   *)
(* still add ungated: a first head, a first retention root and the unfilled *)
(* window.  Every gated growth path leaves that much room.                  *)
ImageLen(r) ==
  EntryLen["id"] * ( (IF r.head = None THEN 0 ELSE 1) + Len(r.window)
                     + (IF RetSnaps(r) = {} THEN 0 ELSE 1) )
  + EntryLen["staged"] * Cardinality(StagedChunks(r))
  + EntryLen["pin"] * Cardinality(Pinned(r))
  + EntryLen["watch"] * Cardinality(r.watches)

Headroom(r) ==
  EntryLen["id"] * ( (IF r.head = None THEN 1 ELSE 0) + (WindowCap - Len(r.window))
                     + (IF RetSnaps(r) = {} THEN 1 ELSE 0) )

GrowthFitsBefore(r, len) ==   \* mutant: measures the image without the new entry
  ImageLen(r) + Headroom(r) <= MaxImage

GrowthFits(r, len) == ImageLen(r) + len + Headroom(r) <= MaxImage

OwnedChunks(r, o) == {c \in StagedChunks(r) : r.staging[c].owner = o}
Bytes(S) == Cardinality(UNION {{c} \X (1..ChunkLen[c]) : c \in S})

------------------------------------------------------------------------------
(* putblob: stage a chunk.  The dedup looks at consensus-uniform state only *)

AlreadyStaged(r, objs, c, h) == c \in objs \/ Swept(r, h).staging[c] # NoEntry

PutBlobOk(r, objs, o, c, h) ==
  \/ AlreadyStaged(r, objs, c, h)
  \/ LET s == Swept(r, h) IN
     /\ Cardinality(StagedChunks(s)) < StagingCap
     /\ Cardinality(OwnedChunks(s, o)) < OwnerCap
     /\ Bytes(OwnedChunks(s, o)) + ChunkLen[c] <= Quota
     /\ GrowthFits(s, EntryLen["staged"])

PutBlobRefs(r, objs, o, c, h) ==
  IF AlreadyStaged(r, objs, c, h) THEN Transacted(r, Swept(r, h))
  ELSE Transacted(r, [Swept(r, h) EXCEPT
                        !.staging[c] = [owner |-> o, expires |-> h + TTL]])

PutBlobObjsRowOnly(r, objs, c, h) == objs   \* mutant: a row without its bytes

PutBlobObjs(r, objs, c, h) ==
  IF AlreadyStaged(r, objs, c, h) THEN objs ELSE objs \cup {c}

------------------------------------------------------------------------------
(* commit: all-or-nothing edits over the effective head.  An edit maps each *)
(* touched path to what happens there; a path is touched at most once.      *)

Edit == {[op |-> "inline", chunk |-> c] : c \in Chunk}
          \cup {[op |-> "chunks", chunk |-> c] : c \in Chunk}
          \cup {[op |-> "rm", chunk |-> Absent]}

Changes == UNION {[T -> Edit] : T \in (SUBSET Path) \ {{}}}

ChunksBy(ch, op) == {ch[p].chunk : p \in {q \in DOMAIN ch : ch[q].op = op}}
Referenced(ch) == ChunksBy(ch, "inline") \cup ChunksBy(ch, "chunks")

(* stage_object buffers an inline chunk unless the block or the LOCAL odb   *)
(* already has it.                                                          *)
NewlyStaged(objs, odb, ch) == ChunksBy(ch, "inline") \ (objs \cup odb)

(* chunk_stat: a referenced chunk must be staged, buffered by this block, or *)
(* buffered by this very commit.                                             *)
ChunksAvailable(r, objs, odb, ch) ==
  ChunksBy(ch, "chunks") \subseteq
     StagedChunks(r) \cup objs \cup NewlyStaged(objs, odb, ch)

(* The per-path compare: base and effective head agree on every path touched *)
Unmoved(cat, r, base, ch) ==
  \A p \in DOMAIN ch : TreeOf(cat, base)[p] = TreeOf(cat, r.head)[p]

Readable(objs, odb, s) == s = None \/ s \in objs \cup odb

CommitOk(cat, r, objs, odb, base, ch, h) ==
  LET s == Swept(r, h) IN
  /\ base # None => Contains(s, base)
  /\ Readable(objs, odb, base) /\ Readable(objs, odb, r.head)
  /\ ChunksAvailable(s, objs, odb, ch)
  /\ Unmoved(cat, s, base, ch)
  /\ \A p \in DOMAIN ch : ch[p].op = "rm" => TreeOf(cat, s.head)[p] # Absent

CommitTree(cat, r, ch) ==
  [p \in Path |-> IF p \in DOMAIN ch THEN ch[p].chunk ELSE TreeOf(cat, r.head)[p]]

CommitBody(cat, r, base, ch, h) ==
  [tree |-> CommitTree(cat, r, ch), parent |-> r.head, base |-> base,
   at |-> h, kind |-> "commit"]

CommitRefs(r, ch, id, h) ==
  LET s == Swept(r, h) IN
  Transacted(r, [s EXCEPT
    !.head = id,
    !.window = Pushed(s.window, id),
    !.staging = [c \in Chunk |-> IF c \in Referenced(ch) THEN NoEntry
                                 ELSE s.staging[c]]])

CommitObjs(objs, odb, ch, id) == objs \cup NewlyStaged(objs, odb, ch) \cup {id}

------------------------------------------------------------------------------
(* project_snapshot: one path of a snapshot as a detached candidate, held   *)
(* by the window only; the head stays.                                      *)

ProjectOk(cat, r, objs, odb, s, p) ==
  /\ Contains(r, s)
  /\ Readable(objs, odb, s)
  /\ cat[s].tree[p] # Absent

ProjectBody(cat, s, p, h) ==
  [tree |-> [EmptyTree EXCEPT ![p] = cat[s].tree[p]], parent |-> None,
   base |-> s, at |-> h, kind |-> "projection"]

ProjectRefs(r, id, h) ==
  Transacted(r, [Swept(r, h) EXCEPT !.window = Pushed(r.window, id)])

------------------------------------------------------------------------------
(* pin / unpin *)

PinsOf(r, o) == {n \in Pinned(r) : r.pins[n].owner = o}

PinOk(r, o, s, n, h) ==
  /\ Cardinality(Pinned(r)) < PinCap
  /\ r.pins[n] = NoEntry
  /\ Cardinality(PinsOf(r, o)) < PinShare
  /\ Contains(r, s)
  /\ GrowthFits(Swept(r, h), EntryLen["pin"])

PinRefs(r, o, s, n, h) ==
  Transacted(r, [Swept(r, h) EXCEPT !.pins[n] = [owner |-> o, snap |-> s]])

UnpinOk(r, n) == r.pins[n] # NoEntry

UnpinRefs(r, n, h) == Transacted(r, [Swept(r, h) EXCEPT !.pins[n] = NoEntry])

------------------------------------------------------------------------------
(* watch / unwatch *)

WatchOk(r, w, h) ==
  /\ w \notin r.watches
  /\ Cardinality(r.watches) < WatchCap
  /\ GrowthFits(Swept(r, h), EntryLen["watch"])

WatchRefs(r, w, h) ==
  Transacted(r, [Swept(r, h) EXCEPT !.watches = r.watches \cup {w}])

UnwatchOk(r, w) == w \in r.watches

UnwatchRefs(r, w, h) ==
  Transacted(r, [Swept(r, h) EXCEPT !.watches = r.watches \ {w}])

------------------------------------------------------------------------------
(* compare_exchange_retention: the reference is swapped against the row the *)
(* caller expects, its revision advances, and the membership counts follow. *)

SameSnap(old, new) == old # NoEntry /\ new # NoEntry /\ old.snap = new.snap

RetainOk(r, k, old, new) ==
  /\ new # NoEntry => Contains(r, new.snap)
  /\ r.ret[k] = old
  /\ (old # new /\ old # NoEntry /\ new # NoEntry) => new.rev > old.rev
  /\ (old # NoEntry /\ ~SameSnap(old, new)) => r.members[old.snap] > 0

RecountedSame(m, old, new) ==      \* mutant: moves on a mere revision bump
  [s \in Snap |->
     IF old # NoEntry /\ s = old.snap THEN m[s] - 1
     ELSE IF new # NoEntry /\ s = new.snap THEN m[s] + 1
     ELSE m[s]]

(* The counts move only when the snapshot named by the row changes. *)
Recounted(m, old, new) ==
  IF SameSnap(old, new) THEN m
  ELSE [s \in Snap |->
          IF old # NoEntry /\ s = old.snap THEN m[s] - 1
          ELSE IF new # NoEntry /\ s = new.snap THEN m[s] + 1
          ELSE m[s]]

RetainRefs(r, k, old, new, h) ==
  Transacted(r, [Swept(r, h) EXCEPT !.ret[k] = new,
                                    !.members = Recounted(r.members, old, new)])
=============================================================================
