# ducktape-sdk: a verification project in TLA+

This directory models the state machines of the ducktape SDK and states what
makes them correct. TLC checks the properties on small instances; TLAPS proves
the most important ones for every value of the constants. `PROJECT.json` maps
each definition to the lines it stands for and lists the runs, the mutants each
property was tried against, the hazards and the findings.

Contents: 1 inventory, 2 modules and code, 3 the runs and what they show,
4 proofs, 5 findings, 6 what is left out, 7 plan.

## 1. Inventory

The SDK is the part of a replicated super-app that modules are built from. A
*validator* executes agreed blocks of operations; each *module* (files, chat,
runs, ...) turns operations into a new state root. The consensus engine and
most module implementations are elsewhere: this repository holds the files
module's core (duckfs), the host that runs modules as wasm components, the
stores under them, the wire types of all modules, and, for chat and pages, the
read models that fold applied operations into an index.

| component | state | operations | interacts with | hard parts |
|---|---|---|---|---|
| duckfs core (`duckfs/core/src/fs.rs`, `state.rs`) | committed `Refs` (head, window, pins, staging, watches, retention root, revision); a pending overlay of refs and buffered objects | putblob, commit, project_snapshot, pin, unpin, watch, unwatch, compare_exchange_retention; abort, commit, adopt | disk stores below, host above, other validators through agreement | outcome must not depend on the local store; lazy expiry; caps over the pending view |
| duckfs trees (`tree.rs`, `paths.rs`) | an overlay of nodes over stored trees, for the time of a commit | put, mkdir, rm, mv; entry_at; build | commit, gc | changes that see each other through directories not stored yet; compare of what a plan takes along |
| duckfs queries (`queries.rs`) | none of its own; a reader keeps a cursor | find, grep, ls, read, diff | committed trees, readers between blocks | text prefixes against segment order; prunes; page limits, scan budget and hit ceiling over trees that move on |
| duckfs sync (`fs.rs:985-1133`, `gc.rs:78-300`) | the joiner's refs and objects | install_refs, missing_objects, ingest, possession_complete; serve_sync | peers over an unreliable link | children are unknown until a parent arrives; sweeps and rot between rounds |
| duckfs gc (`gc.rs`) | none of its own | mark, sweep | refs, object store | runs between blocks, may meet a lost object |
| duckfs retention (`retention.rs`) | references and membership counts in a persistent map | compare_exchange, page, get | gc, commit base, pins | two structures that must agree |
| duckfs disk (`disk.rs`, `commit.rs`, `scratch.rs`) | object files, the refs file, the dirty-directory list, gc watermark | put, sync_dirs, save, gc trigger, recovery | file system | crash between any two steps, power loss, replay |
| blobstore (`kernel/blobstore`) | chunk cache with eviction, files, live staging names | put, get, verify, forget; begin, append, seal, publish; sweeper | daemon threads | sweeper against writers, failed writes |
| wasm-host (`kernel/wasm-host`), guest shells (`module-sdk`) | staged module state, object backing, block environment, code; per call a memo of answered reads and its meters | execute, acknowledge, lifecycle calls, publish, abort, code swap, query | duckfs disk, sibling modules, guests | a call is run again from the start for every read; order of publication; budgets across rounds |
| sdk staged store (`kernel/sdk/src/staged_store.rs`) | overlay over a committed store | stage, delete, commit, abort | modules | a commit that fails half way |
| chat read model (`chat/wire/src/index.rs`, `tags.rs`) | key spaces of the index database: rows, markers, revisions, postings, tag counts, the fold's tip | fold of five operations; roots, thread, revisions, search | the feed of applied operations; readers | rows, markers, summaries and postings that must agree; cursors over a moving index |
| chat client (`chat/wire/src/client.rs`) | a bounded window of rows, placeholders | merge of pages, live deltas, optimistic sends and reactions | index pages and the live stream, in no fixed order | a page older than the stream, the same row three ways, eviction |
| pages read model (`pages/wire/src/index.rs`, `record_ops.rs`, `text_ranges.rs`) | block rows, page list, postings, comment threads, receipts of managed requests | fold of the block, comment and managed operations; paged document reads | feed, readers | cascades over five key spaces; marks and anchors that follow a text edit; expanded requests and their retries |
| view-wire: trees (`view-wire/src/lib.rs`, `patch.rs`, `node.rs`) | none of its own; guest and host each keep the tree last sent | decode, sanitize, diff, apply | views (guests), the host that draws them | two copies that must stay equal; a tree patched beyond what one frame may hold |
| view-wire: editor (`editor_document.rs`, `editor_transaction.rs`) | the sender's and the receiver's half of a transfer | commit, request, begin, chunk, complete, abort | the owner of a document and its mirror | edits in the middle of a transfer; lost frames |
| other wire crates (`modules/{apps,system}`) | none (types, codecs, validation) | decode | modules elsewhere | |
| guest-side and support crates | none | | | |

What makes each part correct:

* **duckfs core.** Validators with different local stores derive the same refs.
  A verb is all or nothing. Caps hold at every point a state is saved. A saved
  revision names one state.
* **trees.** A plan does to the stored trees what it says of the namespace; a
  snapshot never names a directory that is not there; no author overwrites or
  takes away what it did not see.
* **queries.** A reader that pages to the end has seen, once and in order, what a
  snapshot holds; a diff names what differs and nothing else.
* **sync.** A node that calls itself complete has every object; it gets there.
* **gc and retention.** What anything resolvable names can be read; what is
  counted is what is referenced.
* **disk.** The refs file names only objects that are there, after any crash;
  to its reader a block is atomic.
* **blobstore.** A file that is being written is not swept; a digest answers
  with its bytes or not at all.
* **wasm-host.** A replayed guest does what the same logic would do run once; a
  block publishes all of its writes or none; refs are never ahead of objects.
* **read models.** Every key space says the same about a row; a reader that
  pages to the end has seen everything once.
* **client.** Whatever arrives in whatever order, the window ends up with the
  rows the feed makes.
* **view-wire.** The host draws what the guest sent, within its bounds whatever
  was sent; a mirrored document is the owner's at the revision it names, and the
  mirror catches up.

`PROJECT.json` lists every crate, also those with no state of their own.

## 2. Modules and code

```
DuckfsVerbs ──── Duckfs ──── MCDuckfs          DuckfsDisk ── DuckfsScratch ─┬─ MCDuckfsDisk
   │  │             │ Atomic!                                               └─ DuckfsDiskProofs
   │  │             └─ DuckfsAtomic
   │  └── DuckfsReplicas ─┬─ MCDuckfsReplicas
   │                      └─ DuckfsReplicasProofs (EXTENDS DuckfsVerbsProofs too)
   └── DuckfsVerbsProofs ── DuckfsProofs (EXTENDS Duckfs too)

DuckfsPaths ─┬─ DuckfsTree ─┬─ DuckfsQueries
             │              └─ MCDuckfsTree (Reads! of DuckfsQueries)
             └─ DuckfsFlat (Flat! of DuckfsTree)

DuckfsSync ──┬─ MCDuckfsSync
             └─ DuckfsSyncProofs

BlobStaging ─┬─ MCBlobstore                    ViewTree ── ViewSync ─┬─ MCView
BlobCache ───┴─ BlobstoreProofs                EditorMirror ─────────┤
                                               ChatClient ───────────┴─ ClientViewsProofs (no ViewSync)

ModuleCalls ─┬─ WasmHost ─┬─ MCWasmHost        ChatIndex ── ChatClient ── MCChat
             │            └─ WasmHostProofs
             └─ NativeModule (Native! of WasmHost)
                                               TextRanges ── PagesIndex ── PagesFeed ── MCPagesFeed
```

**DuckfsVerbs** has no state: it translates the verbs of `fs.rs` to operators
over the effective refs `r`, the objects the block buffered `objs`, the local
store `odb` and the bodies of snapshots `cat`. `XxxOk` is the conjunction of a
verb's checks, `XxxRefs` and `XxxObjs` what it leaves. `Transacted` is the
revision rule of `Fs::transact`, `Swept` the expiry every verb starts with,
`Live` and `Marked` the walk of `gc::mark` over a whole and over a damaged
store.

**Duckfs** is one node. Its variables correspond to the code as follows.

| variable | code |
|---|---|
| `refs` | `Fs::refs`, what the module root is computed from |
| `block` | `Fs::pending`; from `CommitBlock` on, the refs and objects `Fs::commit_block` handed over; `put` are the objects `persist_objects` has put |
| `odb` | names in the object directory |
| `disk` | the refs file: refs, height, gc watermark |
| `mark` | the watermark in memory |
| `phase` | where `commit_refs` stands: flush, saved, sweep or skip, done |
| `live` | the result of `gc::mark` while `Fs::gc` removes |
| `cat`, `minted` | what a snapshot id means (content addressing) |
| `lost` | history only: what the disk lost |

One action per verb, then `CommitBlock`, one `PutObject` per object, `SaveRefs`
(the commit point), `Adopt` (with the gc decision), one `SweepObject` per
object, `SaveWatermark`. `Crash` may come between any two: it reloads the refs
file, and the blocks after its height run again. `Rot` removes a file.

Content addressing is modelled by `Mint`: a verb that builds a snapshot body
already in `cat` may get the same id (a replay) or a new one (a body can differ
in what the model leaves out, such as its message).

**DuckfsAtomic** is the promise to a reader of the refs file: an image, a
draft, and blocks that are taken whole or dropped. `Duckfs` implements it with
`image <- disk.refs` and the overlay as the draft until it is saved.

**DuckfsReplicas** runs the same operators on several nodes, each with its own
store; the boundary is one step. `Mixed` lets one commit name a chunk inline and
by digest (finding 1). `Join` leaves a node with exactly what its
refs reach, as state sync does. An operation is ordered only while all nodes
agree, since after the first split consensus on the root has failed. Two owners
share tight caps here, so the caps, the image bound and the expiry are checked
on it as well, over all eight verbs. No store loses an object here: what a lost one
does to a node is `Duckfs`.

**DuckfsTree** is `tree.rs` over nested directories. A tree object's id stands
for its body, so a tree is a function from names to entries and `store` the set
of those that are there. A node of the overlay is a reference to a stored entry
or a materialised directory; `Navigate`, `Put`, `Mkdir`, `Rm`, `Mv` are the
functions of those names, `Encoded` and `Pushed` are `build_dir`. A commit
compares every touched path between base and head by its whole entry, applies
its plan to one overlay and pushes what was materialised. `Sweep` removes the
trees the window does not reach. **DuckfsFlat** is what an author may rely on: a
snapshot is a map from paths, a plan rewrites it, and whatever is gone from the
head or replaced was in the base as it was in the head. `DuckfsTree` implements
it by reading each snapshot of the window back through `store`.

**DuckfsQueries** reads those trees. `Visited` is the descent `find_walk` and
`grep_walk` share, with both prunes; `FindPage`, `GrepPage`, `LsPage` and
`ReadPage` are one call each and say what it serves and the cursor it gives;
`GrepFile` is the fold over files with its four gates, `ReadRange` puts a range
together from chunks, `DiffWalk` compares two trees. Here a name is a sequence of
characters, because a prefix is one of the path as text while a cursor is
compared segment by segment: `/a/x` comes before `/a!` in the tree and after it
as text. A reader (external) starts a query on a snapshot or on the head of the
moment and takes a page at a time; in between `Writing` moves the head and
`Sweep` removes what left the window. `kept` is its ghost: what it is owed.
`MCDuckfsTree` runs the tree and the reader in two lanes of one state graph.

**DuckfsSync** has a joiner and peers. The joiner installs an image, asks for at
most `Limit` missing ids, ingests what the answer holds, and moves on to newer
images; a peer answers from what it holds up to a byte cap, always with one
object at least; a request that meets a corrupt copy it answers with an error
(`Fails`). Replies are lost, late or forged, the joiner restarts, its
chunks rot, both sides sweep. The driver of the rounds is a host's: external,
and taken from the comment at `fs.rs:1087`.

**DuckfsDisk** takes `put`, `sync_dirs` and `DiskRefs::save` apart by what is
visible (`seen`, `named`) and what is on the medium (`durable`, `onDisk`).
`ProcessCrash` loses the dirty list only, at any moment; `PowerLoss` keeps what
was fsynced and any part of the rest. `slipped` is history: what a flush that died
had put and not fsynced, which later puts find and do not mark (section 5).

**DuckfsScratch** adds the directories of state sync to it: `scratch[a]` are the
objects in `<canonical>_scratch_a<n>`, `live` the attempt under way, `todo` what
`prepare` has yet to merge into it. A promotion is `HandOver` and the steps of
`DuckfsDisk` (place, fsync, refs rename and fsync), then the removal of the
scratch; it may fail between any two of them, which is a process death as far as
the canonical directory can tell. Removals and the sweep at boot leave any part
behind. `landed`, what the process fetched and did not promote, is history.

**BlobStaging** is `kernel/blobstore/src/staging.rs` over a file system: `dir`
and `blob` are the two directories, `data` what the files hold, and a task keeps
its open file when the entry goes. `claims` is `BlobStore::staging`, the only
state under the store's mutex; the open, every append, the hash and the rename
of a slot are separate steps, and so are the snapshot of live names, the stat
and the unlink of the sweeper. A slot may be claimed at any of these points; `late`
in its record is history and says that the sweep under way had taken its
snapshot by then. An environment constant, `LateAppend`, lets a
caller append to an ingest it has sealed. A payload has so many units; a unit
that does not belong makes the file something else for good, until a truncation.

**BlobCache** is the store with a root in `kernel/blobstore/src/lib.rs`: map,
eviction queue, byte count and files. Operations run under the mutex and are one
step each, except where the code lets go of it or makes several system calls
that a rename outside the mutex can fall between: `publish_staged` (`due`) and
`has_verified_chunk` (`check`). `owed` is history: what the store accepted and
neither forgot nor lost to the disk or to a restart. Writes and unlinks fail and
files rot at any time. `exposed` is history too: what of `owed` was put while its
write failed over a damaged file whose digest is still queued (`Unbacked`), or
renamed into place in the middle of a presence check of it. Those are the two cases in
which the code can lose what it accepted (section 5).

**ModuleCalls** says what a module's logic may do: a program is a short sequence
of puts, reads (of its own state, of committed state, of a sibling module),
object writes, messages and refusals. **NativeModule** runs it once, over a
`StagedStore`: the promise of the `Module` trait, which `sdk/src/lib.rs:788-805`
states. **WasmHost** runs it as the host does: a call has rounds; a round that
needs an answer stops, the answer goes to the memo, and the guest begins again
from the stage the call started with. Fuel, reads and bytes are counted across
the rounds. `kind` is the backing (a map, a store, an object database);
publication is per backing, and for the last puts objects before refs. Blocks
are aborted, lost with the process or fail to publish; code is swapped between
blocks. The store-backed guest keeps a `StagedStore` of its own and flushes it
at the end of the call.

**ChatIndex** folds the feed: one action per operation, `FoldPost` to
`FoldReact`, each with all the key spaces it writes. A `Row` is a message's head
in the index; of messages older than the index (`Floor`) there is none, and
an edit or deletion of one is `Skipped`, as is an edit of a tombstone. `RootsPage` and
`ThreadPage` are prefix scans from a cursor; a reader turns pages while the fold
goes on. **ChatClient** adds one client: `Open`, `Resync`, `Read` (the page is
of the index as it is now), `Land` (it arrives, later), `Deliver` (the next
operation of the stream), `Send` and `Tap` (optimistic). The splices are the
helpers of `client.rs`, operator by operator. Canonical chat, which numbers
posts and revisions, and the shell that calls the helpers are external.
While nobody is in the room the feed is free (of one content, `SeenBody`, once a
reader pages); with a client there it is bounded by `RoomOps` and `SeenBody`.

**TextRanges** is `text_ranges.rs`: the smallest replaced piece of an edit, how
a mark or a selection maps through it, in UTF-16 units. **PagesIndex** is the
fold as operators on the database, one field per key space: rows with children,
the page list, postings, threads with their markers and comment pointers, the
expansion of a managed request into operations that read each other's writes,
and the document read by preorder cursor. **PagesFeed** is the machine: the feed
with the guards canonical pages has (external), exact retries of accepted
requests, and a reader between the folds. Its ghosts are what canonical pages
holds: the documents of the records, the kinds on each character, the
selection of each thread. `focus` says which operations a feed carries.

**ViewTree** is the pure half of view-wire: trees of typed nodes with a key, a
text and children; what a decoder accepts (`Decodes`), what `sanitize` makes of a
tree (depth, nodes, keys, document references, in the order of the walk, so an
exhausted budget leaves an `Empty` in each remaining slot), the patches, `Apply`
and `Diff`. It is recursive as the code is. **ViewSync** is a guest and a host: whole trees, diffs and
`unchanged` frames (only a guest that has sent its tree may send the last two), a host that drops its
tree and asks again, a guest that restarts, and patches from a guest that bounds nothing.

**EditorMirror** is a document that lives on one side and is mirrored on the
other. The owner edits it, each edit announced as a commit (a span and its
replacement, over any set `Byte`); `ChangedSpan` and `Patched` are what the two ends do to the text. A
mirror without a base asks for a transfer, which is sent in chunks of the source
as it is now, `NextMessage` aborting when the revision moved; `Received` and
`Assembled` are the receiver. Losses and early timeouts are bounded by `Faults`.
The two loops that drive the ends are external: what they call is the crate's.

Data abstraction: in the verbs a tree is a flat map of paths to files of one
chunk; a snapshot stands for itself with the tree and file objects only it
reaches. A chunk remains an object of its own, because chunks are what is
staged, shared and deduplicated. Names, messages and bytes are model values with
a length; in chat a text is a set of words, in pages a sequence of characters
each of which is a word.

## 3. Runs

| run | question | properties |
|---|---|---|
| `node` | a one-slot window, a pin, a watch, a retention key, a sweep at every height, one lost object, crashes anywhere | TypeOK, DurableClosure, PendingClosure, MembershipCounts, ResolvableReadable, RevisionNamesState, ImplementsAtomic |
| `replicas` | nodes with different orphans and any verbs, two operations a block, two owners under caps and an image without slack | SingleOpAgreement, Possession, CapsHold, TtlHonoured |
| `diverge` | the same, two operations (violated, section 5) | Agreement |
| `tree` | plans of puts, mkdirs, removals and moves, from a current or a stale base, with sweeps between; or a reader that pages while the head moves | ReadsExact, ImplementsFlat |
| `disk` | blocks, sweeps, joins and promotions; power losses and process deaths at any time | NoTornWindow, RetryKeeps |
| `sync` | a joiner against two peers that each lack objects, lost, late and wrong answers, a newer image, a restart, rot | ReadyPossesses, SweepsSpare, Converges |
| `blobs` | staging: two tasks contend for a slot beside an ingest, with wrong bytes, lying lengths, half-failed writes, partials of any age, sweeps, restarts; or the tiers: puts with and without the disk, gets, forgets, evictions, publications, rotten files, presence checks | HeldSlotKept, OneWriter, NamesDescribe, TiersSound |
| `host` | every backing; blocks of several calls, refused, out of budget, aborted, lost, failing to publish; a code swap | RefsReadable, BlockBytesBounded, HeightNamesRefs, ImplementsNative, CallEnds |
| `chat` | the fold with a reader paging, then a client in a room or a thread | IndexSound, WalkComplete, WindowSound, DrainedMatches, LandingKeeps |
| `pages` | feeds about the tree, about managed records and about texts, with a reader paging | IndexExact, RecordsCurrent, WalkServes, MarksCarried |
| `view` | a guest and a host exchange trees, or two sides a document, under resyncs, restarts, losses and bad patches | HostShowsSent, HostBounded, MirrorExact, CatchesUp |
| `stale_anchor` | a text edit under a comment's selection (violated, section 5) | AnchorsFollow |

**Bounds.** Every bound is a constant.

* *Verbs and nodes.* `MaxSnap` (2) bounds minted snapshots: with a window of
  one, two already push one out while a pin, a reference or a base keeps it.
  `MaxHeight` (2 to 4) with `TTL` 1 or 2 and `GcPeriod = 1` reaches stage,
  expiry, sweep and replay of each. `MaxSource` (3) makes the revision run out
  inside the run. Two owners with a quota of one chunk and a table of two put
  every cap at its limit, and `MaxImage = 5` with a pin of weight two leaves the
  image no spare byte. One watch and one reference of one revision give each verb
  of the replicas something to do and to refuse. The replicas need two nodes and two operations for
  every disagreement about one chunk; a third node adds a pair that looks like
  the first. No object is lost in the replicas. `MaxRot = 1` loses one object.
* *Trees.* Two names, paths of two segments (a move makes deeper ones), two
  contents, a window of two. A first commit of up to two changes, one change on
  top of it, then any plan of up to two from either as its base: enough for a
  directory that is edited and moved in one plan, and for a concurrent change at,
  above or below each path it names.
* *Queries.* The names `a` and `a!`, prefixes that end in, at and behind each; three first
  trees with a symlink, files within and above the scan budget and one of more
  hits than a reply holds; then any one change, then a removal, which pushes the
  first snapshot out of the window. A page of one, two hits a reply, a budget of
  three bytes, chunks of two, reads of three, diffs of three: every page ends on each of
  its limits somewhere, and a range begins and ends inside a chunk.
* *Sync.* Seven objects in two snapshots that share a chunk; the first leaves
  the window and is pinned again a block later. Neither peer has a whole image;
  a request is two ids and an answer smaller than one chunk, so progress needs the
  always-one rule and both peers; one peer's copy of a chunk is corrupt, and requests that
  name it fail there. One rotten chunk, one restart, one forged reply.
* *Disk and blobs.* Two directories and three objects: one that shares a
  directory with another, one that does not. Joins are about two of them
  (`MCBound`) with two numbers per process: a retry, and after a restart a number
  that a dead process has used. Staging needs two writers (the one
  that holds and the one that contends), one digest, an ingest and three files,
  so that an unlinked file that is still open and its successor exist together;
  payloads of two units have a proper prefix, and a file may be one unit too
  long. The cache has four digests, one above the large-blob limit, and a
  budget of three units, so that one put evicts several entries.
* *Host.* The programs of `MCWasmHost` read what they wrote and what they did
  not, read keys that depend on earlier reads, exceed each budget (fuel 5, two
  store reads, one sibling read, one object read, three entries of bytes),
  refuse after a write and name an object without putting it. Two blocks let the
  second meet what the first left.
* *Chat.* Three messages, one of pre-index age before them, a channel id nested
  in another's, pages of one row, two edits a message, four operations (three
  when a client is there, which speak of indexed messages of its room), a window of
  two rows (three in a thread), two reads: one page can be stale by an edit, a
  deletion and a post, and a third row evicts.
* *Pages.* Four blocks, two threads, two comments; four operations about the
  tree or a text, five about records; a character of two UTF-16 units; pages of
  one block, so a reader has a cursor between any two blocks.
* *View.* Budgets of four nodes, depth three, four characters and one document,
  all of which the views of `MCView` use up or exceed: lists that insert,
  remove, move and change a child at once, twins of one key, a slot and a pair
  below an exhausted budget. `HostileSteps = 1` lets a frame carry a patch nobody
  diffed, one of `MCHostile`. The editor has texts of up to five bytes with line ends and
  characters of two bytes that an edit or a chunk may cut, chunks of two bytes, two commits of an edit or a caret move, one fault and six requests: enough for an edit before, between and after the
  chunks of one transfer and for the retry of each.

Paths' names and contents, chunks, owners, attempts, tasks, message and
block ids are symmetric: no definition and no property names an element of
them. Two runs state a VIEW of what the next steps and the properties can tell apart: files
of staging by the places they are reached from (`blobs`), snapshots by what still
refers to them and revisions by their distance (`replicas`). Nodes are not symmetric, because a joiner is one of them, and where a property is one of
liveness no symmetry is used.

**Deadlock.** TLC's deadlock check is on except in `tree`, `chat`, `pages`,
`stale_anchor` and `view`: their feeds and plans are bounded, and a reader that has come to
the end, or a mirror in step with a document nobody edits, has nothing left to do.

**Fairness.** Three runs need it.

* `host`: weak fairness of a round and of the resolution of a read. The driver is
  an inline loop, and an awaited read is of a local, deterministic resource
  (`sdk/src/lib.rs:729-731`). `CallEnds` says that a call is then over: every
  answer is found by the round that comes after it, or a budget runs out.
* `sync`: weak fairness of asking, of advancing and installing while not ready,
  and of the possession walk; strong fairness of ingesting an answer from a
  peer. The driver keeps asking every peer, and a link that is tried for ever
  works infinitely often; a link that works finitely often is outside any
  promise. `Converges` says the joiner becomes ready.
* `view`: weak fairness of the mirror's steps, the sender's next message, its
  delivery and the receiver's request and timeout. Both sides run their loop on
  every tick, and faults are finite, so a document that is no longer edited is
  eventually sent in one piece. Edits and faults are owed nothing. `CatchesUp`
  says the mirror ends in step.

No other specification states any: what they are about is safety.

## 4. Proofs

`DuckfsVerbsProofs` holds the lemmas about single verbs: each keeps `Refs`
well-typed, keeps the counts, roots only minted snapshots, needs no object
beyond those stored or buffered, and raises the revision when it changes
anything. `DuckfsProofs` lifts them to the node. The inductive invariant is

    IInv == TypeOK /\ PhaseFacts /\ RootsMinted /\ Revisions
            /\ MembershipCounts /\ DurableClosure /\ PendingClosure

`DurableClosure` alone is not inductive: a save keeps it only because
`PendingClosure` held and everything buffered was put; a sweep keeps it only
because `live` was marked from the refs that were saved (`PhaseFacts`); minting
keeps it only because no root names an unminted id (`RootsMinted`); and a root
found by count rather than by reference is alive only if the counts are exact.
`Revisions` carries the revision rule through several verbs to the save.

Theorems, for all sets and caps that satisfy the named assumptions
(`SizesAssumption`, `TablesAssumption`, `SentinelAssumption`, `NodeAssumption`):
`TypeCorrect`, `DurableClosureHolds`, `PendingClosureHolds`,
`MembershipCountsHold`, `RootNeverAheadHolds`, `ResolvableReadableHolds`,
`RevisionNamesStateHolds` and `AtomicHolds` (refinement of `DuckfsAtomic`).

`DuckfsDiskProofs` proves `NoTornWindow` (`PowerLossSafe`) with deaths and power
losses anywhere: every visible entry is on the medium, in a directory that the
coming `sync_dirs` will fsync, or has slipped (`Flushing`, `NamedDurable`).
`ProcessCrashSafe` says more from `~PowerLosses`: the page cache is never
lost, and `named` stays within `seen` without exception (`Shown`), so that what slips
harms only together with a power loss (section 5). `JoinsPowerLossSafe`
carries the first over to `ScratchSpec`: `ScratchStep` shows that each of its
steps is one of the disk's or leaves the canonical directory alone. `RetriesKeep`
proves `RetryKeeps` from no assumption on failures, by `LandedHeld`: what is owed
lies in the live directory or in one it has yet to be seeded from.

`BlobstoreProofs` proves, of the staging, `NamesDescribe` and `OneWriter` from `~LateAppend`
(with `LateAppend = TRUE` in `Blobstore.cfg` TLC refutes `NamesDescribe`). Its invariant

    IInv == TypeOK /\ Claims /\ Names /\ Files /\ OneWriter /\ Checked /\ NamesDescribe

says that a claim is exclusive, that a file has one name at most, that an open
file is reached by its own name or by none and is not a published one, and that
what was verified or sealed is still what the file holds. It does not say that
an open file HAS its name: the sweeper may break that (section 5), and the
proof shows that the published names are right regardless.

A third theorem, `HeldSlotKeptHolds`, is the other half: an open slot's entry is its
writer's own file, or the slot is late and has no entry (section 5). It has no
hypothesis. `HeldInv` adds `SweepKnows`: what is claimed during a sweep was
claimed when it began or is late, and an entry about to be removed was not claimed then.

Of the tiers it proves `TiersSound`, again from no hypothesis. The books cannot be followed
without knowing what `Total`, a recursive function over a queue, does on an
append, a removal and an eviction, so a first part proves that its running sums
exist, are numbers and add up. `TiersInv` adds to the property that what is owed
and queued for eviction is on disk (`QueuedOnDisk`), without which an eviction
might take the last copy, and that a presence check past its miss is about a
digest nobody is owed (`ChecksUnowed`), both but for the exposed.

`DuckfsSyncProofs` proves `ReadyPossesses` and `SweepsSpare` over any graph of
objects, images and peers. The step that takes work is `CompleteWalk`: a walk
over the files that never met a missing object went exactly as far as the walk
over all objects does, by induction on the rounds of the walk.

`DuckfsReplicasProofs` proves `Possession`, `CapsHold`, `TtlHonoured` and, from
`~Mixed`, `SingleOpAgreement` (with `Mixed` TLC finds finding 1). The invariant
`RInv` says of each node: its committed and its pending refs are well-typed,
counted, rooted in minted snapshots and within every cap (`Settled`), its store
with its buffer holds what they reach, and each committed staging row is in the
overlay unchanged, has expired or was taken by a commit of this block
(`RowKept`). For the caps the image's length is not enough, as ungated verbs may
lengthen it: `Capped` bounds its WEIGHT, which counts the head, the window and
the retention root as if they were there in full (length and headroom together,
`ImageWeight`). A gated verb keeps the weight under the cap; a commit, a
projection, an expiry or an unpin never raises it. For agreement,
`CommitOkAlike` shows that in the first operation of a block a commit's checks
come down to the refs alone: what they look up in the store is what the refs
reach, which each node has.

`WasmHostProofs` proves that the host implements the native module
(`ImplementsNative`), with `RefsReadable`, `BlockBytesBounded` and
`HeightNamesRefs`, for programs of any length and any budgets. `RoundOk` is kept
by each import: what a round holds is within what it was charged
(`HeldBytes <= bytes <= MaxHostBytes`), its memo holds true answers only, each
backing writes on its own lane, and the staged refs name something put or
published. `CallOk` shows that one call of the guest, unless it stops the round,
is `Effect` of the native module on the round's `View`, the host's overlay with
the guest's own merged over it. By induction on the program the round that ends
well has the outcome of `Native!Run` (`RoundAgrees`), however many rounds came
before: a memo only grows by true answers, and nothing the reads depend on moves
while a call runs. The invariant

    HInv == TypeOK /\ CallInv /\ StageInv /\ NamesInv /\ PhaseInv

then carries this across calls and blocks: a call in progress owns the stage,
the overlay's weight is bounded between calls too, `dirty` is empty unless a
publication has failed, objects are published and nothing is buffered when the
refs are adopted, and the envelope has the block's height. The mapping shows
every step to be one of the native module or none: a failed publication is an
abort, a swap is not seen because an idle module's stage is empty.

`ClientViewsProofs` proves what a client is shown, from `ChatAssumption` and
`ClientAssumption` and from `EditorBounds`. `IndexSoundHolds`: every key space of
chat's index says the same about a message, however far the fold is behind the
feed. The property is not inductive: a fold's edit archives the
row it finds under that row's revision, so that an edit out of order, twice or
after a deletion would leave a gap in the history; that a reply's marker and its
parent's count agree rests on the parent having been posted before. Hence

    IndexInv == FeedOk /\ RowsOk /\ RepliesOk /\ HistOk /\ PostingsOk

`FeedOk` says what canonical chat puts in a feed: a post's sequence is past every
earlier one of its channel and past its thread, the edits of a message are
numbered without gaps, and none follows its deletion. `RowsOk` ties each head to
the operations folded (`HeadOf`: it was posted, its revision is the greatest edit
folded, it is a tombstone only if a deletion was); `RepliesOk`, `HistOk` and
`PostingsOk` count the markers, the archived revisions (0 to `rev - 1`, each once)
and the tag catalog against the heads. The proof found arms of a `CASE`
in an earlier model that overlapped, whose meaning TLA+ leaves open and TLC decides
by their order; they are disjoint now.

`WalkCompleteHolds`: a reader that pages through roots or replies while the fold goes
on is never refused a page, and ends with every message that was there when it opened,
once and in order. It rests on `IndexInv` and on

    ThreadsOk: each head has the id and the thread of its post, which canonical chat keeps;
               only roots are replied to; posts go to channels no id is nested in;
               markers are of heads in the thread they are filed under
    WalkInv:   what was collected is in order and marked, comes wholly before the
               cursor, and what was wanted is collected or still beyond it

No key of a nested channel enters a scan because of the third part of `ThreadsOk`, no
page fails because of the last, and a reply's own thread is empty because of the second.
The lemmas below them say what a page of a set of numbers is: `Ascending` has each number
once and in order, and the newest or oldest `Limit` of them leave the rest on one side
(`NewestPage`, `OldestPage`). The model sorts by rank (`Ascending`) because the prover
has the definitions of neither `SortSeq` nor `SelectSeq`.

`WindowSoundHolds`: the client's window is bounded, has its committed rows in order before
its placeholders, and no message twice, whatever order pages land, deltas arrive,
placeholders settle and rows are evicted in. It rests on `IndexInv`, `ThreadsOk` and

    WinInv:    the rows stand in pairs (`Neat`: each may come before every later one) and each
               fits (`Fits`): a placeholder was sent from here, a committed row is a post
               of the room, of the thread if one is open; a page on its way fits too and
               has each sequence once

`WindowSound` is not inductive: a row that is on screen and one a page brings could
share an id and not a sequence. `PostsAgree` excludes it, because both are posts of the
feed (`PostedAs`), which numbers a channel's posts upwards and gives an id once; so the
feed's history is part of the invariant of a client that reads only pages and deltas.
Each helper of `client.rs` has a lemma that it keeps `Neat`: `MergedIs` (by sequence, the
settled placeholders gone), `InsertedIs` and `ReplyMergedIs` (a reply in its place),
`BoundedRoomIs` and `BoundedThreadIs` (eviction). The last needs that a thread's root
comes before its replies (`ReplyAfter`: canonical chat refuses a reply to a message it
has not numbered), for the root is held out of the eviction and put back in front.

`LandingKeepsHolds` is the action property of the same splices: nothing on screen is lost
or shown in an earlier revision, but for the oldest rows of a full window, and a
placeholder only once its message was posted or placeholders fill the window. Each
helper's lemma also says what becomes of a row (`Carries`: it stays, or a `Later`
revision of the message does, or its placeholder is settled) or why it may be missing
(`Lost`); `Owed` joins the two across a merge and the eviction after it (`CarriedOwed`),
and the rows evicted are the oldest because `Youngest` of a `Neat` window leaves only rows that
come before all it keeps.

`DrainedMatchesHolds`: once the stream has delivered the whole feed, a row on screen is the
row the feed makes of its message, but for rows a page took back (`stale`) and rows under a
tap not applied yet. While the stream is still behind, a row may be ahead of it (a page
was read at a later tip) or shows reactions no operation accounts for, so nothing equates
it with a prefix of the feed. The invariant says what a row owes to one instead:

    Since(f, n, k, s, r, free): everything r shows is in the first n operations, and every
               edit and deletion of s among the first k is shown; and its
               reactions are those after k operations, but for the free ones and those
               that an operation after the k-th and up to the n-th settles
    ShownInv:  every row on screen that was not taken back is Since(feed, Len(feed), cur),
               with the taps not yet applied free; the rows of a page are Since its tip;
               the index's own heads of the room are, too (Exact); nobody reacts to a
               message deleted before (NoLate)

With k = n = Len(feed) and nothing free, two rows that are Since are equal
(`SinceSame`), and so equal to the head `RowsOf` computes. A row moves with each operation
(`Moved`, one lemma for each kind: an edit the row already has is dropped, and a row deleted
by a page before the edit arrives must carry a revision at least as late, which is why
a tombstone keeps its `rev`). A reaction a page already contains is undone and
redone as older ones replay, and is right again once the last is (`Toggles`). A
page that was read behind the stream is as good as the stream only if nothing but posts
came in between (`Quiet`, `ReadThen`): `Land` puts all its other rows in `stale`, and
takes a row out of `stale` only if what is on screen is the page's.

`MirrorExactHolds`: a mirrored document has the text its reference names,
whatever edits, transfers, losses, timeouts and restarts are interleaved.

    MirrorInv == OwnerOk /\ MirrorOk /\ RequestOk /\ SenderOk /\ ReceiverOk /\ WireOk

A reference `Names` one text of the owner; each commit on the wire leads from the
text its base names to the one its result names (`Leads`); what the receiver holds
is the first `next` chunks of its target (`Pieces`), and a chunk on the wire under its
id is the target's (`Carried`), because an id is given to one target only. The
step of an edit rests on lemmas about `ChangedSpan` and `Patched`: the span lies
within both texts, and replacing it in the old one gives the new one.

What the proofs assume: the named assumptions of the modules, of which the
sentinels (`None`, `Hole` and `NoEntry` are not values) are the model's and the
sizes are the code's, and the hypotheses stated with the theorems.

`RootNeverAhead` (the root in memory is never ahead of the refs file) is proved
and checked by no run. Only model-checked: `ImplementsFlat` and `ReadsExact` of
`tree`; `Converges` of `sync` and `CallEnds` of `host`;
of `view` `HostShowsSent`, `HostBounded` and
`CatchesUp`; and everything of `pages`. `Converges`, `CallEnds` and `CatchesUp` are liveness under fairness
and, like ENABLED, out of the prover's reach. `DuckfsTree`, `DuckfsQueries`,
`ViewTree` and the modules that use them are recursive over trees, by
operators declared RECURSIVE, and stay with TLC. The library's
induction theorems cannot be used, as they take a predicate as a parameter, but
induction over numbers can be done on a SET (`NatSet`: a set with 0 that is
closed under successor holds every number), and so the recursive functions of
`Walk`, `Total`, `RoundFrom`, `Run` and `RowsOf` could be proved about.

## 5. Findings

1. **Local orphans can split the root** (run `diverge`). `stage_object`
   buffers an inline chunk only if the local store lacks it. `putblob` decides
   "already staged" from that buffer. If one block commits chunk X inline and
   then stages X, a node with an orphan X writes a staging row and a node
   without does not. The first operation of a block never splits them (`replicas`),
   with one exception: a single commit that names a chunk both inline and by
   digest (`Mixed = TRUE`), because `chunk_stat` reads the same buffer.
2. **A comment's selection does not follow the text** (run `stale_anchor`). The
   mapper rewrites a block's text and rebases the marks on its row
   (`pages/wire/src/index.rs:775`); the selections of the threads on that block
   live in another key space and keep their offsets, though `lib.rs:91`
   documents the selection as one that follows the text.

Smaller disagreements, without a run:

* *A replayed put is not made durable.* A process death between `put` and
  `sync_dirs` loses the list of directories (`disk.rs:105`); the replay finds the
  file and does not list its directory again; a power loss after the save then
  leaves refs without their object. The run `disk` meets this; `NoTornWindow`
  excepts such objects by name (`slipped`), and none of them is missing before power is lost.
* *A promotion trusts what is there* (`scratch.rs:219`). `put` replaces an object
  file of the wrong length, and `disk.rs:95` says that one must be replaced and
  not trusted as present. `merge_objects` skips whatever file has the name.
  A chunk that is corrupt in the canonical store is linked into the scratch,
  where `verify` removes the link and a good copy is fetched; the promotion then
  leaves the corrupt file in place and saves refs that reach it. A failed attempt's
  good copy is lost to a retry the same way, its corrupt seed comes first. A
  promotion that fails between placing and fsync is the replayed put again.
* *A sweep can remove a held partial* (`staging.rs:215`). The live names are
  read once; a slot claimed afterwards, over an old partial, is not among them,
  though `staging.rs:159` says that such a partial is never the sweep's. Its
  `finish` fails at the rename; no wrong name results. The run `blobs` meets this,
  and `HeldSlotKept` excepts the slots so claimed (`late`) and no others.
  Ingests are in no snapshot of live names: one that stalls past the resume
  window loses its file.
* *The only copy can be evicted* (`blobstore/src/lib.rs:151`). A put whose write
  failed leaves an earlier queue entry of the same digest in place, whose file is
  missing or damaged; the next eviction may take it, though `lib.rs:171` says that
  every queued payload lives on disk. `OwedHeld` excepts it (`exposed`).
* *A presence check can unlink a good file* (`blobstore/src/lib.rs:268`). It
  concludes from a miss and a later stat that the file is corrupt; a publication
  between the two calls put a good one there. `OwedHeld` excepts this one too; the run
  `blobs` meets both.
* An ingest accepts an `append` after its `seal`; `publish` then uses the name
  of what was there before, although `staging.rs:8` says that bytes are never
  addressable before they verify (`LateAppend = TRUE`). Nothing in the type
  stops a caller from doing so.
* *Two corrupt copies can block a joiner.* The comment at `fs.rs:1004` says that every
  round lands at least one object. A peer whose copy of a requested chunk is corrupt
  answers the whole request with an error (`fs.rs:1024`); if each peer has such a copy
  of one of the ids a joiner keeps asking for, no request is answered.
* `wire.rs:243` says that large files reference chunks "staged via putblob (or
  already present)"; `chunk_stat` takes staged and same-block chunks only, and
  its comments say why.
* A change notifies the watches above the paths it names (`fs.rs:1502`). A
  removal or a move of a directory says nothing to a watch below it.
* `mv` checks the paths it is given, not those of what it moves: moves can make
  a directory deeper than `MAX_DEPTH` (`paths.rs:63`), whose entries no request
  can name until an ancestor is moved back up. `DuckfsTree` makes such entries.
* A corrupt interior object (a tree, a snapshot) on a joiner's disk stops the
  possession walk with an error each time; only corrupt chunks are removed and fetched again.
* Chat: a page read before a deletion or a reaction and landing after it was
  delivered takes it back until the next read, since neither moves a revision
  (`stale` in ChatClient). `bump_reply_summary` counts a replayed reply again,
  though `client.rs:784` calls every helper idempotent. And the comment at
  `PostMessage` says that the marker of a reply to a pre-index root keeps the page complete,
  while the thread view of such a root is served empty.
* view-wire: `lib.rs:702` says that a sanitized tree has at most `MAX_NODES`
  nodes. When the budget runs out, a list is cut but a slot or a pair keeps an
  `Empty` in each place, which nobody charged, so a tree can have up to
  `MAX_DEPTH + 1` more (`HostBounded` states the bound that holds). And the
  comment at `patch.rs:64` gives a diff at most one patch per node it keeps;
  a child that moves and changes takes two, and one that is gone takes one.

## 6. Not modelled

*duckfs.* A flip of bits that keeps a file's length: `put` and `has` do not
notice it, so a model of it would only restate that `verify` must run; hash
collisions; the encodings; the rules on the characters and lengths of paths, who
may write under which root, the cap on a directory's entries and the read
budget of a commit; the tree objects the retention catalog is stored in; of the
read queries stat, the history and retention listings, the refs summary and
`has_chunks`, which are one lookup or one listing each, snapshots named by a pin or a
reference, evidence locators and the cut of long lines; rot in a scratch directory (section 5
says what it does). A watch is a pair,
its delivery is not. Consensus itself is external: blocks are agreed, and
heights grow.

*Blob store.* Stores without a root (one tier, buffers for staging), range reads
and lengths, which change no state. The resume window is long against a sweep, so
no file ages while one runs.

*wasm-host.* Queries (one that is asked in mid-block and is not restricted to
committed state sees the staged refs of an object-backed module and none of the
block's objects, as `lib.rs:1959` says), the git and session imports, install and
snapshot, genesis, compilation and the engine itself. The store's read cache and
nested checkpoints of the staged store. A program is a sequence without branches.

*Chat and pages.* Channel rows, members, huddles, mentions, author grouping,
reply counts on the client's rows, tag listing, the ranking of search; of
pages, block kinds and todo flags, comment edits and resolution, search, the
page list's paging, backfill from a floor, the byte and work budgets of a read,
and the branch that places a child row with invalid marks. Request ids are
numbered and there is one collection of records. That the key prefixes of tags
and members do not run into each other rests on the same namespace rule
as the roots.

*view-wire.* The clamps of the widgets' own fields, the budgets for pictures,
canvases, surfaces and QR codes, snapshots and manifests, events, the keyboard, the rich editor's
presentation and the history effects of its transactions. The loops of host and guest.

*Elsewhere.* The
gateway's proxy frames. Types, codecs, design, guests, stubs and the build tool
have no state machine; `PROJECT.json` lists them with the reason.

## 7. Plan

Done: duckfs (verbs, node, replicas, trees, queries, sync, disk), both halves of the blob
store, the host over each backing, chat and pages, the trees and the editor's
document of view-wire.

To prove next: the range lemmas of `TextRanges` (a mapped range is valid in the new text).

To model next: the proxy frames of the
gateway, the retention catalog's tree, host queries and nested checkpoints, channel members and huddles of chat.
