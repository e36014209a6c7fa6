---------------------------- MODULE DuckfsReplicas ----------------------------
(***************************************************************************)
(* Several nodes run the same agreed operation stream through the verbs of *)
(* DuckfsVerbs, each over its own object store.  The stores legitimately   *)
(* differ: a node that joined by state sync holds exactly what the refs    *)
(* reach, an older one also keeps chunks no refs name any more (expired    *)
(* rows, removed files) until its next sweep.  fs.rs promises that an      *)
(* operation's outcome is a function of agreed state all the same          *)
(* (fs.rs:1767-1774, fs.rs:501-508, fs.rs:1416-1419).                      *)
(*                                                                         *)
(* A block boundary is one step here, and no store loses an object;        *)
(* Duckfs.tla takes the boundary apart and loses one.                      *)
(***************************************************************************)
EXTENDS DuckfsVerbs

CONSTANTS
  Node,        \* validators
  Joiner,      \* nodes that may rejoin by state sync
  GcPeriod,    \* GC_PERIOD_BLOCKS
  MaxHeight,   \* bound: block heights
  MaxOps,      \* bound: operations in one block
  Mixed        \* may one commit carry a chunk inline and by digest as well

ASSUME ReplicasAssumption ==
  /\ Joiner \subseteq Node
  /\ GcPeriod \in Nat \ {0} /\ MaxHeight \in Nat /\ MaxOps \in Nat
  /\ Mixed \in BOOLEAN

VARIABLES
  cat, minted,   \* the snapshots of the stream, as in Duckfs
  refs,          \* refs[n], the committed refs of node n
  pend,          \* pend[n], the overlay of node n
  odb,           \* odb[n], the object store of node n
  height,        \* the block being executed
  ops            \* operations it ran so far

vars == <<cat, minted, refs, pend, odb, height, ops>>

Init ==
  /\ cat = [s \in Snap |-> Unborn] /\ minted = 0
  /\ refs = [n \in Node |-> GenesisRefs]
  /\ pend = [n \in Node |-> [refs |-> GenesisRefs, objs |-> {}]]
  /\ odb = [n \in Node |-> {}]
  /\ height = 1 /\ ops = 0

------------------------------------------------------------------------------
(* Every node derived the same state. *)
Agreed == \A m, n \in Node : pend[m].refs = pend[n].refs

(* What a node's verbs take for buffered by this block (Pending::object_ids) *)
NodeObjsFromStore(n) == pend[n].objs \cup odb[n]   \* mutant: trusts its odb
NodeObjs(n) == pend[n].objs

(* One operation of the stream: a node that accepts it takes the new refs   *)
(* and objects, one that refuses keeps what it had.                         *)
Apply(Ok(_), NewRefs(_), NewObjs(_)) ==
  /\ ops' = ops + 1
  /\ pend' = [n \in Node |-> IF Ok(n) THEN [refs |-> NewRefs(n), objs |-> NewObjs(n)]
                             ELSE pend[n]]
  /\ UNCHANGED <<refs, odb, height>>

PutBlob(o, c) ==
  /\ Apply(LAMBDA n : PutBlobOk(pend[n].refs, NodeObjs(n), o, c, height),
           LAMBDA n : PutBlobRefs(pend[n].refs, NodeObjs(n), o, c, height),
           LAMBDA n : PutBlobObjs(pend[n].refs, NodeObjs(n), c, height))
  /\ UNCHANGED <<cat, minted>>

(* A snapshot is its content, as in Duckfs: the same body may be met again.  *)
Mint(id, body) ==
  \/ /\ id \in 1..minted /\ cat[id] = body
     /\ UNCHANGED <<cat, minted>>
  \/ /\ minted < MaxSnap /\ id = minted + 1
     /\ minted' = id
     /\ cat' = [cat EXCEPT ![id] = body]

(* The body is one: nodes that accept agree on the head and on the edits.   *)
Commit(base, ch) == \E id \in Snap :
  /\ ~Mixed => ChunksBy(ch, "inline") \cap ChunksBy(ch, "chunks") = {}
  /\ \E n \in Node : CommitOk(cat, pend[n].refs, NodeObjs(n), odb[n], base, ch, height)
  /\ LET author == CHOOSE n \in Node : TRUE IN
     Mint(id, CommitBody(cat, pend[author].refs, base, ch, height))
  /\ Apply(LAMBDA n : CommitOk(cat, pend[n].refs, NodeObjs(n), odb[n], base, ch, height),
           LAMBDA n : CommitRefs(pend[n].refs, ch, id, height),
           LAMBDA n : CommitObjs(NodeObjs(n), odb[n], ch, id))

ProjectSnapshot(s, p) == \E id \in Snap :
  /\ \E n \in Node : ProjectOk(cat, pend[n].refs, NodeObjs(n), odb[n], s, p)
  /\ Mint(id, ProjectBody(cat, s, p, height))
  /\ Apply(LAMBDA n : ProjectOk(cat, pend[n].refs, NodeObjs(n), odb[n], s, p),
           LAMBDA n : ProjectRefs(pend[n].refs, id, height),
           LAMBDA n : NodeObjs(n) \cup {id})

(* A verb that reads and writes the refs only.                              *)
OnRefs(Ok(_), NewRefs(_)) ==
  /\ Apply(LAMBDA n : Ok(pend[n].refs), LAMBDA n : NewRefs(pend[n].refs),
           LAMBDA n : pend[n].objs)
  /\ UNCHANGED <<cat, minted>>

Pin(o, s, p) ==
  OnRefs(LAMBDA r : PinOk(r, o, s, p, height), LAMBDA r : PinRefs(r, o, s, p, height))

Unpin(p) == OnRefs(LAMBDA r : UnpinOk(r, p), LAMBDA r : UnpinRefs(r, p, height))

RegisterWatch(w) ==
  OnRefs(LAMBDA r : WatchOk(r, w, height), LAMBDA r : WatchRefs(r, w, height))

Unwatch(w) == OnRefs(LAMBDA r : UnwatchOk(r, w), LAMBDA r : UnwatchRefs(r, w, height))

(* The caller expects the row that is there; the rest is refused anywhere.  *)
Retain(k, new) ==
  OnRefs(LAMBDA r : RetainOk(r, k, r.ret[k], new),
         LAMBDA r : RetainRefs(r, k, r.ret[k], new, height))

(* commit_block, persist_objects, commit_refs; then the sweep if it is due. *)
(* Boundary heights are agreed, so every node sweeps at the same block.     *)
CommitBlock ==
  /\ Agreed /\ height < MaxHeight
  /\ refs' = [n \in Node |-> pend[n].refs]
  /\ pend' = [n \in Node |-> [refs |-> pend[n].refs, objs |-> {}]]
  /\ odb' = [n \in Node |->
               LET held == odb[n] \cup pend[n].objs IN
               IF height % GcPeriod = 0 THEN held \cap Live(cat, pend[n].refs) ELSE held]
  /\ height' = height + 1 /\ ops' = 0
  /\ UNCHANGED <<cat, minted>>

AbortBlock ==
  /\ pend' = [n \in Node |-> [refs |-> refs[n], objs |-> {}]]
  /\ ops' = 0
  /\ UNCHANGED <<cat, minted, refs, odb, height>>

(* State sync between two blocks: a joiner installs the refs of the set and *)
(* fetches what they reach, nothing else.                                   *)
Join(n) ==
  /\ n \in Joiner /\ ops = 0
  /\ odb' = [odb EXCEPT ![n] = Live(cat, refs[n])]
  /\ UNCHANGED <<cat, minted, refs, pend, height, ops>>

Verb ==
  \/ \E o \in Owner, c \in Chunk : PutBlob(o, c)
  \/ \E base \in 0..minted, ch \in Changes : Commit(base, ch)
  \/ \E s \in 1..minted, p \in Path : ProjectSnapshot(s, p)
  \/ \E o \in Owner, s \in 1..minted, p \in PinName : Pin(o, s, p)
  \/ \E p \in PinName : Unpin(p)
  \/ \E w \in Watch : RegisterWatch(w)
  \/ \E w \in Watch : Unwatch(w)
  \/ \E k \in RetKey, s \in 1..minted, v \in 1..MaxRev :
       Retain(k, [snap |-> s, rev |-> v])
  \/ \E k \in RetKey : Retain(k, NoEntry)

(* The next operation is ordered once every node derived the same state.    *)
Operation == Agreed /\ ops < MaxOps /\ Verb

Next ==
  \/ Operation
  \/ CommitBlock
  \/ AbortBlock
  \/ \E n \in Node : Join(n)

Spec == Init /\ [][Next]_vars

------------------------------------------------------------------------------
(* Properties *)

(* The outcome of every operation is a function of agreed state: nodes with *)
(* different object stores never derive different refs, hence roots.        *)
Agreement == \A m, n \in Node : pend[m].refs = pend[n].refs /\ refs[m] = refs[n]

(* What holds of it: as long as a block has run one operation only, orphans *)
(* of one store make no difference to availability, dedup or compare.       *)
SingleOpAgreement == ops <= 1 => Agreement

(* A node can read everything its refs reach, whether it buffered an object *)
(* itself or skipped it because an orphan of its own store already had it.  *)
Possession ==
  \A n \in Node : Live(cat, pend[n].refs) \subseteq odb[n] \cup pend[n].objs

(* Every cap holds after any sequence of verbs, commits by other owners,    *)
(* sweeps and replays: one owner's staged bytes and rows, the staging       *)
(* table, and the image, which commits and the window grow ungated and      *)
(* which decode_refs would refuse past its cap, leaving a node unable to    *)
(* reboot.                                                                  *)
CapsHold ==
  \A n \in Node :
    LET r == pend[n].refs IN
    /\ ImageLen(r) <= MaxImage
    /\ Len(r.window) <= WindowCap
    /\ Cardinality(Pinned(r)) <= PinCap
    /\ Cardinality(r.watches) <= WatchCap
    /\ Cardinality(StagedChunks(r)) <= StagingCap
    /\ \A o \in Owner : /\ Cardinality(OwnedChunks(r, o)) <= OwnerCap
                        /\ Bytes(OwnedChunks(r, o)) <= Quota
                        /\ Cardinality(PinsOf(r, o)) <= PinShare

(* A staged chunk is kept for its whole TTL: a block drops a row only at    *)
(* its expiry or because one of its commits took the chunk.                 *)
TtlHonoured ==
  [][\A n \in Node : \A c \in StagedChunks(refs[n]) \ StagedChunks(refs'[n]) :
       \/ refs[n].staging[c].expires <= height
       \/ \E s \in 1..minted : cat[s].at = height /\ c \in TreeChunks(cat[s].tree)]_vars
==============================================================================
