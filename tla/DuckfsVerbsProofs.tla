--------------------------- MODULE DuckfsVerbsProofs ---------------------------
(***************************************************************************)
(* Lemmas about the verbs of DuckfsVerbs: every one of them leaves         *)
(* well-formed refs, and adds to the roots at most the snapshot it mints   *)
(* or names, to the staging table at most the chunk it stages.             *)
(***************************************************************************)
EXTENDS DuckfsVerbs, FiniteSetTheorems, TLAPS

(* r1 names no more than r0 does, but for the snapshots ss and chunks cs.   *)
Within(r1, r0, ss, cs) ==
  /\ Roots(r1) \subseteq Roots(r0) \cup ss
  /\ StagedChunks(r1) \subseteq StagedChunks(r0) \cup cs

(* Then it keeps no more alive, but for what ss and cs reach.               *)
LEMMA LiveWithin ==
  ASSUME NEW cat, NEW r0, NEW r1, NEW ss, NEW cs, Within(r1, r0, ss, cs)
  PROVE  Live(cat, r1) \subseteq
           Live(cat, r0) \cup cs \cup UNION {SnapObjects(cat, s) : s \in ss}
  BY DEF Within, Live

(* What refs keep alive depends only on the bodies of their own roots.      *)
LEMMA LiveStable ==
  ASSUME NEW cat1, NEW cat2, NEW r, \A s \in Roots(r) : cat1[s] = cat2[s]
  PROVE  Live(cat1, r) = Live(cat2, r)
<1>1. \A s \in Roots(r) : SnapObjects(cat1, s) = SnapObjects(cat2, s)
  BY DEF SnapObjects
<1>2. QED
  BY <1>1 DEF Live

(* Roots of well-formed refs are snapshots.                                 *)
LEMMA RootsAreSnaps ==
  ASSUME NEW r \in Refs
  PROVE  /\ Roots(r) \subseteq Snap
         /\ r.head # None => r.head \in Roots(r)
<1>1. WindowSnaps(r) \subseteq Snap
  BY DEF Refs, Window, WindowSnaps
<1>2. PinSnaps(r) \subseteq Snap
  BY DEF Refs, PinSnaps, PinRow
<1>3. RetSnaps(r) \subseteq Snap
  BY DEF Refs, RetSnaps, RetRow
<1>4. r.head \in Snap \cup {None}
  BY SizesAssumption DEF Refs, Snap, None
<1>5. QED
  BY <1>1, <1>2, <1>3, <1>4 DEF Roots

(* The bounded window keeps its cap, and only ever holds what it held and   *)
(* what was pushed.                                                         *)
LEMMA PushedWindow ==
  ASSUME NEW w \in Window, NEW s \in Snap
  PROVE  /\ Pushed(w, s) \in Window
         /\ \A i \in DOMAIN Pushed(w, s) :
              Pushed(w, s)[i] = s \/ \E j \in DOMAIN w : Pushed(w, s)[i] = w[j]
<1>0. w \in Seq(Snap) /\ Len(w) <= WindowCap
  BY DEF Window
<1>1. CASE Len(w) < WindowCap
  <2>1. Len(Append(w, s)) = Len(w) + 1 /\ Append(w, s) \in Seq(Snap)
    BY <1>0
  <2>2. Append(w, s) \in Window
    BY <1>0, <1>1, <2>1, SizesAssumption DEF Window
  <2>3. QED
    BY <1>0, <1>1, <2>2 DEF Pushed
<1>2. CASE ~(Len(w) < WindowCap)
  <2>1. Len(w) \in Nat /\ Len(w) >= 1
    BY <1>0, <1>2, SizesAssumption
  <2>2. /\ Tail(w) \in Seq(Snap) /\ Len(Tail(w)) = Len(w) - 1
        /\ \A i \in 1..Len(Tail(w)) : Tail(w)[i] = w[i + 1]
    BY <1>0, <2>1
  <2>3. /\ Append(Tail(w), s) \in Seq(Snap)
        /\ Len(Append(Tail(w), s)) = Len(w)
    BY <2>1, <2>2
  <2>4. Append(Tail(w), s) \in Window
    BY <1>0, <2>3 DEF Window
  <2>5. QED
    BY <1>0, <1>2, <2>1, <2>2, <2>4 DEF Pushed
<1>3. QED
  BY <1>1, <1>2

(* The staging sweep touches nothing but the staging table, and only drops. *)
LEMMA SweptRefs ==
  ASSUME NEW r \in Refs, NEW h \in Nat
  PROVE  /\ Swept(r, h) \in Refs
         /\ Swept(r, h).rev = r.rev /\ Swept(r, h).head = r.head
         /\ Swept(r, h).window = r.window /\ Swept(r, h).pins = r.pins
         /\ Swept(r, h).watches = r.watches /\ Swept(r, h).ret = r.ret
         /\ Swept(r, h).members = r.members
         /\ \A c \in Chunk : Swept(r, h).staging[c] \in {NoEntry, r.staging[c]}
         /\ StagedChunks(Swept(r, h)) \subseteq StagedChunks(r)
         /\ Roots(Swept(r, h)) = Roots(r)
<1>1. /\ Swept(r, h) \in Refs
      /\ Swept(r, h).rev = r.rev /\ Swept(r, h).head = r.head
      /\ Swept(r, h).window = r.window /\ Swept(r, h).pins = r.pins
      /\ Swept(r, h).watches = r.watches /\ Swept(r, h).ret = r.ret
      /\ Swept(r, h).members = r.members
      /\ \A c \in Chunk : Swept(r, h).staging[c] \in {NoEntry, r.staging[c]}
  BY DEF Swept, Refs
<1>2. StagedChunks(Swept(r, h)) \subseteq StagedChunks(r)
  BY <1>1 DEF StagedChunks
<1>3. Roots(Swept(r, h)) = Roots(r)
  BY <1>1 DEF Roots, WindowSnaps, PinSnaps, RetSnaps
<1>4. QED
  BY <1>1, <1>2, <1>3

(* The revision rule keeps the refs a verb produced, but for the revision.  *)
LEMMA TransactedRefs ==
  ASSUME NEW r0 \in Refs, NEW r1 \in Refs
  PROVE  /\ Transacted(r0, r1) \in Refs
         /\ Roots(Transacted(r0, r1)) = Roots(r1)
         /\ StagedChunks(Transacted(r0, r1)) = StagedChunks(r1)
         /\ Transacted(r0, r1) # r0 => Transacted(r0, r1).rev = r0.rev + 1
<1>1. CASE r1 = r0
  BY <1>1 DEF Transacted
<1>2. CASE r1 # r0
  <2> DEFINE v == r0.rev + 1
             t == [r1 EXCEPT !.rev = v]
  <2>0. v \in Nat
    BY DEF Refs
  <2> HIDE DEF v
  <2>1. /\ t \in Refs /\ t.head = r1.head /\ t.window = r1.window
        /\ t.pins = r1.pins /\ t.ret = r1.ret /\ t.staging = r1.staging
        /\ t.rev = v
    BY <2>0 DEF Refs
  <2>2. Roots(t) = Roots(r1) /\ StagedChunks(t) = StagedChunks(r1)
    BY <2>1 DEF Roots, WindowSnaps, PinSnaps, RetSnaps, StagedChunks
  <2>3. Transacted(r0, r1) = t
    BY <1>2 DEF Transacted, v
  <2>4. QED
    BY <2>1, <2>2, <2>3 DEF v
<1>3. QED
  BY <1>1, <1>2
------------------------------------------------------------------------------
(* Exact counts depend on the references only.                              *)
LEMMA SameCounts ==
  ASSUME NEW r0, NEW r1, r1.ret = r0.ret, r1.members = r0.members, CountsExact(r0)
  PROVE  CountsExact(r1)
  BY DEF CountsExact, HoldersOf

(* The genesis refs are well formed, name nothing and count nothing.        *)
LEMMA GenesisOk ==
  /\ GenesisRefs \in Refs
  /\ Roots(GenesisRefs) = {} /\ StagedChunks(GenesisRefs) = {}
  /\ CountsExact(GenesisRefs)
<1>1. GenesisRefs \in Refs
  BY SizesAssumption DEF GenesisRefs, Refs, Window, None
<1>2. Roots(GenesisRefs) = {} /\ StagedChunks(GenesisRefs) = {}
  BY DEF GenesisRefs, Roots, WindowSnaps, PinSnaps, RetSnaps, StagedChunks
<1>3. ASSUME NEW s \in Snap
      PROVE  GenesisRefs.members[s] = Cardinality(HoldersOf(GenesisRefs, s))
  <2>1. HoldersOf(GenesisRefs, s) = {}
    BY DEF HoldersOf, GenesisRefs
  <2>2. QED
    BY <2>1, FS_EmptySet DEF GenesisRefs
<1>4. QED
  BY <1>1, <1>2, <1>3 DEF CountsExact

(* With exact counts, whatever membership accepts is a root gc keeps.       *)
LEMMA ContainsRoot ==
  ASSUME NEW r \in Refs, CountsExact(r), NEW s \in Snap, Contains(r, s)
  PROVE  s \in Roots(r)
<1>1. CASE r.head = s
  BY <1>1, SizesAssumption DEF Roots, Snap, None
<1>2. CASE s \in WindowSnaps(r) \cup PinSnaps(r)
  BY <1>2 DEF Roots
<1>3. CASE r.members[s] # 0
  <2>1. HoldersOf(r, s) # {}
    BY <1>3, FS_EmptySet DEF CountsExact
  <2>2. s \in RetSnaps(r)
    BY <2>1 DEF HoldersOf, RetSnaps
  <2>3. QED
    BY <2>2 DEF Roots
<1>4. QED
  BY <1>1, <1>2, <1>3 DEF Contains

(* A retention exchange keeps the counts exact: one key moves, and the      *)
(* counts of the snapshot it left and of the one it took follow.            *)
LEMMA RecountedExact ==
  ASSUME NEW r \in Refs, CountsExact(r), NEW k \in RetKey,
         NEW new \in RetRow \cup {NoEntry}, RetainOk(r, k, r.ret[k], new),
         NEW r1, r1.ret = [r.ret EXCEPT ![k] = new],
         r1.members = Recounted(r.members, r.ret[k], new)
  PROVE  CountsExact(r1) /\ r1.members \in [Snap -> Nat]
<1> DEFINE old == r.ret[k]
<1>1. /\ old \in RetRow \cup {NoEntry} /\ r.members \in [Snap -> Nat]
      /\ r.ret \in [RetKey -> RetRow \cup {NoEntry}]
  BY DEF Refs
<1>2. /\ old # NoEntry => old.snap \in Snap
      /\ new # NoEntry => new.snap \in Snap
  BY <1>1 DEF RetRow
<1>3. ASSUME NEW s \in Snap
      PROVE  IsFiniteSet(HoldersOf(r, s)) /\ Cardinality(HoldersOf(r, s)) = r.members[s]
  <2>1. HoldersOf(r, s) \subseteq RetKey
    BY DEF HoldersOf
  <2>2. QED
    BY <2>1, FS_Subset, TablesAssumption DEF CountsExact
<1>4. ASSUME NEW s \in Snap
      PROVE  /\ r1.members[s] = Cardinality(HoldersOf(r1, s))
             /\ r1.members[s] \in Nat
  <2> DEFINE leaves == old # NoEntry /\ old.snap = s
             enters == new # NoEntry /\ new.snap = s
  <2>1. /\ leaves <=> k \in HoldersOf(r, s)
        /\ HoldersOf(r1, s) = IF enters THEN HoldersOf(r, s) \cup {k}
                              ELSE HoldersOf(r, s) \ {k}
    BY <1>1 DEF HoldersOf
  <2>2. CASE leaves <=> enters
    <3>1. HoldersOf(r1, s) = HoldersOf(r, s)
      BY <2>1, <2>2
    <3>2. r1.members[s] = r.members[s]
      BY <2>2, <1>1 DEF Recounted, SameSnap
    <3>3. QED
      BY <3>1, <3>2, <1>3, <1>1
  <2>3. CASE leaves /\ ~enters
    <3>1. HoldersOf(r1, s) = HoldersOf(r, s) \ {k}
      BY <2>1, <2>3
    <3>2. r1.members[s] = r.members[s] - 1 /\ r.members[s] > 0
      BY <2>3, <1>1, <1>2 DEF Recounted, SameSnap, RetainOk
    <3>3. Cardinality(HoldersOf(r, s) \ {k}) = Cardinality(HoldersOf(r, s)) - 1
      BY <2>1, <2>3, <1>3, FS_RemoveElement
    <3>4. QED
      BY <3>1, <3>2, <3>3, <1>3, <1>1
  <2>4. CASE enters /\ ~leaves
    <3>1. HoldersOf(r1, s) = HoldersOf(r, s) \cup {k}
      BY <2>1, <2>4
    <3>2. r1.members[s] = r.members[s] + 1
      BY <2>4, <1>1, <1>2 DEF Recounted, SameSnap
    <3>3. Cardinality(HoldersOf(r, s) \cup {k}) = Cardinality(HoldersOf(r, s)) + 1
      BY <2>1, <2>4, <1>3, FS_AddElement
    <3>4. QED
      BY <3>1, <3>2, <3>3, <1>3, <1>1
  <2>5. QED
    BY <2>2, <2>3, <2>4
<1>5. r1.members = [s \in Snap |-> r1.members[s]]
  BY <1>1 DEF Recounted
<1>6. QED
  BY <1>4, <1>5 DEF CountsExact
------------------------------------------------------------------------------
(* One lemma per verb: Accepted(r1, r, ss, cs) is what the node proof needs *)
(* of the refs r1 a verb makes of r.                                        *)
Good(r1, r, ss, cs) == r1 \in Refs /\ CountsExact(r1) /\ Within(r1, r, ss, cs)

Accepted(r1, r, ss, cs) == Good(r1, r, ss, cs) /\ (r1 = r \/ r1.rev > r.rev)

(* A refs record changed on top of the sweep, then given its revision.      *)
LEMMA GoodTransacted ==
  ASSUME NEW r \in Refs, NEW r1, NEW ss, NEW cs, Good(r1, r, ss, cs)
  PROVE  Accepted(Transacted(r, r1), r, ss, cs)
<1>1. Transacted(r, r1).ret = r1.ret /\ Transacted(r, r1).members = r1.members
  BY DEF Good, Transacted, Refs
<1>2. Good(Transacted(r, r1), r, ss, cs)
  BY <1>1, TransactedRefs, SameCounts DEF Good, Within
<1>3. r.rev \in Nat
  BY DEF Refs
<1>4. QED
  BY <1>2, <1>3, TransactedRefs DEF Good, Accepted

(* The expiry sweep only takes rows away.                                   *)
LEMMA GoodSwept ==
  ASSUME NEW r \in Refs, CountsExact(r), NEW h \in Nat
  PROVE  Good(Swept(r, h), r, {}, {})
  BY SweptRefs, SameCounts DEF Good, Within

(* putblob adds one row, and only for a chunk the block then buffers.       *)
LEMMA PutBlobGood ==
  ASSUME NEW r \in Refs, CountsExact(r), NEW objs, NEW o \in Owner, NEW c \in Chunk,
         NEW h \in Nat
  PROVE  Accepted(PutBlobRefs(r, objs, o, c, h), r, {}, PutBlobObjs(r, objs, c, h))
<1> DEFINE s == Swept(r, h)
           row == [owner |-> o, expires |-> h + TTL]
           r1 == [s EXCEPT !.staging[c] = row]
<1>1. Good(s, r, {}, {}) /\ s \in Refs
  BY GoodSwept, SweptRefs
<1>2. CASE AlreadyStaged(r, objs, c, h)
  BY <1>1, <1>2, GoodTransacted DEF PutBlobRefs, Accepted, Good, Within
<1>3. CASE ~AlreadyStaged(r, objs, c, h)
  <2>1. row \in StagedRow
    BY SizesAssumption DEF StagedRow
  <2> HIDE DEF row, s
  <2>2. /\ r1 \in Refs /\ r1.head = s.head /\ r1.window = s.window
        /\ r1.pins = s.pins /\ r1.ret = s.ret /\ r1.members = s.members
        /\ \A d \in Chunk \ {c} : r1.staging[d] = s.staging[d]
    BY <1>1, <2>1 DEF Refs
  <2>3. Roots(r1) = Roots(s) /\ StagedChunks(r1) \subseteq StagedChunks(s) \cup {c}
    BY <2>2 DEF Roots, WindowSnaps, PinSnaps, RetSnaps, StagedChunks
  <2>4. Good(r1, r, {}, {c})
    BY <1>1, <2>2, <2>3, SameCounts DEF Good, Within
  <2>5. PutBlobRefs(r, objs, o, c, h) = Transacted(r, r1)
    BY <1>3 DEF PutBlobRefs, s, row
  <2>6. PutBlobObjs(r, objs, c, h) = objs \cup {c}
    BY <1>3 DEF PutBlobObjs
  <2>7. Accepted(Transacted(r, r1), r, {}, {c})
    BY <2>4, GoodTransacted
  <2>8. QED
    BY <2>5, <2>6, <2>7 DEF Accepted, Good, Within
<1>4. QED
  BY <1>2, <1>3

(* A snapshot pushed into the window becomes the one new root.              *)
LEMMA PushedRoots ==
  ASSUME NEW r, NEW r1, r.window \in Window, NEW id \in Snap,
         r1.window = Pushed(r.window, id), r1.pins = r.pins, r1.ret = r.ret,
         r1.head \in {r.head, id}
  PROVE  Roots(r1) \subseteq Roots(r) \cup {id}
<1>1. WindowSnaps(r1) \subseteq WindowSnaps(r) \cup {id}
  BY PushedWindow DEF WindowSnaps
<1>2. PinSnaps(r1) = PinSnaps(r) /\ RetSnaps(r1) = RetSnaps(r)
  BY DEF PinSnaps, RetSnaps
<1>3. QED
  BY <1>1, <1>2 DEF Roots

(* commit moves the head and the window to the new snapshot, and only takes *)
(* rows out of the staging table.                                           *)
LEMMA CommitGood ==
  ASSUME NEW r \in Refs, CountsExact(r), NEW ch, NEW id \in Snap, NEW h \in Nat
  PROVE  Accepted(CommitRefs(r, ch, id, h), r, {id}, {})
<1> DEFINE s == Swept(r, h)
           w == Pushed(s.window, id)
           g == [c \in Chunk |-> IF c \in Referenced(ch) THEN NoEntry ELSE s.staging[c]]
           r1 == [s EXCEPT !.head = id, !.window = w, !.staging = g]
<1>1. Good(s, r, {}, {}) /\ s \in Refs /\ s.window \in Window
  BY GoodSwept, SweptRefs DEF Refs
<1>2. w \in Window
  BY <1>1, PushedWindow
<1>3. g \in [Chunk -> StagedRow \cup {NoEntry}]
  BY <1>1 DEF Refs
<1>4. id \in 0..MaxSnap
  BY SizesAssumption DEF Snap
<1>5. CommitRefs(r, ch, id, h) = Transacted(r, r1)
  BY DEF CommitRefs
<1>6. \A c \in Chunk : g[c] # NoEntry => s.staging[c] # NoEntry
  OBVIOUS
<1> HIDE DEF s, w, g
<1>7. /\ r1 \in Refs /\ r1.head = id /\ r1.window = w /\ r1.pins = s.pins
      /\ r1.ret = s.ret /\ r1.members = s.members /\ r1.staging = g
  BY <1>1, <1>2, <1>3, <1>4 DEF Refs
<1> HIDE DEF r1
<1>8. StagedChunks(r1) \subseteq StagedChunks(s)
  BY <1>6, <1>7 DEF StagedChunks
<1>9. Roots(r1) \subseteq Roots(s) \cup {id}
  BY <1>1, <1>7, PushedRoots DEF w
<1>10. Good(r1, r, {id}, {})
  BY <1>1, <1>7, <1>8, <1>9, SameCounts DEF Good, Within
<1>11. QED
  BY <1>5, <1>10, GoodTransacted DEF r1

(* A commit reads and references only what is there: its new tree is made   *)
(* of chunks of the head it lands on, of staged ones, of buffered ones and  *)
(* of those this node's own store already had.                              *)
LEMMA CommitChunks ==
  ASSUME NEW cat, NEW r \in Refs, NEW objs, NEW store, NEW base, NEW ch \in Changes,
         NEW h \in Nat, CommitOk(cat, r, objs, store, base, ch, h)
  PROVE  TreeChunks(CommitTree(cat, r, ch)) \subseteq
           Live(cat, r) \cup objs \cup store \cup NewlyStaged(objs, store, ch)
<1> SUFFICES ASSUME NEW p \in Path, CommitTree(cat, r, ch)[p] # Absent
             PROVE  CommitTree(cat, r, ch)[p] \in
                      Live(cat, r) \cup objs \cup store \cup NewlyStaged(objs, store, ch)
  BY DEF TreeChunks
<1>1. CASE p \notin DOMAIN ch
  <2>1. CommitTree(cat, r, ch)[p] = TreeOf(cat, r.head)[p]
    BY <1>1 DEF CommitTree
  <2>2. r.head # None
    BY <2>1 DEF TreeOf, EmptyTree
  <2>3. CommitTree(cat, r, ch)[p] \in SnapObjects(cat, r.head)
    BY <2>1, <2>2 DEF TreeOf, SnapObjects, TreeChunks
  <2>4. QED
    BY <2>2, <2>3, RootsAreSnaps DEF Live
<1>2. CASE p \in DOMAIN ch
  <2>1. CommitTree(cat, r, ch)[p] = ch[p].chunk /\ ch[p] \in Edit
    BY <1>2 DEF CommitTree, Changes
  <2>2. ch[p].op \in {"inline", "chunks"}
    BY <2>1 DEF Edit
  <2>3. CASE ch[p].op = "inline"
    BY <1>2, <2>1, <2>3 DEF NewlyStaged, ChunksBy
  <2>4. CASE ch[p].op = "chunks"
    <3>1. ch[p].chunk \in StagedChunks(Swept(r, h)) \cup objs \cup NewlyStaged(objs, store, ch)
      BY <1>2, <2>4 DEF CommitOk, ChunksAvailable, ChunksBy
    <3>2. StagedChunks(Swept(r, h)) \subseteq Live(cat, r)
      BY SweptRefs DEF Live
    <3>3. QED
      BY <2>1, <3>1, <3>2
  <2>5. QED
    BY <2>2, <2>3, <2>4
<1>3. QED
  BY <1>1, <1>2

(* project_snapshot adds a candidate to the window and nothing else.        *)
LEMMA ProjectGood ==
  ASSUME NEW r \in Refs, CountsExact(r), NEW id \in Snap, NEW h \in Nat
  PROVE  Accepted(ProjectRefs(r, id, h), r, {id}, {})
<1> DEFINE s == Swept(r, h)
           w == Pushed(r.window, id)
           r1 == [s EXCEPT !.window = w]
<1>1. Good(s, r, {}, {}) /\ s \in Refs /\ s.window = r.window /\ r.window \in Window
  BY GoodSwept, SweptRefs DEF Refs
<1>2. w \in Window
  BY <1>1, PushedWindow
<1>3. ProjectRefs(r, id, h) = Transacted(r, r1)
  BY DEF ProjectRefs
<1> HIDE DEF s, w
<1>4. /\ r1 \in Refs /\ r1.head = s.head /\ r1.window = w /\ r1.pins = s.pins
      /\ r1.ret = s.ret /\ r1.members = s.members /\ r1.staging = s.staging
  BY <1>1, <1>2 DEF Refs
<1> HIDE DEF r1
<1>5. StagedChunks(r1) = StagedChunks(s)
  BY <1>4 DEF StagedChunks
<1>6. Roots(r1) \subseteq Roots(s) \cup {id}
  BY <1>1, <1>4, PushedRoots DEF w
<1>7. Good(r1, r, {id}, {})
  BY <1>1, <1>4, <1>5, <1>6, SameCounts DEF Good, Within
<1>8. QED
  BY <1>3, <1>7, GoodTransacted DEF r1

(* pin adds a root that already was one, unpin takes one away.              *)
LEMMA PinGood ==
  ASSUME NEW r \in Refs, CountsExact(r), NEW o \in Owner, NEW s \in Snap,
         NEW n \in PinName, NEW h \in Nat, PinOk(r, o, s, n, h)
  PROVE  Accepted(PinRefs(r, o, s, n, h), r, {}, {})
<1> DEFINE z == Swept(r, h)
           row == [owner |-> o, snap |-> s]
           r1 == [z EXCEPT !.pins[n] = row]
<1>1. Good(z, r, {}, {}) /\ z \in Refs
  BY GoodSwept, SweptRefs
<1>2. row \in PinRow /\ row.snap = s
  BY DEF PinRow
<1>3. s \in Roots(r)
  BY ContainsRoot DEF PinOk
<1>4. PinRefs(r, o, s, n, h) = Transacted(r, r1)
  BY DEF PinRefs
<1> HIDE DEF z, row
<1>5. /\ r1 \in Refs /\ r1.head = z.head /\ r1.window = z.window
      /\ r1.pins = [z.pins EXCEPT ![n] = row]
      /\ r1.ret = z.ret /\ r1.members = z.members /\ r1.staging = z.staging
  BY <1>1, <1>2 DEF Refs
<1>6. PinSnaps(r1) \subseteq PinSnaps(z) \cup {s}
  BY <1>1, <1>2, <1>5 DEF PinSnaps, Refs
<1>7. /\ Roots(r1) \subseteq Roots(z) \cup {s}
      /\ StagedChunks(r1) = StagedChunks(z)
  BY <1>5, <1>6 DEF Roots, WindowSnaps, RetSnaps, StagedChunks
<1>8. Good(r1, r, {}, {})
  BY <1>1, <1>3, <1>5, <1>7, SameCounts DEF Good, Within
<1>9. QED
  BY <1>4, <1>8, GoodTransacted

(* unpin takes a name away.                                                 *)
LEMMA UnpinGood ==
  ASSUME NEW r \in Refs, CountsExact(r), NEW n \in PinName, NEW h \in Nat
  PROVE  Accepted(UnpinRefs(r, n, h), r, {}, {})
<1> DEFINE z == Swept(r, h)
           r1 == [z EXCEPT !.pins[n] = NoEntry]
<1>1. Good(z, r, {}, {}) /\ z \in Refs
  BY GoodSwept, SweptRefs
<1>2. UnpinRefs(r, n, h) = Transacted(r, r1)
  BY DEF UnpinRefs
<1> HIDE DEF z
<1>3. /\ r1 \in Refs /\ r1.head = z.head /\ r1.window = z.window
      /\ r1.pins = [z.pins EXCEPT ![n] = NoEntry]
      /\ r1.ret = z.ret /\ r1.members = z.members /\ r1.staging = z.staging
  BY <1>1 DEF Refs
<1>4. PinSnaps(r1) \subseteq PinSnaps(z)
  BY <1>1, <1>3 DEF PinSnaps, Refs
<1>5. /\ Roots(r1) \subseteq Roots(z)
      /\ StagedChunks(r1) = StagedChunks(z)
  BY <1>3, <1>4 DEF Roots, WindowSnaps, RetSnaps, StagedChunks
<1>6. Good(r1, r, {}, {})
  BY <1>1, <1>3, <1>5, SameCounts DEF Good, Within
<1>7. QED
  BY <1>2, <1>6, GoodTransacted

(* Watches name no object.                                                  *)
LEMMA WatchGood ==
  ASSUME NEW r \in Refs, CountsExact(r), NEW w \in Watch, NEW h \in Nat
  PROVE  /\ Accepted(WatchRefs(r, w, h), r, {}, {})
         /\ Accepted(UnwatchRefs(r, w, h), r, {}, {})
<1> DEFINE z == Swept(r, h)
<1>1. Good(z, r, {}, {}) /\ z \in Refs /\ r.watches \subseteq Watch
  BY GoodSwept, SweptRefs DEF Refs
<1>2. ASSUME NEW W \in SUBSET Watch
      PROVE  Good([z EXCEPT !.watches = W], r, {}, {})
  <2> HIDE DEF z
  <2> DEFINE r1 == [z EXCEPT !.watches = W]
  <2>1. /\ r1 \in Refs /\ r1.head = z.head /\ r1.window = z.window
        /\ r1.pins = z.pins /\ r1.ret = z.ret
        /\ r1.members = z.members /\ r1.staging = z.staging
    BY <1>1 DEF Refs
  <2>2. Roots(r1) = Roots(z) /\ StagedChunks(r1) = StagedChunks(z)
    BY <2>1 DEF Roots, WindowSnaps, PinSnaps, RetSnaps, StagedChunks
  <2>3. QED
    BY <1>1, <2>1, <2>2, SameCounts DEF Good, Within
<1>3. r.watches \cup {w} \in SUBSET Watch /\ r.watches \ {w} \in SUBSET Watch
  BY <1>1
<1>4. QED
  BY <1>2, <1>3, GoodTransacted DEF WatchRefs, UnwatchRefs

(* A retention exchange names only a snapshot that was a root already.      *)
LEMMA RetainGood ==
  ASSUME NEW r \in Refs, CountsExact(r), NEW k \in RetKey,
         NEW new \in RetRow \cup {NoEntry}, NEW h \in Nat, RetainOk(r, k, r.ret[k], new)
  PROVE  Accepted(RetainRefs(r, k, r.ret[k], new, h), r, {}, {})
<1> DEFINE z == Swept(r, h)
           m == Recounted(r.members, r.ret[k], new)
           r1 == [z EXCEPT !.ret[k] = new, !.members = m]
<1>1. /\ Good(z, r, {}, {}) /\ z \in Refs
      /\ z.ret = r.ret /\ z.members = r.members
      /\ r.ret \in [RetKey -> RetRow \cup {NoEntry}]
  BY GoodSwept, SweptRefs DEF Refs
<1>2. new # NoEntry => new.snap \in Roots(r)
  BY ContainsRoot DEF RetainOk, RetRow
<1>3. RetainRefs(r, k, r.ret[k], new, h) = Transacted(r, r1)
  BY DEF RetainRefs
<1>4. r1.ret = [r.ret EXCEPT ![k] = new] /\ r1.members = m
  <2> HIDE DEF z, m
  <2>1. QED
    BY <1>1 DEF Refs
<1>5. CountsExact(r1) /\ m \in [Snap -> Nat]
  <2> HIDE DEF r1
  <2>1. r1.members = Recounted(r.members, r.ret[k], new)
    BY <1>4
  <2>2. QED
    BY <1>4, <2>1, RecountedExact
<1> HIDE DEF z, m
<1>6. /\ r1 \in Refs /\ r1.head = z.head /\ r1.window = z.window
      /\ r1.pins = z.pins /\ r1.staging = z.staging
  BY <1>1, <1>5 DEF Refs
<1>7. RetSnaps(r1) \subseteq RetSnaps(z) \cup Roots(r)
  BY <1>1, <1>2, <1>4 DEF RetSnaps
<1>8. /\ Roots(r1) \subseteq Roots(z) \cup Roots(r)
      /\ StagedChunks(r1) = StagedChunks(z)
  BY <1>6, <1>7 DEF Roots, WindowSnaps, PinSnaps, StagedChunks
<1>9. Good(r1, r, {}, {})
  BY <1>1, <1>5, <1>6, <1>8 DEF Good, Within
<1>10. QED
  BY <1>3, <1>9, GoodTransacted
==============================================================================
