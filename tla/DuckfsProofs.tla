----------------------------- MODULE DuckfsProofs -----------------------------
(***************************************************************************)
(* The safety of one duckfs node, for any sets of paths, chunks, owners,   *)
(* pins and retention keys, any caps, and any interleaving of verbs,       *)
(* flushes, crashes, aborts, sweeps and bit rot.                           *)
(***************************************************************************)
EXTENDS Duckfs, DuckfsVerbsProofs

(* Where a block stands: what its phase says of memory, disk and the sweep. *)
PhaseFacts ==
  /\ phase \in {"flush", "saved"} => block.open
  /\ phase \in {"sweep", "skip", "done"} => ~block.open
  /\ ~block.open => block = NoBlock
  /\ block.put \subseteq odb \cup lost
  /\ phase = "saved" => block.put = block.objs /\ disk.refs = block.refs
  /\ phase # "saved" => refs = disk.refs
  /\ Live(cat, refs) \subseteq odb \cup lost
  /\ phase = "sweep" => Live(cat, refs) \subseteq live

(* No refs name a snapshot whose body is not settled yet.                   *)
RootsMinted ==
  /\ Roots(refs) \subseteq 1..minted
  /\ Roots(disk.refs) \subseteq 1..minted
  /\ Roots(block.refs) \subseteq 1..minted

(* An overlay is the committed refs or a later revision of them.            *)
Revisions == block.open => (block.refs = refs \/ block.refs.rev > refs.rev)

IInv ==
  /\ TypeOK /\ PhaseFacts /\ RootsMinted /\ Revisions
  /\ MembershipCounts /\ DurableClosure /\ PendingClosure

------------------------------------------------------------------------------
(* The genesis state names nothing.                                         *)
LEMMA InitIInv == Init => IInv
<1> SUFFICES ASSUME Init PROVE IInv
  OBVIOUS
<1> USE DEF Init
<1>1. TypeOK
  <2>1. Unborn \in Body
    BY SizesAssumption DEF Unborn, Body, EmptyTree, Tree, None
  <2>2. 0 \in 0..MaxSnap
    BY SizesAssumption
  <2>3. QED
    BY <2>1, <2>2, GenesisOk DEF TypeOK, NoBlock, Phases
<1>2. Live(cat, GenesisRefs) = {}
  BY GenesisOk DEF Live
<1>3. QED
  BY <1>1, <1>2, GenesisOk DEF IInv, PhaseFacts, RootsMinted, Revisions,
     MembershipCounts, DurableClosure, PendingClosure, NoBlock

(* What the next verb works on: well formed, counted, and readable.         *)
LEMMA ViewFacts ==
  ASSUME IInv, phase = "exec"
  PROVE  /\ View \in Refs /\ CountsExact(View) /\ Roots(View) \subseteq 1..minted
         /\ Live(cat, View) \subseteq odb \cup block.objs \cup lost
         /\ View = refs \/ View.rev > refs.rev
         /\ refs = disk.refs /\ minted \in Nat /\ height \in Nat
         /\ block.objs \subseteq Object
  BY SizesAssumption DEF IInv, TypeOK, PhaseFacts, RootsMinted, Revisions,
     MembershipCounts, DurableClosure, PendingClosure, View

(* A step that leaves the refs it found, or a later revision of them.       *)
Ticks ==
  /\ phase = "exec" /\ UNCHANGED <<disk, phase>>
  /\ block'.open
  /\ block'.refs = View \/ block'.refs.rev > View.rev

(* The common part of the verbs.                                            *)
LEMMA VerbStep ==
  ASSUME IInv, NEW r1, NEW o1, Overlay(r1, o1),
         r1 \in Refs, CountsExact(r1), Roots(r1) \subseteq 1..minted',
         o1 \subseteq Object,
         minted' \in minted..MaxSnap, cat' \in [Snap -> Body],
         \A s \in 1..minted : cat'[s] = cat[s],
         Live(cat', r1) \subseteq odb \cup o1 \cup lost,
         r1 = View \/ r1.rev > View.rev
  PROVE  IInv' /\ Ticks
<1> USE DEF Overlay
<1>1. TypeOK'
  BY DEF IInv, TypeOK
<1>2. minted \in Nat /\ minted' \in Nat /\ 1..minted \subseteq 1..minted'
  BY SizesAssumption DEF IInv, TypeOK
<1>3. /\ Live(cat', disk.refs) = Live(cat, disk.refs)
      /\ Live(cat', refs) = Live(cat, refs)
  <2> DEFINE c2 == cat'
             v == disk.refs
             u == refs
  <2>1. /\ \A s \in Roots(v) : c2[s] = cat[s]
        /\ \A s \in Roots(u) : c2[s] = cat[s]
    BY DEF IInv, RootsMinted
  <2> HIDE DEF c2, v, u
  <2>2. Live(c2, v) = Live(cat, v) /\ Live(c2, u) = Live(cat, u)
    BY <2>1, LiveStable
  <2>3. QED
    BY <2>2 DEF c2, v, u
<1>4. View = refs \/ View.rev > refs.rev
  BY ViewFacts
<1>5. refs.rev \in Nat /\ View.rev \in Nat /\ r1.rev \in Nat
  BY ViewFacts DEF IInv, TypeOK, Refs
<1>6. PhaseFacts'
  BY <1>3 DEF IInv, PhaseFacts
<1>7. RootsMinted' /\ MembershipCounts'
  <2>1. block'.refs = r1 /\ refs' = refs /\ disk' = disk
    OBVIOUS
  <2>2. RootsMinted'
    BY <1>2, <2>1 DEF IInv, RootsMinted
  <2>3. \A r \in {refs, disk.refs, r1} : CountsExact(r)
    BY DEF IInv, MembershipCounts
  <2>4. MembershipCounts'
    BY <2>1, <2>3 DEF MembershipCounts
  <2>5. QED
    BY <2>2, <2>4
<1>8. DurableClosure' /\ PendingClosure'
  BY <1>3 DEF IInv, DurableClosure, PendingClosure
<1>9. Revisions'
  BY <1>4, <1>5 DEF Revisions
<1>10. Ticks
  BY DEF Ticks
<1>11. QED
  BY <1>1, <1>6, <1>7, <1>8, <1>9, <1>10 DEF IInv

(* The verbs that mint nothing, and change refs to r1, objects to o1.       *)
LEMMA PlainVerb ==
  ASSUME IInv, NEW r1, NEW o1, NEW cs, Overlay(r1, o1), UNCHANGED <<cat, minted>>,
         Accepted(r1, View, {}, cs),
         cs \subseteq o1, block.objs \subseteq o1, o1 \subseteq Object
  PROVE  IInv' /\ Ticks
<1>1. phase = "exec"
  BY DEF Overlay
<1>2. Live(cat, r1) \subseteq Live(cat, View) \cup cs
  BY LiveWithin DEF Accepted, Good
<1>3. Roots(r1) \subseteq 1..minted
  BY <1>1, ViewFacts DEF Accepted, Good, Within
<1>4. minted \in minted..MaxSnap /\ cat \in [Snap -> Body]
  BY SizesAssumption DEF IInv, TypeOK
<1>5. Live(cat, r1) \subseteq odb \cup o1 \cup lost
  BY <1>1, <1>2, ViewFacts
<1>6. QED
  BY <1>3, <1>4, <1>5, VerbStep DEF Accepted, Good

(* Minting settles one body and disturbs none.                              *)
LEMMA MintFacts ==
  ASSUME TypeOK, NEW id \in Snap, NEW body \in Body, Mint(id, body)
  PROVE  /\ minted' \in minted..MaxSnap /\ id \in 1..minted'
         /\ cat' \in [Snap -> Body] /\ cat'[id] = body
         /\ \A s \in 1..minted : cat'[s] = cat[s]
  BY SizesAssumption DEF TypeOK, Mint, Snap

(* The verbs that mint a snapshot id, rooted from now on.                   *)
LEMMA MintingVerb ==
  ASSUME IInv, NEW r1, NEW o1, NEW id \in Snap, NEW body \in Body,
         Overlay(r1, o1), Mint(id, body), Accepted(r1, View, {id}, {}),
         TreeChunks(body.tree) \subseteq odb \cup o1 \cup lost, id \in o1,
         block.objs \subseteq o1, o1 \subseteq Object
  PROVE  IInv' /\ Ticks
<1>1. phase = "exec"
  BY DEF Overlay
<1>2. /\ minted' \in minted..MaxSnap /\ id \in 1..minted'
      /\ cat' \in [Snap -> Body] /\ cat'[id] = body
      /\ \A s \in 1..minted : cat'[s] = cat[s]
  BY MintFacts DEF IInv
<1>3. Roots(r1) \subseteq 1..minted'
  BY <1>1, <1>2, ViewFacts DEF Accepted, Good, Within
<1>4. Live(cat', View) = Live(cat, View)
  <2> DEFINE c2 == cat'
             v == View
  <2>1. \A s \in Roots(v) : c2[s] = cat[s]
    BY <1>1, <1>2, ViewFacts
  <2> HIDE DEF c2, v
  <2>2. Live(c2, v) = Live(cat, v)
    BY <2>1, LiveStable
  <2>3. QED
    BY <2>2 DEF c2, v
<1>5. Live(cat', r1) \subseteq Live(cat', View) \cup SnapObjects(cat', id)
  <2>1. Within(r1, View, {id}, {})
    BY DEF Accepted, Good
  <2>2. Live(cat', r1) \subseteq
          Live(cat', View) \cup {} \cup UNION {SnapObjects(cat', s) : s \in {id}}
    BY <2>1, LiveWithin
  <2>3. QED
    BY <2>2
<1>6. SnapObjects(cat', id) \subseteq odb \cup o1 \cup lost
  BY <1>2 DEF SnapObjects
<1>7. Live(cat', r1) \subseteq odb \cup o1 \cup lost
  BY <1>1, <1>4, <1>5, <1>6, ViewFacts
<1>8. QED
  BY <1>2, <1>3, <1>7, VerbStep DEF Accepted, Good
------------------------------------------------------------------------------
(* The bodies the verbs mint are well formed.                               *)
LEMMA BodiesOk ==
  ASSUME IInv, phase = "exec"
  PROVE  /\ \A base \in 0..minted, ch \in Changes :
              CommitBody(cat, View, base, ch, height) \in Body
         /\ \A s \in 1..minted, p \in Path :
              ProjectBody(cat, s, p, height) \in Body
<1>1. /\ cat \in [Snap -> Body] /\ View \in Refs /\ height \in Nat
      /\ minted \in 0..MaxSnap /\ View.head \in 0..MaxSnap
  BY ViewFacts DEF IInv, TypeOK, Refs
<1>2. \A s \in Snap : cat[s].tree \in Tree
  BY <1>1 DEF Body
<1>3. \A s \in 0..MaxSnap : TreeOf(cat, s) \in Tree
  BY <1>2, SizesAssumption DEF TreeOf, EmptyTree, Tree, Snap, None
<1>4. ASSUME NEW base \in 0..minted, NEW ch \in Changes
      PROVE  CommitBody(cat, View, base, ch, height) \in Body
  <2>1. \A p \in DOMAIN ch : ch[p].chunk \in Chunk \cup {Absent}
    BY DEF Changes, Edit
  <2>2. CommitTree(cat, View, ch) \in Tree
    BY <1>1, <1>3, <2>1 DEF CommitTree, Tree
  <2>3. base \in 0..MaxSnap
    BY <1>1, SizesAssumption
  <2>4. QED
    BY <1>1, <2>2, <2>3 DEF CommitBody, Body
<1>5. ASSUME NEW s \in 1..minted, NEW p \in Path
      PROVE  ProjectBody(cat, s, p, height) \in Body
  <2>1. s \in Snap /\ s \in 0..MaxSnap /\ None \in 0..MaxSnap
    BY <1>1, SizesAssumption DEF Snap, None
  <2>2. [EmptyTree EXCEPT ![p] = cat[s].tree[p]] \in Tree
    BY <1>2, <2>1 DEF EmptyTree, Tree
  <2>3. QED
    BY <1>1, <2>1, <2>2 DEF ProjectBody, Body
<1>6. QED
  BY <1>4, <1>5
------------------------------------------------------------------------------
(* Every accepted or refused verb keeps the invariant.                      *)
LEMMA VerbIInv ==
  ASSUME IInv, Verb
  PROVE  IInv' /\ Ticks
<1>0. phase = "exec"
  BY DEF Verb, PutBlob, Commit, ProjectSnapshot, Pin, Unpin, RegisterWatch, Unwatch,
     Retain, Refuse, Stage, Overlay
<1>1. /\ View \in Refs /\ CountsExact(View) /\ height \in Nat
      /\ block.objs \subseteq Object /\ minted \in Nat /\ 1..minted \subseteq Snap
      /\ Live(cat, View) \subseteq odb \cup block.objs \cup lost
      /\ TypeOK /\ odb \subseteq Object
  BY <1>0, ViewFacts, SizesAssumption DEF IInv, TypeOK, Snap
<1>2. ASSUME NEW o \in Owner, NEW c \in Chunk, PutBlob(o, c)
      PROVE  IInv' /\ Ticks
  <2> DEFINE r1 == PutBlobRefs(View, block.objs, o, c, height)
             o1 == PutBlobObjs(View, block.objs, c, height)
  <2>1. Accepted(r1, View, {}, o1)
    BY <1>1, PutBlobGood
  <2>2. block.objs \subseteq o1 /\ o1 \subseteq Object
    BY <1>1 DEF PutBlobObjs, Object
  <2>3. Overlay(r1, o1) /\ UNCHANGED <<cat, minted>>
    BY <1>2 DEF PutBlob, Stage
  <2> HIDE DEF r1, o1
  <2>4. QED
    BY <2>1, <2>2, <2>3, PlainVerb
<1>3. ASSUME NEW base \in 0..minted, NEW ch \in Changes, Commit(base, ch)
      PROVE  IInv' /\ Ticks
  <2>1. PICK id \in Snap :
          /\ CommitOk(cat, View, block.objs, odb, base, ch, height)
          /\ Mint(id, CommitBody(cat, View, base, ch, height))
          /\ Stage(CommitRefs(View, ch, id, height), CommitObjs(block.objs, odb, ch, id))
    BY <1>3 DEF Commit
  <2> DEFINE r1 == CommitRefs(View, ch, id, height)
             o1 == CommitObjs(block.objs, odb, ch, id)
             body == CommitBody(cat, View, base, ch, height)
  <2>2. body \in Body
    BY <1>0, BodiesOk
  <2>3. Accepted(r1, View, {id}, {})
    BY <1>1, CommitGood
  <2>4. TreeChunks(CommitTree(cat, View, ch)) \subseteq
          Live(cat, View) \cup block.objs \cup odb \cup NewlyStaged(block.objs, odb, ch)
    BY <1>1, <2>1, CommitChunks
  <2>5. body.tree = CommitTree(cat, View, ch)
    BY DEF CommitBody
  <2>6. NewlyStaged(block.objs, odb, ch) \subseteq Object
    BY DEF NewlyStaged, ChunksBy, Changes, Edit, Object
  <2>7. /\ TreeChunks(body.tree) \subseteq odb \cup o1 \cup lost
        /\ id \in o1 /\ block.objs \subseteq o1 /\ o1 \subseteq Object
    BY <1>1, <2>4, <2>5, <2>6 DEF CommitObjs, Object
  <2>8. Overlay(r1, o1) /\ Mint(id, body)
    BY <2>1 DEF Stage
  <2> HIDE DEF r1, o1, body
  <2>9. QED
    BY <2>2, <2>3, <2>7, <2>8, MintingVerb
<1>4. ASSUME NEW s \in 1..minted, NEW p \in Path, ProjectSnapshot(s, p)
      PROVE  IInv' /\ Ticks
  <2>1. PICK id \in Snap :
          /\ ProjectOk(cat, View, block.objs, odb, s, p)
          /\ Mint(id, ProjectBody(cat, s, p, height))
          /\ Stage(ProjectRefs(View, id, height), block.objs \cup {id})
    BY <1>4 DEF ProjectSnapshot
  <2> DEFINE r1 == ProjectRefs(View, id, height)
             o1 == block.objs \cup {id}
             body == ProjectBody(cat, s, p, height)
  <2>2. body \in Body
    BY <1>0, BodiesOk
  <2>3. Accepted(r1, View, {id}, {})
    BY <1>1, ProjectGood
  <2>4. s \in Roots(View)
    BY <1>1, <2>1, ContainsRoot DEF ProjectOk
  <2>5. TreeChunks(body.tree) \subseteq TreeChunks(cat[s].tree)
    BY DEF ProjectBody, TreeChunks, EmptyTree
  <2>6. TreeChunks(cat[s].tree) \subseteq Live(cat, View)
    BY <2>4 DEF Live, SnapObjects
  <2>7. /\ TreeChunks(body.tree) \subseteq odb \cup o1 \cup lost
        /\ id \in o1 /\ block.objs \subseteq o1 /\ o1 \subseteq Object
    BY <1>1, <2>5, <2>6 DEF Object
  <2>8. Overlay(r1, o1) /\ Mint(id, body)
    BY <2>1 DEF Stage
  <2> HIDE DEF r1, o1, body
  <2>9. QED
    BY <2>2, <2>3, <2>7, <2>8, MintingVerb
<1>5. ASSUME NEW o \in Owner, NEW s \in 1..minted, NEW n \in PinName, Pin(o, s, n)
      PROVE  IInv' /\ Ticks
  <2> DEFINE r1 == PinRefs(View, o, s, n, height)
  <2>1. Accepted(r1, View, {}, {})
    BY <1>1, <1>5, PinGood DEF Pin
  <2>2. Overlay(r1, block.objs) /\ UNCHANGED <<cat, minted>>
    BY <1>5 DEF Pin, Stage
  <2> HIDE DEF r1
  <2>3. QED
    BY <1>1, <2>1, <2>2, PlainVerb
<1>6. ASSUME NEW n \in PinName, Unpin(n)
      PROVE  IInv' /\ Ticks
  <2> DEFINE r1 == UnpinRefs(View, n, height)
  <2>1. Accepted(r1, View, {}, {})
    BY <1>1, UnpinGood
  <2>2. Overlay(r1, block.objs) /\ UNCHANGED <<cat, minted>>
    BY <1>6 DEF Unpin, Stage
  <2> HIDE DEF r1
  <2>3. QED
    BY <1>1, <2>1, <2>2, PlainVerb
<1>7. ASSUME NEW w \in Watch, RegisterWatch(w) \/ Unwatch(w)
      PROVE  IInv' /\ Ticks
  <2>1. PICK r1 \in {WatchRefs(View, w, height), UnwatchRefs(View, w, height)} :
          Overlay(r1, block.objs) /\ UNCHANGED <<cat, minted>>
    BY <1>7 DEF RegisterWatch, Unwatch, Stage
  <2>2. Accepted(r1, View, {}, {})
    BY <1>1, WatchGood
  <2>3. QED
    BY <1>1, <2>1, <2>2, PlainVerb
<1>8. ASSUME NEW k \in RetKey, NEW new \in RetRow \cup {NoEntry}, Retain(k, new)
      PROVE  IInv' /\ Ticks
  <2> DEFINE r1 == RetainRefs(View, k, View.ret[k], new, height)
  <2>1. Accepted(r1, View, {}, {})
    BY <1>1, <1>8, RetainGood DEF Retain
  <2>2. Overlay(r1, block.objs) /\ UNCHANGED <<cat, minted>>
    BY <1>8 DEF Retain, Stage
  <2> HIDE DEF r1
  <2>3. QED
    BY <1>1, <2>1, <2>2, PlainVerb
<1>9. CASE Refuse
  <2>1. Accepted(View, View, {}, {})
    BY <1>1 DEF Accepted, Good, Within
  <2>2. QED
    BY <1>1, <1>9, <2>1, PlainVerb DEF Refuse
<1>10. \A s \in 1..minted, v \in 1..MaxRev : [snap |-> s, rev |-> v] \in RetRow
  BY <1>1 DEF RetRow
<1>11. QED
  BY <1>2, <1>3, <1>4, <1>5, <1>6, <1>7, <1>8, <1>9, <1>10 DEF Verb

(* A mark that meets no missing object has reached all that is alive.       *)
LEMMA MarkComplete ==
  ASSUME NEW r, Marked(cat, r, odb) \subseteq odb
  PROVE  Live(cat, r) \subseteq Marked(cat, r, odb)
<1>1. \A s \in Roots(r) : s \in Marked(cat, r, odb)
  BY DEF Marked, SnapObjects
<1>2. \A s \in Roots(r) : s \in odb
  BY <1>1
<1>3. QED
  BY <1>2 DEF Marked, Live

(* The boundary, the sweep and the environment keep it too.                 *)
LEMMA BoundaryIInv ==
  ASSUME IInv,
         \/ NextBlock \/ AbortBlock \/ CommitBlock
         \/ \E o \in Object : PutObject(o)
         \/ SaveRefs \/ Adopt
         \/ \E o \in Object : SweepObject(o)
         \/ SaveWatermark \/ Crash
         \/ \E o \in Object : Rot(o)
         \/ UNCHANGED vars
  PROVE  IInv'
<1> USE DEF IInv, TypeOK, PhaseFacts, RootsMinted, Revisions, MembershipCounts,
        DurableClosure, PendingClosure, Phases
<1>0. /\ GenesisRefs \in Refs /\ CountsExact(GenesisRefs) /\ Roots(GenesisRefs) = {}
      /\ NoBlock \in [open : BOOLEAN, refs : Refs, objs : SUBSET Object, put : SUBSET Object]
      /\ ~NoBlock.open /\ NoBlock.refs = GenesisRefs /\ NoBlock.put = {}
  BY GenesisOk DEF NoBlock
<1>1. CASE NextBlock
  BY <1>1 DEF NextBlock
<1>2. CASE AbortBlock
  BY <1>0, <1>2 DEF AbortBlock
<1>3. CASE CommitBlock
  BY <1>3 DEF CommitBlock
<1>4. ASSUME NEW o \in Object, PutObject(o)
      PROVE  IInv'
  BY <1>4 DEF PutObject
<1>5. CASE SaveRefs
  BY <1>5 DEF SaveRefs
<1>6. CASE Adopt
  <2>1. phase' = "sweep" => Live(cat, refs') \subseteq live'
    BY <1>6, MarkComplete DEF Adopt, MarkFails
  <2>2. TypeOK' /\ RootsMinted' /\ MembershipCounts' /\ DurableClosure'
    <3>1. Marked(cat, block.refs, odb) \subseteq odb => Marked(cat, block.refs, odb) \subseteq Object
      OBVIOUS
    <3>2. QED
      BY <1>0, <1>6, <3>1 DEF Adopt, MarkFails
  <2>3. PhaseFacts' /\ Revisions' /\ PendingClosure'
    BY <1>0, <1>6, <2>1 DEF Adopt
  <2>4. QED
    BY <2>2, <2>3
<1>7. ASSUME NEW o \in Object, SweepObject(o)
      PROVE  IInv'
  <2>1. block = NoBlock /\ refs = disk.refs /\ Live(cat, disk.refs) \subseteq live
    BY <1>7 DEF SweepObject
  <2>2. DurableClosure'
    BY <1>7, <2>1 DEF SweepObject
  <2>3. TypeOK' /\ RootsMinted' /\ MembershipCounts' /\ PhaseFacts' /\ Revisions'
    BY <1>0, <1>7, <2>1 DEF SweepObject
  <2>4. PendingClosure'
    BY <1>0, <1>7, <2>1 DEF SweepObject
  <2>5. QED
    BY <2>2, <2>3, <2>4
<1>8. CASE SaveWatermark
  BY <1>8 DEF SaveWatermark
<1>9. CASE Crash
  BY <1>0, <1>9 DEF Crash
<1>10. ASSUME NEW o \in Object, Rot(o)
       PROVE  IInv'
  BY <1>10 DEF Rot
<1>11. CASE UNCHANGED vars
  BY <1>11 DEF vars
<1>12. QED
  BY <1>1, <1>2, <1>3, <1>4, <1>5, <1>6, <1>7, <1>8, <1>9, <1>10, <1>11

(* Every step of the node keeps the invariant.                              *)
LEMMA NextIInv == IInv /\ [Next]_vars => IInv'
  BY VerbIInv, BoundaryIInv DEF Next

(* Type correctness.                                                        *)
THEOREM TypeCorrect == Spec => []TypeOK
<1>1. IInv => TypeOK
  BY DEF IInv
<1>2. QED
  BY <1>1, InitIInv, NextIInv, PTL DEF Spec

(* No torn window: whatever crashed, the saved refs reach only objects the  *)
(* store holds, rot aside.                                                  *)
THEOREM DurableClosureHolds == Spec => []DurableClosure
<1>1. IInv => DurableClosure
  BY DEF IInv
<1>2. QED
  BY <1>1, InitIInv, NextIInv, PTL DEF Spec
(* A block in progress can always be completed.                             *)
THEOREM PendingClosureHolds == Spec => []PendingClosure
<1>1. IInv => PendingClosure
  BY DEF IInv
<1>2. QED
  BY <1>1, InitIInv, NextIInv, PTL DEF Spec

(* The counts that decide membership are the number of references.          *)
THEOREM MembershipCountsHold == Spec => []MembershipCounts
<1>1. IInv => MembershipCounts
  BY DEF IInv
<1>2. QED
  BY <1>1, InitIInv, NextIInv, PTL DEF Spec

(* The root in memory is the one on disk but between save and adoption.     *)
THEOREM RootNeverAheadHolds == Spec => []RootNeverAhead
<1>1. IInv => RootNeverAhead
  BY DEF IInv, PhaseFacts, RootNeverAhead
<1>2. QED
  BY <1>1, InitIInv, NextIInv, PTL DEF Spec

(* What membership accepts can be read: it is a root, and roots are kept.   *)
THEOREM ResolvableReadableHolds == Spec => []ResolvableReadable
<1>1. ASSUME IInv
      PROVE  ResolvableReadable
  <2>1. /\ refs \in Refs /\ CountsExact(refs) /\ Live(cat, refs) \subseteq odb \cup lost
        /\ View \in Refs /\ CountsExact(View)
        /\ Live(cat, View) \subseteq odb \cup block.objs \cup lost
    BY <1>1 DEF IInv, TypeOK, PhaseFacts, MembershipCounts, PendingClosure, View
  <2>2. ASSUME NEW s \in Snap, Contains(refs, s)
        PROVE  SnapObjects(cat, s) \subseteq odb \cup lost
    BY <2>1, <2>2, ContainsRoot DEF Live
  <2>3. ASSUME NEW s \in Snap, Contains(View, s)
        PROVE  SnapObjects(cat, s) \subseteq odb \cup block.objs \cup lost
    BY <2>1, <2>3, ContainsRoot DEF Live
  <2>4. QED
    BY <2>2, <2>3 DEF ResolvableReadable
<1>2. QED
  BY <1>1, InitIInv, NextIInv, PTL DEF Spec

(* The refs file never goes back and never holds two states of one revision.*)
THEOREM RevisionNamesStateHolds == Spec => RevisionNamesState
<1>1. ASSUME IInv, [Next]_vars
      PROVE  disk'.refs # disk.refs => disk'.refs.rev > disk.refs.rev
  <2>1. CASE SaveRefs
    BY <1>1, <2>1 DEF SaveRefs, IInv, PhaseFacts, Revisions
  <2>2. CASE SaveWatermark
    BY <1>1, <2>2 DEF SaveWatermark, IInv, PhaseFacts
  <2>3. CASE ~SaveRefs /\ ~SaveWatermark
    BY <1>1, <2>3 DEF Next, vars, NextBlock, Verb, AbortBlock, CommitBlock, PutObject,
       Adopt, SweepObject, Crash, Rot, PutBlob, Commit, ProjectSnapshot, Pin, Unpin,
       RegisterWatch, Unwatch, Retain, Refuse, Stage, Overlay
  <2>4. QED
    BY <2>1, <2>2, <2>3
<1>2. QED
  BY <1>1, InitIInv, NextIInv, PTL DEF Spec, RevisionNamesState
------------------------------------------------------------------------------
(* A verb is an operation on the draft.                                     *)
LEMMA VerbOperates ==
  ASSUME IInv, IInv', Verb
  PROVE  Atomic!Operate
<1>1. phase = "exec"
  BY DEF Verb, PutBlob, Commit, ProjectSnapshot, Pin, Unpin, RegisterWatch, Unwatch,
     Retain, Refuse, Stage, Overlay
<1>2. View \in Refs /\ View.rev \in Nat
  BY <1>1, ViewFacts DEF Refs
<1>3. /\ UNCHANGED <<disk, phase>> /\ block'.open
      /\ block'.refs = View \/ block'.refs.rev > View.rev
  BY VerbIInv DEF Ticks
<1>4. View = Atomic!View
  BY <1>1, ViewFacts DEF View, Atomic!View
<1>5. block'.refs \in Refs /\ block'.open \in BOOLEAN
  BY DEF IInv, TypeOK
<1>6. QED
  BY <1>1, <1>3, <1>4, <1>5 DEF Atomic!Operate, Atomic!Drafts

(* Blocks are atomic: every step of the node is a step of the promise or    *)
(* invisible to it.                                                         *)
THEOREM AtomicHolds == Spec => ImplementsAtomic
<1>1. Init => Atomic!Init
  BY DEF Init, Atomic!Init, Atomic!NoDraft, NoBlock
<1>2. ASSUME IInv, IInv', [Next]_vars
      PROVE  [Atomic!Next]_(Atomic!vars)
  <2> USE DEF Atomic!vars, Atomic!NoDraft
  <2>1. CASE Verb
    BY <1>2, <2>1, VerbOperates DEF Atomic!Next
  <2>2. CASE SaveRefs
    BY <1>2, <2>2 DEF SaveRefs, IInv, PhaseFacts, Atomic!Next, Atomic!Commit
  <2>3. CASE AbortBlock
    BY <1>2, <2>3 DEF AbortBlock, NoBlock, Atomic!Next, Atomic!Drop
  <2>4. CASE Crash
    BY <1>2, <2>4 DEF Crash, Atomic!Next, Atomic!Drop
  <2>5. CASE NextBlock
    <3>1. block = NoBlock /\ phase \in {"done", "exec"}
      BY <1>2, <2>5 DEF NextBlock, IInv, PhaseFacts
    <3>2. block.open = FALSE /\ block.refs = GenesisRefs
      BY <3>1 DEF NoBlock
    <3>3. QED
      BY <2>5, <3>1, <3>2 DEF NextBlock
  <2>6. CASE CommitBlock
    BY <1>2, <2>6 DEF CommitBlock
  <2>7. CASE SaveWatermark
    BY <1>2, <2>7 DEF SaveWatermark, IInv, PhaseFacts
  <2>8. CASE Adopt
    BY <1>2, <2>8 DEF Adopt
  <2>9. ASSUME NEW o \in Object, PutObject(o) \/ SweepObject(o) \/ Rot(o)
        PROVE  UNCHANGED Atomic!vars
    <3>1. /\ UNCHANGED <<disk, phase>>
          /\ block'.open = block.open /\ block'.refs = block.refs
      BY <1>2, <2>9 DEF PutObject, SweepObject, Rot, IInv, TypeOK
    <3>2. QED
      BY <3>1
  <2>10. CASE UNCHANGED vars
    BY <2>10 DEF vars
  <2>11. QED
    BY <1>2, <2>1, <2>2, <2>3, <2>4, <2>5, <2>6, <2>7, <2>8, <2>9, <2>10 DEF Next
<1>3. QED
  BY <1>1, <1>2, InitIInv, NextIInv, PTL DEF Spec, ImplementsAtomic, Atomic!Spec
==============================================================================
