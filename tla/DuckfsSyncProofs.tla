--------------------------- MODULE DuckfsSyncProofs ---------------------------
(***************************************************************************)
(* What a joiner of DuckfsSync may rely on, for every object graph, every  *)
(* list of images and any number of peers: readiness means possession, and *)
(* no sweep takes what the refs still need.                                *)
(***************************************************************************)
EXTENDS DuckfsSync, FiniteSetTheorems, WellFoundedInduction, TLAPS

(* Induction as a fact about one set of numbers.                            *)
LEMMA NatSet ==
  ASSUME NEW S, 0 \in S, \A n \in Nat : n \in S => n + 1 \in S
  PROVE  Nat \subseteq S
<1> DEFINE T == Nat \ S
<1>1. SUFFICES ASSUME T # {} PROVE FALSE
  OBVIOUS
<1>2. PICK x \in T : \A y \in T : ~ (<<y, x>> \in OpToRel(<, Nat))
  BY <1>1, WFMin, NatLessThanWellFounded
<1>3. x \in Nat /\ x # 0
  OBVIOUS
<1>4. x - 1 \in Nat /\ x - 1 < x /\ (x - 1) + 1 = x
  BY <1>3
<1>5. x - 1 \in T
  BY <1>3, <1>4
<1>6. QED
  BY <1>2, <1>4, <1>5 DEF OpToRel

(* The rounds of a walk, as many as wanted.                                 *)
IsSteps(f, roots, seen, N) ==
  f = [n \in 0..N |-> IF n = 0 THEN roots ELSE Grown(f[n - 1], seen)]

(* A recursive function over the rounds of a walk is one.                    *)
LEMMA StepsExist ==
  ASSUME NEW roots, NEW seen
  PROVE  \A N \in Nat : \E f : IsSteps(f, roots, seen, N)
<1> DEFINE S == {N \in Nat : \E f : IsSteps(f, roots, seen, N)}
<1>1. 0 \in S
  <2> DEFINE g == [n \in 0..0 |-> roots]
  <2>1. IsSteps(g, roots, seen, 0)
    BY DEF IsSteps
  <2>2. QED
    BY <2>1
<1>2. ASSUME NEW N \in Nat, N \in S
      PROVE  N + 1 \in S
  <2>1. PICK f : IsSteps(f, roots, seen, N)
    BY <1>2
  <2> DEFINE g == [n \in 0..N + 1 |-> IF n = N + 1 THEN Grown(f[N], seen) ELSE f[n]]
  <2>2. ASSUME NEW n \in 0..N + 1
        PROVE  g[n] = IF n = 0 THEN roots ELSE Grown(g[n - 1], seen)
    BY <2>1 DEF IsSteps
  <2>3. IsSteps(g, roots, seen, N + 1)
    BY <2>2 DEF IsSteps
  <2>4. QED
    BY <2>3
<1>3. QED
  BY <1>1, <1>2, NatSet

(* A walk is the last of as many rounds as there are objects.               *)
LEMMA WalkSteps ==
  ASSUME NEW roots, NEW seen
  PROVE  \E f : IsSteps(f, roots, seen, Cardinality(Obj)) /\ Walk(roots, seen) = f[Cardinality(Obj)]
<1> DEFINE f == CHOOSE f : IsSteps(f, roots, seen, Cardinality(Obj))
<1>1. Cardinality(Obj) \in Nat
  BY FS_CardinalityType, SyncAssumption
<1>2. \E g : IsSteps(g, roots, seen, Cardinality(Obj))
  BY <1>1, StepsExist
<1>3. IsSteps(f, roots, seen, Cardinality(Obj))
  BY <1>2
<1>4. Walk(roots, seen) = f[Cardinality(Obj)]
  BY DEF Walk, IsSteps
<1>5. QED
  BY <1>3, <1>4

(* A walk that never met a missing object went as far as there is to go.    *)
LEMMA CompleteWalk ==
  ASSUME NEW roots \in SUBSET Obj, NEW seen, Walk(roots, seen) \subseteq seen
  PROVE  Walk(roots, Obj) = Walk(roots, seen)
<1> DEFINE N == Cardinality(Obj)
<1>1. N \in Nat
  BY FS_CardinalityType, SyncAssumption
<1>2. PICK f : IsSteps(f, roots, seen, N) /\ Walk(roots, seen) = f[N]
  BY WalkSteps
<1>3. PICK g : IsSteps(g, roots, Obj, N) /\ Walk(roots, Obj) = g[N]
  BY WalkSteps
<1> HIDE DEF N
<1>4. /\ f[0] = roots /\ g[0] = roots
      /\ \A n \in Nat : n + 1 <= N => /\ f[n + 1] = Grown(f[n], seen)
                                     /\ g[n + 1] = Grown(g[n], Obj)
  BY <1>1, <1>2, <1>3 DEF IsSteps
<1>5. \A n \in Nat : n <= N => f[n] \subseteq f[N]
  <2> DEFINE S == {k \in Nat : k <= N => f[N - k] \subseteq f[N]}
  <2>1. 0 \in S
    BY <1>1
  <2>2. ASSUME NEW k \in Nat, k \in S
        PROVE  k + 1 \in S
    <3>1. CASE k + 1 <= N
      <4>1. N - (k + 1) \in Nat /\ (N - (k + 1)) + 1 = N - k /\ N - k <= N
        BY <1>1, <3>1
      <4>2. f[N - k] = Grown(f[N - (k + 1)], seen)
        BY <1>4, <4>1
      <4>3. QED
        BY <1>1, <2>2, <3>1, <4>2 DEF Grown
    <3>2. QED
      BY <3>1
  <2>3. Nat \subseteq S
    BY <2>1, <2>2, NatSet
  <2>4. ASSUME NEW n \in Nat, n <= N
        PROVE  f[n] \subseteq f[N]
    <3>1. N - n \in S /\ N - n <= N /\ N - (N - n) = n
      BY <1>1, <2>3, <2>4
    <3>2. QED
      BY <3>1
  <2>5. QED
    BY <2>4
<1>6. \A n \in Nat : n <= N => f[n] = g[n] /\ f[n] \subseteq Obj
  <2> DEFINE S == {n \in Nat : n <= N => f[n] = g[n] /\ f[n] \subseteq Obj}
  <2>1. 0 \in S
    BY <1>4
  <2>2. ASSUME NEW n \in Nat, n \in S
        PROVE  n + 1 \in S
    <3> SUFFICES ASSUME n + 1 <= N
                 PROVE  f[n + 1] = g[n + 1] /\ f[n + 1] \subseteq Obj
      OBVIOUS
    <3>1. n <= N /\ f[n] = g[n] /\ f[n] \subseteq Obj
      BY <1>1, <2>2
    <3>2. f[n] \subseteq seen
      BY <1>2, <1>5, <3>1
    <3>3. Grown(f[n], seen) = Grown(f[n], Obj)
      BY <3>1, <3>2 DEF Grown
    <3>4. Grown(f[n], Obj) \subseteq Obj
      BY <3>1, SyncAssumption DEF Grown
    <3>5. QED
      BY <1>4, <3>1, <3>3, <3>4
  <2>3. QED
    BY <2>1, <2>2, NatSet
<1>7. QED
  BY <1>1, <1>2, <1>3, <1>6

(* A walk stays among the objects.                                          *)
LEMMA WalkObjects ==
  ASSUME NEW roots \in SUBSET Obj, NEW seen
  PROVE  Walk(roots, seen) \subseteq Obj
<1> DEFINE N == Cardinality(Obj)
<1>1. N \in Nat
  BY FS_CardinalityType, SyncAssumption
<1>2. PICK f : IsSteps(f, roots, seen, N) /\ Walk(roots, seen) = f[N]
  BY WalkSteps
<1> HIDE DEF N
<1> DEFINE S == {n \in Nat : n <= N => f[n] \subseteq Obj}
<1>3. 0 \in S
  BY <1>1, <1>2 DEF IsSteps
<1>4. ASSUME NEW n \in Nat, n \in S
      PROVE  n + 1 \in S
  <2> SUFFICES ASSUME n + 1 <= N
               PROVE  f[n + 1] \subseteq Obj
    OBVIOUS
  <2>1. f[n + 1] = Grown(f[n], seen) /\ f[n] \subseteq Obj
    BY <1>1, <1>2, <1>4 DEF IsSteps
  <2>2. QED
    BY <2>1, SyncAssumption DEF Grown
<1>5. Nat \subseteq S
  BY <1>3, <1>4, NatSet
<1>6. QED
  BY <1>1, <1>2, <1>5

(* Refs name images there are; a block is forked from refs that have a      *)
(* successor.                                                               *)
TypeInv ==
  /\ at \in [Peer -> 1..Len(Image)]
  /\ refs \in 0..Len(Image) /\ saved \in 0..Len(Image)
  /\ pend # None => pend \in 0..Len(Image) - 1
  /\ store \in [Obj -> {"absent", "good", "bad"}]

(* Every step of the joiner, of a peer and of the machine keeps the types.  *)
LEMMA NextTypeInv ==
  ASSUME TypeInv, [Next]_vars
  PROVE  TypeInv'
<1> USE SyncAssumption DEF TypeInv
<1>1. Len(Image) \in Nat \ {0}
  BY SyncAssumption
<1>2. ASSUME NEW p \in Peer, Advance(p)
      PROVE  TypeInv'
  BY <1>1, <1>2 DEF Advance
<1>3. ASSUME NEW p \in Peer, Install(p)
      PROVE  TypeInv'
  BY <1>1, <1>3 DEF Install
<1>4. ASSUME NEW p \in Peer, Ask(p) \/ Lose(p)
      PROVE  TypeInv'
  BY <1>4 DEF Ask, Lose
<1>5. ASSUME NEW p \in Peer, Ingest(p)
      PROVE  TypeInv'
  BY <1>5 DEF Ingest, Ingested
<1>6. CASE PossessionComplete
  <2> DEFINE walk == Walk(Roots(refs), Present)
  <2>1. /\ store' = [o \in Obj |-> IF o \in walk /\ store[o] = "bad" THEN "absent" ELSE store[o]]
        /\ ready' = (walk \subseteq Good)
        /\ UNCHANGED <<at, refs, saved, pend, talk, rots, crashes, forges>>
    BY <1>6 DEF PossessionComplete, Check
  <2> HIDE DEF walk
  <2>2. store' \in [Obj -> {"good", "bad", "absent"}]
    BY <2>1
  <2>3. QED
    BY <2>1, <2>2
<1>7. CASE Execute
  BY <1>1, <1>7 DEF Execute, NextBlock
<1>8. CASE CommitBlock
  <2> DEFINE news == Reach(pend + 1) \ Reach(pend)
  <2>1. /\ store' = [o \in Obj |-> IF store[o] = "absent" /\ o \in news THEN "good" ELSE store[o]]
        /\ pend # None /\ refs' = pend + 1 /\ saved' = pend + 1 /\ pend' = None
        /\ UNCHANGED at
    BY <1>8 DEF CommitBlock
  <2> HIDE DEF news
  <2>2. store' \in [Obj -> {"absent", "good", "bad"}]
    BY <2>1
  <2>3. pend + 1 \in 0..Len(Image)
    BY <1>1, <2>1
  <2>4. QED
    BY <2>1, <2>2, <2>3
<1>9. CASE AbortBlock
  BY <1>9 DEF AbortBlock
<1>10. CASE Gc
  BY <1>10 DEF Gc
<1>11. ASSUME NEW o \in Chunk, Rot(o)
       PROVE  TypeInv'
  BY <1>11 DEF Rot
<1>12. CASE Crash
  BY <1>12 DEF Crash
<1>13. CASE UNCHANGED vars
  BY <1>13 DEF vars
<1>14. QED
  BY <1>2, <1>3, <1>4, <1>5, <1>6, <1>7, <1>8, <1>9, <1>10, <1>11, <1>12, <1>13 DEF Next

(* And so does boot.                                                        *)
LEMMA InitTypeInv == Init => TypeInv
  BY SyncAssumption DEF Init, TypeInv

(* What the refs reach is what the walk over the files found, once that     *)
(* found nothing missing.                                                   *)
LEMMA WholeReach ==
  ASSUME TypeInv, Walk(Roots(refs), Present) \subseteq Present
  PROVE  Reach(refs) = Walk(Roots(refs), Present)
<1>1. Roots(refs) \in SUBSET Obj
  BY SyncAssumption DEF TypeInv, Roots
<1>2. QED
  BY <1>1, CompleteWalk DEF Reach

(* A node goes ready with every byte its refs reach, in a step that checked *)
(* them all.                                                                *)
THEOREM ReadyPossessesHolds == Spec => ReadyPossesses
<1> DEFINE Whole == ready' /\ ~ready => \A o \in Reach(refs') : store'[o] = "good"
<1>1. ASSUME TypeInv, [Next]_vars
      PROVE  [Whole]_vars
  <2>1. CASE PossessionComplete
    <3>1. SUFFICES ASSUME ready'
                   PROVE  \A o \in Reach(refs) : store'[o] = "good"
      BY <2>1 DEF PossessionComplete
    <3>2. Walk(Roots(refs), Present) \subseteq Good
      BY <2>1, <3>1 DEF PossessionComplete, Check
    <3>3. Reach(refs) \subseteq Good
      BY <1>1, <3>2, WholeReach DEF Good, Present
    <3>4. QED
      BY <2>1, <3>3 DEF PossessionComplete, Check, Good
  <2>2. CASE ~PossessionComplete
    BY <1>1, <2>2
       DEF Next, vars, Advance, Install, Ask, Ingest, Lose, Execute, CommitBlock,
           AbortBlock, Gc, Rot, Crash
  <2>3. QED
    BY <2>1, <2>2
<1>2. QED
  BY <1>1, InitTypeInv, NextTypeInv, PTL DEF Spec, ReadyPossesses

(* Neither the walk that removes corrupt chunks nor a sweep nor anything    *)
(* else takes an intact object the refs reach.                              *)
THEOREM SweepsSpareHolds == Spec => SweepsSpare
<1> DEFINE Spared ==
      refs' = refs => \A o \in Reach(refs) : store[o] = "good" => store'[o] # "absent"
<1>1. ASSUME TypeInv, [Next]_vars
      PROVE  [Spared]_vars
  <2> SUFFICES ASSUME NEW o \in Reach(refs), refs' = refs, store[o] = "good"
               PROVE  store'[o] # "absent"
    OBVIOUS
  <2>1. Roots(refs) \in SUBSET Obj
    BY <1>1, SyncAssumption DEF TypeInv, Roots
  <2>2. o \in Obj
    BY <2>1, WalkObjects DEF Reach
  <2>3. CASE PossessionComplete
    BY <2>2, <2>3 DEF PossessionComplete, Check
  <2>4. CASE Gc
    <3>1. Walk(Roots(refs), Present) \subseteq Present
      BY <2>1, <2>4, WalkObjects DEF Gc, Marked, Missing
    <3>2. o \in Walk(Roots(refs), Present)
      BY <1>1, <3>1, WholeReach
    <3>3. QED
      BY <2>2, <2>4, <3>2 DEF Gc
  <2>5. CASE \E p \in Peer : Ingest(p)
    BY <2>2, <2>5 DEF Ingest, Ingested
  <2>6. CASE CommitBlock
    BY <2>2, <2>6 DEF CommitBlock
  <2>7. CASE \E c \in Chunk : Rot(c)
    BY <1>1, <2>2, <2>7 DEF Rot, TypeInv
  <2>8. CASE store' = store
    BY <2>8
  <2>9. QED
    BY <1>1, <2>3, <2>4, <2>5, <2>6, <2>7, <2>8
       DEF Next, vars, Advance, Install, Ask, Lose, Execute, AbortBlock, Crash
<1>2. QED
  BY <1>1, InitTypeInv, NextTypeInv, PTL DEF Spec, SweepsSpare
==============================================================================
