-------------------------- MODULE DuckfsReplicasProofs --------------------------
(***************************************************************************)
(* Nodes with different stores over one stream, for any number of nodes,   *)
(* joins, blocks and operations and any caps: what a node's refs reach it  *)
(* has, the first operation of a block is decided alike everywhere, a      *)
(* staged chunk lives out its time and no cap is ever exceeded.            *)
(***************************************************************************)
EXTENDS DuckfsReplicas, DuckfsVerbsProofs

------------------------------------------------------------------------------
(* Arithmetic the prover finds only when asked in this form.                *)
LEMMA Products ==
  /\ \A a, b, c \in Nat : b <= c => a * b <= a * c
  /\ \A a, b \in Nat : a * (b + 1) = a * b + a /\ a * b \in Nat
  /\ \A a, b, c \in Nat : a * b + a * c = a * (b + c)
<1>1. ASSUME NEW a \in Nat, NEW b \in Nat, NEW c \in Nat, b <= c
      PROVE  a * b <= a * c
  <2>1. c - b \in Nat
    BY <1>1
  <2>2. a * (c - b) >= 0
    BY <2>1
  <2>3. a * c = a * b + a * (c - b)
    OBVIOUS
  <2>4. a * b \in Nat /\ a * c \in Nat
    OBVIOUS
  <2>5. QED
    BY <2>1, <2>2, <2>3, <2>4
<1>2. \A a, b \in Nat : a * (b + 1) = a * b + a /\ a * b \in Nat
  OBVIOUS
<1>3. \A a, b, c \in Nat : a * b + a * c = a * (b + c)
  OBVIOUS
<1>4. QED
  BY <1>1, <1>2, <1>3

(* The lengths the image is summed from.                                    *)
LEMMA EntryNats ==
  /\ EntryLen["id"] \in Nat /\ EntryLen["staged"] \in Nat
  /\ EntryLen["pin"] \in Nat /\ EntryLen["watch"] \in Nat
  /\ EntryLen["id"] * (WindowCap + 2) \in Nat
<1>1. /\ EntryLen["id"] \in Nat /\ EntryLen["staged"] \in Nat
      /\ EntryLen["pin"] \in Nat /\ EntryLen["watch"] \in Nat
  BY TablesAssumption
<1>2. WindowCap + 2 \in Nat
  BY SizesAssumption
<1> DEFINE i == EntryLen["id"]
           k == WindowCap + 2
<1> HIDE DEF i, k
<1>3. i \in Nat /\ k \in Nat
  BY <1>1, <1>2 DEF i, k
<1>4. i * k \in Nat
  BY <1>3
<1>5. QED
  BY <1>1, <1>4 DEF i, k

------------------------------------------------------------------------------
(* Bytes of staged chunks *)

Units(S) == UNION {{c} \X (1..ChunkLen[c]) : c \in S}

(* Chunks have finitely many bytes; fewer chunks have no more, and a new    *)
(* one adds its own.                                                        *)
LEMMA BytesFacts ==
  ASSUME NEW S \in SUBSET Chunk
  PROVE  /\ IsFiniteSet(Units(S)) /\ Bytes(S) \in Nat
         /\ \A T \in SUBSET S : Bytes(T) <= Bytes(S)
         /\ \A c \in Chunk \ S : Bytes(S \cup {c}) = Bytes(S) + ChunkLen[c]
<1>1. ASSUME NEW c \in Chunk
      PROVE  /\ IsFiniteSet({c} \X (1..ChunkLen[c]))
             /\ Cardinality({c} \X (1..ChunkLen[c])) = ChunkLen[c]
  <2>1. ChunkLen[c] \in Nat
    BY TablesAssumption
  <2>2. IsFiniteSet(1..ChunkLen[c]) /\ Cardinality(1..ChunkLen[c]) = ChunkLen[c]
    BY <2>1, FS_Interval
  <2>3. IsFiniteSet({c}) /\ Cardinality({c}) = 1
    BY FS_Singleton
  <2> DEFINE I == 1..ChunkLen[c]
             k == ChunkLen[c]
  <2> HIDE DEF I, k
  <2>4. IsFiniteSet({c} \X I) /\ Cardinality({c} \X I) = Cardinality({c}) * Cardinality(I)
    BY <2>2, <2>3, FS_Product DEF I
  <2>5. Cardinality({c} \X I) = 1 * k
    BY <2>2, <2>3, <2>4 DEF I, k
  <2>6. 1 * k = k
    BY <2>1 DEF k
  <2>7. QED
    BY <2>4, <2>5, <2>6 DEF I, k
<1>2. ASSUME NEW R \in SUBSET Chunk
      PROVE  IsFiniteSet(Units(R)) /\ Bytes(R) = Cardinality(Units(R)) /\ Bytes(R) \in Nat
  <2> DEFINE U == {{c} \X (1..ChunkLen[c]) : c \in R}
             f == [c \in R |-> {c} \X (1..ChunkLen[c])]
  <2>1. f \in Surjection(R, U)
    BY DEF Surjection
  <2>2. IsFiniteSet(R)
    BY TablesAssumption, FS_Subset
  <2>3. IsFiniteSet(U)
    BY <2>1, <2>2, FS_Surjection
  <2>4. \A T \in U : IsFiniteSet(T)
    BY <1>1
  <2>5. IsFiniteSet(UNION U)
    <3> HIDE DEF U
    <3>1. QED
      BY <2>3, <2>4, FS_UNION
  <2>6. QED
    BY <2>5, FS_CardinalityType DEF Units, Bytes
<1>3. ASSUME NEW T \in SUBSET S
      PROVE  Bytes(T) <= Bytes(S)
  <2>1. Units(T) \in SUBSET Units(S)
    BY DEF Units
  <2>2. QED
    BY <1>2, <2>1, FS_Subset
<1>4. ASSUME NEW c \in Chunk \ S
      PROVE  Bytes(S \cup {c}) = Bytes(S) + ChunkLen[c]
  <2> DEFINE V == {c} \X (1..ChunkLen[c])
  <2>1. Units(S \cup {c}) = Units(S) \cup V
    BY DEF Units
  <2>2. Units(S) \cap V = {}
    BY DEF Units
  <2>3. IsFiniteSet(V) /\ Cardinality(V) = ChunkLen[c]
    BY <1>1
  <2> HIDE DEF V
  <2>4. Cardinality(Units(S) \cup V) = Cardinality(Units(S)) + Cardinality(V) - Cardinality({})
    BY <1>2, <2>2, <2>3, FS_Union
  <2>5. Cardinality({}) = 0 /\ ChunkLen[c] \in Nat
    BY FS_EmptySet, TablesAssumption
  <2>6. /\ Bytes(S \cup {c}) = Cardinality(Units(S \cup {c}))
        /\ Bytes(S) = Cardinality(Units(S)) /\ Cardinality(Units(S)) \in Nat
    <3>1. S \cup {c} \in SUBSET Chunk
      OBVIOUS
    <3>2. QED
      BY <1>2, <3>1
  <2> DEFINE a == Cardinality(Units(S))
             k == ChunkLen[c]
  <2>7. Cardinality(Units(S) \cup V) = a + k - 0 /\ a \in Nat /\ k \in Nat
    BY <2>3, <2>4, <2>5, <2>6
  <2>8. Bytes(S \cup {c}) = Cardinality(Units(S) \cup V) /\ Bytes(S) = a
    BY <2>1, <2>6
  <2> HIDE DEF a, k
  <2>9. Bytes(S \cup {c}) = Bytes(S) + k
    BY <2>7, <2>8
  <2>10. QED
    BY <2>9 DEF k
<1>5. QED
  BY <1>2, <1>3, <1>4

------------------------------------------------------------------------------
(* Caps *)

(* What the image weighs once its ungated parts are as large as they get.   *)
Weight(r) ==
  EntryLen["id"] * (WindowCap + 2) + EntryLen["staged"] * Cardinality(StagedChunks(r))
    + EntryLen["pin"] * Cardinality(Pinned(r)) + EntryLen["watch"] * Cardinality(r.watches)

(* The window's cap is part of Refs.                                        *)
Capped(r) ==
  /\ Weight(r) <= MaxImage
  /\ Cardinality(StagedChunks(r)) <= StagingCap
  /\ Cardinality(Pinned(r)) <= PinCap
  /\ Cardinality(r.watches) <= WatchCap
  /\ \A o \in Owner : /\ Cardinality(OwnedChunks(r, o)) <= OwnerCap
                      /\ Bytes(OwnedChunks(r, o)) <= Quota
                      /\ Cardinality(PinsOf(r, o)) <= PinShare

(* The tables of well-formed refs are finite.                               *)
LEMMA TablesFinite ==
  ASSUME NEW r \in Refs
  PROVE  /\ IsFiniteSet(StagedChunks(r)) /\ Cardinality(StagedChunks(r)) \in Nat
         /\ IsFiniteSet(Pinned(r)) /\ Cardinality(Pinned(r)) \in Nat
         /\ IsFiniteSet(r.watches) /\ Cardinality(r.watches) \in Nat
         /\ \A o \in Owner : /\ OwnedChunks(r, o) \in SUBSET StagedChunks(r)
                             /\ OwnedChunks(r, o) \in SUBSET Chunk
                             /\ IsFiniteSet(OwnedChunks(r, o))
                             /\ Cardinality(OwnedChunks(r, o)) \in Nat
                             /\ PinsOf(r, o) \in SUBSET Pinned(r)
                             /\ IsFiniteSet(PinsOf(r, o))
                             /\ Cardinality(PinsOf(r, o)) \in Nat
<1>1. /\ StagedChunks(r) \in SUBSET Chunk /\ Pinned(r) \in SUBSET PinName
      /\ r.watches \in SUBSET Watch
      /\ \A o \in Owner : OwnedChunks(r, o) \in SUBSET StagedChunks(r)
      /\ \A o \in Owner : PinsOf(r, o) \in SUBSET Pinned(r)
  BY DEF StagedChunks, Pinned, OwnedChunks, PinsOf, Refs
<1>2. IsFiniteSet(StagedChunks(r)) /\ IsFiniteSet(Pinned(r)) /\ IsFiniteSet(r.watches)
  BY <1>1, TablesAssumption, FS_Subset
<1>3. \A o \in Owner : IsFiniteSet(OwnedChunks(r, o)) /\ IsFiniteSet(PinsOf(r, o))
  BY <1>1, <1>2, FS_Subset
<1>4. QED
  BY <1>1, <1>2, <1>3, FS_CardinalityType

(* The image and what it may still grow by make up that weight.             *)
LEMMA ImageWeight ==
  ASSUME NEW r \in Refs
  PROVE  /\ ImageLen(r) + Headroom(r) = Weight(r)
         /\ ImageLen(r) \in Nat /\ Headroom(r) \in Nat /\ Weight(r) \in Nat
<1> DEFINE e == EntryLen["id"]
           hd == IF r.head = None THEN 0 ELSE 1
           rt == IF RetSnaps(r) = {} THEN 0 ELSE 1
           nohd == IF r.head = None THEN 1 ELSE 0
           nort == IF RetSnaps(r) = {} THEN 1 ELSE 0
           used == hd + Len(r.window) + rt
           left == nohd + (WindowCap - Len(r.window)) + nort
           A == EntryLen["staged"] * Cardinality(StagedChunks(r))
           B == EntryLen["pin"] * Cardinality(Pinned(r))
           C == EntryLen["watch"] * Cardinality(r.watches)
<1>1. /\ e \in Nat /\ EntryLen["staged"] \in Nat /\ EntryLen["pin"] \in Nat
      /\ EntryLen["watch"] \in Nat /\ WindowCap \in Nat
  BY TablesAssumption, SizesAssumption
<1>2. Len(r.window) \in Nat /\ Len(r.window) <= WindowCap
  BY DEF Refs, Window
<1>3. hd \in Nat /\ nohd \in Nat /\ hd + nohd = 1 /\ rt \in Nat /\ nort \in Nat /\ rt + nort = 1
  OBVIOUS
<1>4. A \in Nat /\ B \in Nat /\ C \in Nat
  BY <1>1, TablesFinite, Products
<1>5. /\ ImageLen(r) = e * used + A + B + C /\ Headroom(r) = e * left
      /\ Weight(r) = e * (WindowCap + 2) + A + B + C
  BY Zenon DEF ImageLen, Headroom, Weight
<1> HIDE DEF e, hd, rt, nohd, nort, A, B, C
<1>6. used \in Nat /\ left \in Nat /\ used + left = WindowCap + 2
  <2> DEFINE l == Len(r.window)
  <2>1. l \in Nat /\ l <= WindowCap
    BY <1>2
  <2>2. used = hd + l + rt /\ left = nohd + (WindowCap - l) + nort
    OBVIOUS
  <2> HIDE DEF l, used, left
  <2>3. used \in Nat /\ left \in Nat
    BY <1>1, <1>3, <2>1, <2>2
  <2>4. QED
    BY <1>1, <1>3, <2>1, <2>2, <2>3
<1> HIDE DEF used, left
<1>7. e * used + e * left = e * (used + left) /\ e * used \in Nat /\ e * left \in Nat
  BY <1>1, <1>6, Products
<1> DEFINE X == e * used
           Y == e * left
           Z == e * (WindowCap + 2)
<1>8. X + Y = Z /\ X \in Nat /\ Y \in Nat
  <2>1. e * (used + left) = e * (WindowCap + 2)
    BY Zenon, <1>6
  <2>2. QED
    BY Zenon, <1>7, <2>1
<1>9. ImageLen(r) = X + A + B + C /\ Headroom(r) = Y /\ Weight(r) = Z + A + B + C
  BY Zenon, <1>5
<1> HIDE DEF X, Y, Z
<1>10. QED
  BY <1>4, <1>8, <1>9

(* Refs with no more rows than capped ones, and the same owners, are        *)
(* capped: sweeps, revisions and commits need no gate.                      *)
LEMMA CappedBelow ==
  ASSUME NEW r \in Refs, NEW r1 \in Refs, Capped(r),
         StagedChunks(r1) \subseteq StagedChunks(r), Pinned(r1) \subseteq Pinned(r),
         r1.watches \subseteq r.watches,
         \A c \in StagedChunks(r1) : r1.staging[c].owner = r.staging[c].owner,
         \A n \in Pinned(r1) : r1.pins[n].owner = r.pins[n].owner
  PROVE  Capped(r1)
<1>1. \A o \in Owner : /\ OwnedChunks(r1, o) \in SUBSET OwnedChunks(r, o)
                       /\ PinsOf(r1, o) \in SUBSET PinsOf(r, o)
  BY DEF OwnedChunks, PinsOf
<1>2. /\ Cardinality(StagedChunks(r1)) <= Cardinality(StagedChunks(r))
      /\ Cardinality(Pinned(r1)) <= Cardinality(Pinned(r))
      /\ Cardinality(r1.watches) <= Cardinality(r.watches)
  BY TablesFinite, FS_Subset
<1>3. ASSUME NEW o \in Owner
      PROVE  /\ Cardinality(OwnedChunks(r1, o)) <= OwnerCap
             /\ Bytes(OwnedChunks(r1, o)) <= Quota
             /\ Cardinality(PinsOf(r1, o)) <= PinShare
  <2>1. /\ Cardinality(OwnedChunks(r1, o)) \in Nat /\ Cardinality(OwnedChunks(r, o)) \in Nat
        /\ Cardinality(OwnedChunks(r1, o)) <= Cardinality(OwnedChunks(r, o))
    BY <1>1, TablesFinite, FS_Subset
  <2>2. /\ Bytes(OwnedChunks(r1, o)) \in Nat /\ Bytes(OwnedChunks(r, o)) \in Nat
        /\ Bytes(OwnedChunks(r1, o)) <= Bytes(OwnedChunks(r, o))
    <3>1. OwnedChunks(r, o) \in SUBSET Chunk /\ OwnedChunks(r1, o) \in SUBSET Chunk
      BY TablesFinite
    <3>2. QED
      BY <1>1, <3>1, BytesFacts
  <2>3. /\ Cardinality(OwnedChunks(r, o)) <= OwnerCap
        /\ Bytes(OwnedChunks(r, o)) <= Quota
        /\ Cardinality(PinsOf(r, o)) <= PinShare
    BY DEF Capped
  <2>4. OwnerCap \in Nat /\ Quota \in Nat /\ PinShare \in Nat
    BY TablesAssumption
  <2>5. /\ Cardinality(OwnedChunks(r1, o)) <= OwnerCap
        /\ Bytes(OwnedChunks(r1, o)) <= Quota
    BY <2>1, <2>2, <2>3, <2>4
  <2>6. Cardinality(PinsOf(r1, o)) <= PinShare
    <3>1. /\ Cardinality(PinsOf(r1, o)) \in Nat /\ Cardinality(PinsOf(r, o)) \in Nat
          /\ Cardinality(PinsOf(r1, o)) <= Cardinality(PinsOf(r, o))
      BY <1>1, TablesFinite, FS_Subset
    <3>2. QED
      BY <2>3, <2>4, <3>1
  <2>7. QED
    BY <2>5, <2>6
<1>4. Weight(r1) <= Weight(r) /\ Weight(r1) \in Nat /\ Weight(r) \in Nat
  <2> DEFINE st == Cardinality(StagedChunks(r))
             st1 == Cardinality(StagedChunks(r1))
             pn == Cardinality(Pinned(r))
             pn1 == Cardinality(Pinned(r1))
             wt == Cardinality(r.watches)
             wt1 == Cardinality(r1.watches)
             es == EntryLen["staged"]
             ep == EntryLen["pin"]
             ew == EntryLen["watch"]
             base == EntryLen["id"] * (WindowCap + 2)
  <2>1. /\ st \in Nat /\ st1 \in Nat /\ pn \in Nat /\ pn1 \in Nat /\ wt \in Nat /\ wt1 \in Nat
        /\ es \in Nat /\ ep \in Nat /\ ew \in Nat
        /\ st1 <= st /\ pn1 <= pn /\ wt1 <= wt
    <3>1. st \in Nat /\ st1 \in Nat /\ pn \in Nat /\ pn1 \in Nat
      BY TablesFinite
    <3>2. wt \in Nat /\ wt1 \in Nat
      BY TablesFinite
    <3>3. es \in Nat /\ ep \in Nat /\ ew \in Nat
      BY EntryNats
    <3>4. QED
      BY <1>2, <3>1, <3>2, <3>3
  <2>2. base \in Nat
    BY EntryNats
  <2>3. /\ Weight(r) = base + es * st + ep * pn + ew * wt
        /\ Weight(r1) = base + es * st1 + ep * pn1 + ew * wt1
    BY Zenon DEF Weight
  <2> HIDE DEF st, st1, pn, pn1, wt, wt1, es, ep, ew, base
  <2>4. /\ es * st1 <= es * st /\ es * st \in Nat /\ es * st1 \in Nat
        /\ ep * pn1 <= ep * pn /\ ep * pn \in Nat /\ ep * pn1 \in Nat
        /\ ew * wt1 <= ew * wt /\ ew * wt \in Nat /\ ew * wt1 \in Nat
    BY <2>1, Products
  <2> DEFINE a == es * st
             a1 == es * st1
             b == ep * pn
             b1 == ep * pn1
             c == ew * wt
             c1 == ew * wt1
  <2>5. /\ a1 <= a /\ b1 <= b /\ c1 <= c
        /\ a \in Nat /\ a1 \in Nat /\ b \in Nat /\ b1 \in Nat /\ c \in Nat /\ c1 \in Nat
        /\ Weight(r) = base + a + b + c /\ Weight(r1) = base + a1 + b1 + c1
    BY <2>3, <2>4
  <2> HIDE DEF a, a1, b, b1, c, c1
  <2>6. QED
    BY <2>2, <2>5
<1>5. /\ Cardinality(StagedChunks(r1)) <= StagingCap /\ Weight(r1) <= MaxImage
      /\ Cardinality(Pinned(r1)) <= PinCap /\ Cardinality(r1.watches) <= WatchCap
  <2>1. /\ Cardinality(StagedChunks(r)) \in Nat /\ Cardinality(StagedChunks(r1)) \in Nat
        /\ Cardinality(Pinned(r)) \in Nat /\ Cardinality(Pinned(r1)) \in Nat
        /\ Cardinality(r.watches) \in Nat /\ Cardinality(r1.watches) \in Nat
        /\ StagingCap \in Nat /\ PinCap \in Nat /\ WatchCap \in Nat /\ MaxImage \in Nat
    BY TablesFinite, TablesAssumption
  <2>2. /\ Cardinality(StagedChunks(r)) <= StagingCap /\ Weight(r) <= MaxImage
        /\ Cardinality(Pinned(r)) <= PinCap /\ Cardinality(r.watches) <= WatchCap
    BY DEF Capped
  <2>3. QED
    BY <1>2, <1>4, <2>1, <2>2
<1>6. QED
  BY <1>3, <1>5 DEF Capped

(* The sweep and the revision rule leave capped refs.                       *)
LEMMA SweptCapped ==
  ASSUME NEW r \in Refs, Capped(r), NEW h \in Nat
  PROVE  Capped(Swept(r, h))
<1> DEFINE s == Swept(r, h)
<1>1. /\ s \in Refs /\ s.window = r.window /\ s.pins = r.pins /\ s.watches = r.watches
      /\ StagedChunks(s) \subseteq StagedChunks(r)
      /\ \A c \in Chunk : s.staging[c] \in {NoEntry, r.staging[c]}
  BY SweptRefs
<1> HIDE DEF s
<1>2. \A c \in StagedChunks(s) : s.staging[c].owner = r.staging[c].owner
  BY <1>1 DEF StagedChunks
<1>3. Pinned(s) = Pinned(r)
  BY <1>1 DEF Pinned
<1>4. Capped(s)
  BY <1>1, <1>2, <1>3, CappedBelow
<1>5. QED
  BY <1>4 DEF s

(* The bookkeeping at the end of a verb adds nothing to the image's weight. *)
LEMMA TransactedCapped ==
  ASSUME NEW r \in Refs, NEW r1 \in Refs, Capped(r1)
  PROVE  Capped(Transacted(r, r1))
<1> DEFINE t == Transacted(r, r1)
<1>1. /\ t \in Refs /\ t.pins = r1.pins
      /\ t.watches = r1.watches /\ t.staging = r1.staging
  <2>1. t \in Refs
    BY TransactedRefs
  <2>2. QED
    BY <2>1 DEF Transacted, Refs
<1> HIDE DEF t
<1>2. StagedChunks(t) = StagedChunks(r1) /\ Pinned(t) = Pinned(r1)
  BY <1>1 DEF StagedChunks, Pinned
<1>3. Capped(t)
  BY <1>1, <1>2, CappedBelow
<1>4. QED
  BY <1>3 DEF t

(* Genesis refs are capped: the image cap leaves room for the ungated part. *)
LEMMA GenesisCapped == Capped(GenesisRefs)
<1> DEFINE g == GenesisRefs
<1>1. g \in Refs /\ StagedChunks(g) = {}
  BY GenesisOk
<1>2. Pinned(g) = {} /\ g.watches = {}
  BY DEF GenesisRefs, Pinned
<1>3. \A o \in Owner : OwnedChunks(g, o) = {} /\ PinsOf(g, o) = {}
  BY <1>1, <1>2 DEF OwnedChunks, PinsOf
<1>4. Bytes({}) = 0 /\ Cardinality({}) = 0
  <2>1. UNION {{c} \X (1..ChunkLen[c]) : c \in {}} = {}
    OBVIOUS
  <2>2. QED
    BY <2>1, FS_EmptySet DEF Bytes
<1>5. Weight(g) = EntryLen["id"] * (WindowCap + 2)
  <2> DEFINE base == EntryLen["id"] * (WindowCap + 2)
             es == EntryLen["staged"]
             ep == EntryLen["pin"]
             ew == EntryLen["watch"]
  <2>1. base \in Nat /\ es \in Nat /\ ep \in Nat /\ ew \in Nat
    BY EntryNats
  <2>2. Weight(g) = base + es * 0 + ep * 0 + ew * 0
    BY Zenon, <1>1, <1>2, <1>4 DEF Weight
  <2> HIDE DEF base, es, ep, ew
  <2>3. es * 0 = 0 /\ ep * 0 = 0 /\ ew * 0 = 0
    BY <2>1
  <2>4. Weight(g) = base + 0 + 0 + 0
    BY Zenon, <2>2, <2>3
  <2>5. Weight(g) = base
    BY <2>1, <2>4
  <2>6. QED
    BY <2>5 DEF base
<1>6. Weight(g) <= MaxImage
  BY <1>5, TablesAssumption
<1>7. /\ 0 <= StagingCap /\ 0 <= OwnerCap /\ 0 <= Quota
      /\ 0 <= PinCap /\ 0 <= PinShare /\ 0 <= WatchCap
  BY TablesAssumption
<1>8. QED
  BY <1>1, <1>2, <1>3, <1>4, <1>6, <1>7 DEF Capped

(* putblob's gates leave room for exactly the row and the bytes it adds.    *)
LEMMA PutBlobCapped ==
  ASSUME NEW r \in Refs, Capped(r), NEW objs, NEW o \in Owner, NEW c \in Chunk,
         NEW h \in Nat, PutBlobOk(r, objs, o, c, h)
  PROVE  Capped(PutBlobRefs(r, objs, o, c, h))
<1> DEFINE s == Swept(r, h)
           row == [owner |-> o, expires |-> h + TTL]
           r1 == [s EXCEPT !.staging[c] = row]
<1>1. s \in Refs /\ Capped(s)
  BY SweptRefs, SweptCapped
<1>2. CASE AlreadyStaged(r, objs, c, h)
  BY <1>1, <1>2, TransactedCapped DEF PutBlobRefs
<1>3. CASE ~AlreadyStaged(r, objs, c, h)
  <2>1. row \in StagedRow /\ row # NoEntry /\ row.owner = o
    BY SizesAssumption, SentinelAssumption DEF StagedRow
  <2>2. /\ s.staging[c] = NoEntry
        /\ Cardinality(StagedChunks(s)) < StagingCap
        /\ Cardinality(OwnedChunks(s, o)) < OwnerCap
        /\ Bytes(OwnedChunks(s, o)) + ChunkLen[c] <= Quota
        /\ ImageLen(s) + EntryLen["staged"] + Headroom(s) <= MaxImage
    BY <1>3 DEF PutBlobOk, AlreadyStaged, GrowthFits
  <2>3. PutBlobRefs(r, objs, o, c, h) = Transacted(r, r1)
    BY <1>3 DEF PutBlobRefs
  <2> HIDE DEF row, s
  <2>4. /\ r1 \in Refs /\ r1.pins = s.pins
        /\ r1.watches = s.watches /\ r1.staging[c] = row
        /\ \A d \in Chunk \ {c} : r1.staging[d] = s.staging[d]
    BY <1>1, <2>1 DEF Refs
  <2> HIDE DEF r1
  <2>5. /\ StagedChunks(r1) = StagedChunks(s) \cup {c} /\ c \notin StagedChunks(s)
        /\ Pinned(r1) = Pinned(s)
    BY <2>1, <2>2, <2>4 DEF StagedChunks, Pinned
  <2>6. /\ OwnedChunks(r1, o) = OwnedChunks(s, o) \cup {c} /\ c \notin OwnedChunks(s, o)
        /\ \A q \in Owner \ {o} : OwnedChunks(r1, q) = OwnedChunks(s, q)
        /\ \A q \in Owner : PinsOf(r1, q) = PinsOf(s, q)
    BY <2>1, <2>4, <2>5 DEF OwnedChunks, StagedChunks, PinsOf
  <2>7. Cardinality(StagedChunks(r1)) = Cardinality(StagedChunks(s)) + 1
    <3>1. IsFiniteSet(StagedChunks(s))
      BY <1>1, TablesFinite
    <3>2. QED
      BY <2>5, <3>1, FS_AddElement
  <2>8. Cardinality(OwnedChunks(r1, o)) = Cardinality(OwnedChunks(s, o)) + 1
    BY <1>1, <2>6, TablesFinite, FS_AddElement
  <2>9. Bytes(OwnedChunks(r1, o)) = Bytes(OwnedChunks(s, o)) + ChunkLen[c]
    <3>1. OwnedChunks(s, o) \in SUBSET Chunk
      BY <1>1, TablesFinite
    <3>2. c \in Chunk \ OwnedChunks(s, o)
      BY <2>6
    <3>3. Bytes(OwnedChunks(s, o) \cup {c}) = Bytes(OwnedChunks(s, o)) + ChunkLen[c]
      BY <3>1, <3>2, BytesFacts
    <3>4. QED
      BY <2>6, <3>3
  <2>10. Weight(r1) = Weight(s) + EntryLen["staged"]
    <3> DEFINE st == Cardinality(StagedChunks(s))
               es == EntryLen["staged"]
               base == EntryLen["id"] * (WindowCap + 2)
               b == EntryLen["pin"] * Cardinality(Pinned(s))
               d == EntryLen["watch"] * Cardinality(s.watches)
    <3>1. st \in Nat /\ es \in Nat /\ base \in Nat /\ b \in Nat /\ d \in Nat
      BY <1>1, TablesFinite, EntryNats, Products
    <3>2. Weight(s) = base + es * st + b + d
      BY Zenon DEF Weight
    <3>3. Weight(r1) = base + es * (st + 1) + b + d
      BY Zenon, <2>4, <2>5, <2>7 DEF Weight
    <3> HIDE DEF st, es, base, b, d
    <3>4. es * (st + 1) = es * st + es /\ es * st \in Nat
      BY <3>1, Products
    <3> DEFINE a == es * st
    <3>5. Weight(s) = base + a + b + d /\ Weight(r1) = base + (a + es) + b + d /\ a \in Nat
      BY <3>2, <3>3, <3>4
    <3> HIDE DEF a
    <3>6. Weight(r1) = Weight(s) + es
      BY <3>1, <3>5
    <3>7. QED
      BY <3>6 DEF es
  <2>11. Weight(r1) <= MaxImage
    <3>1. /\ ImageLen(s) + Headroom(s) = Weight(s) /\ ImageLen(s) \in Nat
          /\ Headroom(s) \in Nat /\ EntryLen["staged"] \in Nat /\ MaxImage \in Nat
      BY <1>1, ImageWeight, TablesAssumption
    <3>2. QED
      BY <2>2, <2>10, <3>1
  <2>12. Cardinality(StagedChunks(r1)) <= StagingCap
    BY <1>1, <2>2, <2>7, TablesFinite, TablesAssumption
  <2>13. ASSUME NEW q \in Owner
         PROVE  /\ Cardinality(OwnedChunks(r1, q)) <= OwnerCap
                /\ Bytes(OwnedChunks(r1, q)) <= Quota
    <3>1. CASE q = o
      <4>1. Cardinality(OwnedChunks(s, o)) \in Nat /\ OwnerCap \in Nat
        BY <1>1, TablesFinite, TablesAssumption
      <4>2. QED
        BY <2>2, <2>8, <2>9, <3>1, <4>1
    <3>2. CASE q # o
      BY <1>1, <2>6, <3>2 DEF Capped
    <3>3. QED
      BY <3>1, <3>2
  <2>14. Capped(r1)
    BY <1>1, <2>4, <2>5, <2>6, <2>11, <2>12, <2>13 DEF Capped
  <2>15. QED
    BY <2>3, <2>4, <2>14, TransactedCapped
<1>4. QED
  BY <1>2, <1>3

(* pin's gate leaves room for exactly the pin.                              *)
LEMMA PinCapped ==
  ASSUME NEW r \in Refs, Capped(r), NEW o \in Owner, NEW s \in Snap,
         NEW n \in PinName, NEW h \in Nat, PinOk(r, o, s, n, h)
  PROVE  Capped(PinRefs(r, o, s, n, h))
<1> DEFINE z == Swept(r, h)
           row == [owner |-> o, snap |-> s]
           r1 == [z EXCEPT !.pins[n] = row]
<1>1. z \in Refs /\ Capped(z) /\ z.pins = r.pins
  BY SweptRefs, SweptCapped
<1>2. row \in PinRow /\ row # NoEntry /\ row.owner = o
  BY SentinelAssumption DEF PinRow, Snap
<1>3. /\ z.pins[n] = NoEntry /\ ImageLen(z) + EntryLen["pin"] + Headroom(z) <= MaxImage
      /\ Cardinality(Pinned(z)) < PinCap /\ Cardinality(PinsOf(z, o)) < PinShare
  BY <1>1 DEF PinOk, GrowthFits, Pinned, PinsOf
<1>4. PinRefs(r, o, s, n, h) = Transacted(r, r1)
  BY DEF PinRefs
<1> HIDE DEF row, z
<1>5. /\ r1 \in Refs /\ r1.staging = z.staging
      /\ r1.watches = z.watches /\ r1.pins = [z.pins EXCEPT ![n] = row]
      /\ z.pins \in [PinName -> PinRow \cup {NoEntry}]
  BY <1>1, <1>2 DEF Refs
<1> HIDE DEF r1
<1>6. /\ Pinned(r1) = Pinned(z) \cup {n} /\ n \notin Pinned(z)
      /\ StagedChunks(r1) = StagedChunks(z)
      /\ \A q \in Owner : OwnedChunks(r1, q) = OwnedChunks(z, q)
      /\ PinsOf(r1, o) = PinsOf(z, o) \cup {n} /\ n \notin PinsOf(z, o)
      /\ \A q \in Owner \ {o} : PinsOf(r1, q) = PinsOf(z, q)
  BY <1>2, <1>3, <1>5 DEF StagedChunks, Pinned, OwnedChunks, PinsOf
<1>7. /\ Cardinality(Pinned(r1)) = Cardinality(Pinned(z)) + 1
      /\ Cardinality(PinsOf(r1, o)) = Cardinality(PinsOf(z, o)) + 1
  BY <1>1, <1>6, TablesFinite, FS_AddElement
<1>8. Weight(r1) = Weight(z) + EntryLen["pin"]
  <2> DEFINE pn == Cardinality(Pinned(z))
             ep == EntryLen["pin"]
             base == EntryLen["id"] * (WindowCap + 2)
             b == EntryLen["staged"] * Cardinality(StagedChunks(z))
             d == EntryLen["watch"] * Cardinality(z.watches)
  <2>1. pn \in Nat /\ ep \in Nat /\ base \in Nat /\ b \in Nat /\ d \in Nat
    BY <1>1, TablesFinite, EntryNats, Products
  <2>2. Weight(z) = base + b + ep * pn + d
    BY Zenon DEF Weight
  <2>3. Weight(r1) = base + b + ep * (pn + 1) + d
    BY Zenon, <1>5, <1>6, <1>7 DEF Weight
  <2> HIDE DEF pn, ep, base, b, d
  <2>4. ep * (pn + 1) = ep * pn + ep /\ ep * pn \in Nat
    BY <2>1, Products
  <2> DEFINE a == ep * pn
  <2>5. Weight(z) = base + b + a + d /\ Weight(r1) = base + b + (a + ep) + d /\ a \in Nat
    BY <2>2, <2>3, <2>4
  <2> HIDE DEF a
  <2>6. Weight(r1) = Weight(z) + ep
    BY <2>1, <2>5
  <2>7. QED
    BY <2>6 DEF ep
<1>9. Weight(r1) <= MaxImage
  <2>1. /\ ImageLen(z) + Headroom(z) = Weight(z) /\ ImageLen(z) \in Nat
        /\ Headroom(z) \in Nat /\ EntryLen["pin"] \in Nat /\ MaxImage \in Nat
    BY <1>1, ImageWeight, TablesAssumption
  <2>2. QED
    BY <1>3, <1>8, <2>1
<1>10. /\ Cardinality(Pinned(r1)) <= PinCap
       /\ \A q \in Owner : Cardinality(PinsOf(r1, q)) <= PinShare
  <2>1. Cardinality(Pinned(r1)) <= PinCap /\ Cardinality(PinsOf(r1, o)) <= PinShare
    BY <1>1, <1>3, <1>7, TablesFinite, TablesAssumption
  <2>2. QED
    BY <1>1, <1>6, <2>1 DEF Capped
<1>11. Capped(r1)
  BY <1>1, <1>5, <1>6, <1>9, <1>10 DEF Capped
<1>12. QED
  BY <1>4, <1>5, <1>11, TransactedCapped

(* A commit is ungated: its rows only go and the window keeps its bound.    *)
LEMMA CommitCapped ==
  ASSUME NEW r \in Refs, Capped(r), NEW ch, NEW id \in Snap, NEW h \in Nat
  PROVE  Capped(CommitRefs(r, ch, id, h))
<1> DEFINE s == Swept(r, h)
           w == Pushed(s.window, id)
           g == [c \in Chunk |-> IF c \in Referenced(ch) THEN NoEntry ELSE s.staging[c]]
           r1 == [s EXCEPT !.head = id, !.window = w, !.staging = g]
<1>1. s \in Refs /\ Capped(s) /\ s.window \in Window
  <2>1. s \in Refs /\ Capped(s)
    BY SweptRefs, SweptCapped
  <2> HIDE DEF s
  <2>2. QED
    BY <2>1 DEF Refs
<1>2. w \in Window
  BY <1>1, PushedWindow
<1>3. g \in [Chunk -> StagedRow \cup {NoEntry}]
  BY <1>1 DEF Refs
<1>4. id \in 0..MaxSnap
  BY SizesAssumption DEF Snap
<1>5. CommitRefs(r, ch, id, h) = Transacted(r, r1)
  BY DEF CommitRefs
<1>6. \A c \in Chunk : g[c] # NoEntry => g[c] = s.staging[c]
  OBVIOUS
<1> HIDE DEF s, w, g
<1>7. /\ r1 \in Refs /\ r1.pins = s.pins
      /\ r1.watches = s.watches /\ r1.staging = g
  BY <1>1, <1>2, <1>3, <1>4 DEF Refs
<1> HIDE DEF r1
<1>8. /\ StagedChunks(r1) \subseteq StagedChunks(s) /\ Pinned(r1) = Pinned(s)
      /\ \A c \in StagedChunks(r1) : r1.staging[c].owner = s.staging[c].owner
  BY <1>6, <1>7 DEF StagedChunks, Pinned
<1>9. Capped(r1)
  BY <1>1, <1>7, <1>8, CappedBelow
<1>10. QED
  BY <1>5, <1>7, <1>9, TransactedCapped DEF r1

(* A projection is ungated too: it touches the window only.                 *)
LEMMA ProjectCapped ==
  ASSUME NEW r \in Refs, Capped(r), NEW id \in Snap, NEW h \in Nat
  PROVE  Capped(ProjectRefs(r, id, h))
<1> DEFINE s == Swept(r, h)
           w == Pushed(r.window, id)
           r1 == [s EXCEPT !.window = w]
<1>1. s \in Refs /\ Capped(s) /\ r.window \in Window
  BY SweptRefs, SweptCapped DEF Refs
<1>2. w \in Window
  BY <1>1, PushedWindow
<1>3. ProjectRefs(r, id, h) = Transacted(r, r1)
  BY DEF ProjectRefs
<1> HIDE DEF s, w
<1>4. /\ r1 \in Refs /\ r1.pins = s.pins
      /\ r1.watches = s.watches /\ r1.staging = s.staging
  BY <1>1, <1>2 DEF Refs
<1> HIDE DEF r1
<1>5. StagedChunks(r1) = StagedChunks(s) /\ Pinned(r1) = Pinned(s)
  BY <1>4 DEF StagedChunks, Pinned
<1>6. Capped(r1)
  BY <1>1, <1>4, <1>5, CappedBelow
<1>7. QED
  BY <1>3, <1>4, <1>6, TransactedCapped DEF r1

(* unpin and unwatch only take rows away.                                   *)
LEMMA UnpinCapped ==
  ASSUME NEW r \in Refs, Capped(r), NEW n \in PinName, NEW h \in Nat
  PROVE  Capped(UnpinRefs(r, n, h))
<1> DEFINE z == Swept(r, h)
           r1 == [z EXCEPT !.pins[n] = NoEntry]
<1>1. z \in Refs /\ Capped(z)
  BY SweptRefs, SweptCapped
<1>2. UnpinRefs(r, n, h) = Transacted(r, r1)
  BY DEF UnpinRefs
<1> HIDE DEF z
<1>3. /\ r1 \in Refs /\ r1.staging = z.staging /\ r1.watches = z.watches
      /\ r1.pins = [z.pins EXCEPT ![n] = NoEntry]
      /\ z.pins \in [PinName -> PinRow \cup {NoEntry}]
  BY <1>1 DEF Refs
<1> HIDE DEF r1
<1>4. /\ StagedChunks(r1) = StagedChunks(z) /\ Pinned(r1) \subseteq Pinned(z)
      /\ \A m \in Pinned(r1) : r1.pins[m].owner = z.pins[m].owner
  BY <1>3 DEF StagedChunks, Pinned
<1>5. Capped(r1)
  BY <1>1, <1>3, <1>4, CappedBelow
<1>6. QED
  BY <1>2, <1>3, <1>5, TransactedCapped DEF r1

LEMMA UnwatchCapped ==
  ASSUME NEW r \in Refs, Capped(r), NEW w \in Watch, NEW h \in Nat
  PROVE  Capped(UnwatchRefs(r, w, h))
<1> DEFINE z == Swept(r, h)
           W == r.watches \ {w}
           r1 == [z EXCEPT !.watches = W]
<1>1. z \in Refs /\ Capped(z) /\ z.watches = r.watches
  BY SweptRefs, SweptCapped
<1>2. UnwatchRefs(r, w, h) = Transacted(r, r1)
  BY DEF UnwatchRefs
<1>3. W \subseteq z.watches /\ W \in SUBSET Watch
  BY <1>1 DEF Refs
<1> HIDE DEF z, W
<1>4. /\ r1 \in Refs /\ r1.staging = z.staging /\ r1.pins = z.pins /\ r1.watches = W
  BY <1>1, <1>3 DEF Refs
<1> HIDE DEF r1
<1>5. StagedChunks(r1) = StagedChunks(z) /\ Pinned(r1) = Pinned(z)
  BY <1>4 DEF StagedChunks, Pinned
<1>6. Capped(r1)
  BY <1>1, <1>3, <1>4, <1>5, CappedBelow
<1>7. QED
  BY <1>2, <1>4, <1>6, TransactedCapped DEF r1

(* watch's gate leaves room for exactly the watch.                          *)
LEMMA WatchCapped ==
  ASSUME NEW r \in Refs, Capped(r), NEW w \in Watch, NEW h \in Nat, WatchOk(r, w, h)
  PROVE  Capped(WatchRefs(r, w, h))
<1> DEFINE z == Swept(r, h)
           W == r.watches \cup {w}
           r1 == [z EXCEPT !.watches = W]
<1>1. z \in Refs /\ Capped(z) /\ z.watches = r.watches
  BY SweptRefs, SweptCapped
<1>2. /\ w \notin z.watches /\ Cardinality(z.watches) < WatchCap
      /\ ImageLen(z) + EntryLen["watch"] + Headroom(z) <= MaxImage
  BY <1>1 DEF WatchOk, GrowthFits
<1>3. WatchRefs(r, w, h) = Transacted(r, r1)
  BY DEF WatchRefs
<1>4. W = z.watches \cup {w} /\ W \in SUBSET Watch
  BY <1>1 DEF Refs
<1> HIDE DEF z, W
<1>5. /\ r1 \in Refs /\ r1.staging = z.staging /\ r1.pins = z.pins /\ r1.watches = W
  BY <1>1, <1>4 DEF Refs
<1> HIDE DEF r1
<1>6. /\ Pinned(r1) = Pinned(z) /\ StagedChunks(r1) = StagedChunks(z)
      /\ \A q \in Owner : /\ OwnedChunks(r1, q) = OwnedChunks(z, q)
                          /\ PinsOf(r1, q) = PinsOf(z, q)
  BY <1>5 DEF StagedChunks, Pinned, OwnedChunks, PinsOf
<1>7. Cardinality(r1.watches) = Cardinality(z.watches) + 1
  <2>1. IsFiniteSet(z.watches)
    BY <1>1, TablesFinite
  <2> DEFINE V == z.watches
  <2>2. IsFiniteSet(V) /\ w \notin V
    BY <1>2, <2>1
  <2> HIDE DEF V
  <2>3. Cardinality(V \cup {w}) = Cardinality(V) + 1
    BY <2>2, FS_AddElement
  <2>4. QED
    BY <1>4, <1>5, <2>3 DEF V
<1>8. Weight(r1) = Weight(z) + EntryLen["watch"]
  <2> DEFINE wt == Cardinality(z.watches)
             ew == EntryLen["watch"]
             base == EntryLen["id"] * (WindowCap + 2)
             b == EntryLen["staged"] * Cardinality(StagedChunks(z))
             d == EntryLen["pin"] * Cardinality(Pinned(z))
  <2>1. wt \in Nat /\ ew \in Nat /\ base \in Nat /\ b \in Nat /\ d \in Nat
    BY <1>1, TablesFinite, EntryNats, Products
  <2>2. Weight(z) = base + b + d + ew * wt
    BY Zenon DEF Weight
  <2>3. Weight(r1) = base + b + d + ew * (wt + 1)
    BY Zenon, <1>6, <1>7 DEF Weight
  <2> HIDE DEF wt, ew, base, b, d
  <2>4. ew * (wt + 1) = ew * wt + ew /\ ew * wt \in Nat
    BY <2>1, Products
  <2> DEFINE a == ew * wt
  <2>5. Weight(z) = base + b + d + a /\ Weight(r1) = base + b + d + (a + ew) /\ a \in Nat
    BY <2>2, <2>3, <2>4
  <2> HIDE DEF a
  <2>6. Weight(r1) = Weight(z) + ew
    BY <2>1, <2>5
  <2>7. QED
    BY <2>6 DEF ew
<1>9. Weight(r1) <= MaxImage
  <2>1. /\ ImageLen(z) + Headroom(z) = Weight(z) /\ ImageLen(z) \in Nat
        /\ Headroom(z) \in Nat /\ EntryLen["watch"] \in Nat /\ MaxImage \in Nat
    BY <1>1, ImageWeight, TablesAssumption
  <2>2. QED
    BY <1>2, <1>8, <2>1
<1>10. Cardinality(r1.watches) <= WatchCap
  <2>1. Cardinality(z.watches) \in Nat /\ WatchCap \in Nat
    BY <1>1, TablesFinite, TablesAssumption
  <2>2. QED
    BY <1>2, <1>7, <2>1
<1>11. Capped(r1)
  BY <1>1, <1>6, <1>9, <1>10 DEF Capped
<1>12. QED
  BY <1>3, <1>5, <1>11, TransactedCapped DEF r1

(* A retention exchange is ungated: the weight counts its root already.     *)
LEMMA RetainCapped ==
  ASSUME NEW r \in Refs, CountsExact(r), Capped(r), NEW k \in RetKey,
         NEW new \in RetRow \cup {NoEntry}, NEW h \in Nat, RetainOk(r, k, r.ret[k], new)
  PROVE  Capped(RetainRefs(r, k, r.ret[k], new, h))
<1> DEFINE z == Swept(r, h)
           m == Recounted(r.members, r.ret[k], new)
           r1 == [z EXCEPT !.ret[k] = new, !.members = m]
<1>1. z \in Refs /\ Capped(z)
  BY SweptRefs, SweptCapped
<1>2. RetainRefs(r, k, r.ret[k], new, h) = Transacted(r, r1)
  BY DEF RetainRefs
<1>3. m \in [Snap -> Nat]
  <2> DEFINE e == [ret |-> [r.ret EXCEPT ![k] = new], members |-> m]
  <2>1. e.ret = [r.ret EXCEPT ![k] = new] /\ e.members = m
    OBVIOUS
  <2> HIDE DEF e
  <2>2. e.members \in [Snap -> Nat]
    BY <2>1, RecountedExact
  <2>3. QED
    BY <2>1, <2>2
<1> HIDE DEF z, m
<1>4. /\ r1 \in Refs /\ r1.staging = z.staging /\ r1.pins = z.pins
      /\ r1.watches = z.watches
  BY <1>1, <1>3 DEF Refs
<1> HIDE DEF r1
<1>5. StagedChunks(r1) = StagedChunks(z) /\ Pinned(r1) = Pinned(z)
  BY <1>4 DEF StagedChunks, Pinned
<1>6. Capped(r1)
  BY <1>1, <1>4, <1>5, CappedBelow
<1>7. QED
  BY <1>2, <1>4, <1>6, TransactedCapped DEF r1

------------------------------------------------------------------------------
(* What a store can and cannot change *)

(* In the first operation of a block nothing is buffered.  A node that has  *)
(* what its refs reach can read base and head, and without mixed commits    *)
(* the inline chunks its store already has are not the referenced ones:     *)
(* what is left of commit's checks reads refs only.                         *)
LEMMA CommitOkAlike ==
  ASSUME NEW r \in Refs, CountsExact(r), NEW base \in 0..MaxSnap, NEW ch, NEW h \in Nat,
         NEW store, Live(cat, r) \subseteq store,
         ChunksBy(ch, "inline") \cap ChunksBy(ch, "chunks") = {}
  PROVE  CommitOk(cat, r, {}, store, base, ch, h) <=>
           LET s == Swept(r, h) IN
           /\ base # None => Contains(s, base)
           /\ ChunksBy(ch, "chunks") \subseteq StagedChunks(s)
           /\ Unmoved(cat, s, base, ch)
           /\ \A p \in DOMAIN ch : ch[p].op = "rm" => TreeOf(cat, s.head)[p] # Absent
<1> DEFINE s == Swept(r, h)
<1>1. s \in Refs /\ CountsExact(s) /\ Roots(s) = Roots(r)
  BY SweptRefs, GoodSwept DEF Good
<1>2. (base # None /\ Contains(s, base)) => base \in store
  <2> SUFFICES ASSUME base # None, Contains(s, base) PROVE base \in store
    OBVIOUS
  <2>1. base \in Snap
    BY SizesAssumption DEF Snap, None
  <2>2. base \in Roots(r)
    BY <1>1, <2>1, ContainsRoot
  <2>3. QED
    BY <2>2 DEF Live, SnapObjects
<1>3. r.head # None => r.head \in store
  BY RootsAreSnaps DEF Live, SnapObjects
<1>4. ChunksBy(ch, "chunks") \cap NewlyStaged({}, store, ch) = {}
  BY DEF NewlyStaged
<1>5. ChunksAvailable(s, {}, store, ch) <=> ChunksBy(ch, "chunks") \subseteq StagedChunks(s)
  <2> DEFINE C == ChunksBy(ch, "chunks")
             N == NewlyStaged({}, store, ch)
             S == StagedChunks(s)
  <2>1. C \cap N = {} /\ (ChunksAvailable(s, {}, store, ch) <=> C \subseteq S \cup {} \cup N)
    BY <1>4 DEF ChunksAvailable
  <2> HIDE DEF C, N, S
  <2>2. (C \subseteq S \cup {} \cup N) <=> C \subseteq S
    BY <2>1
  <2>3. QED
    BY <2>1, <2>2 DEF C, S
<1>6. CommitOk(cat, r, {}, store, base, ch, h) <=>
        /\ base # None => Contains(s, base)
        /\ Readable({}, store, base) /\ Readable({}, store, r.head)
        /\ ChunksAvailable(s, {}, store, ch)
        /\ Unmoved(cat, s, base, ch)
        /\ \A p \in DOMAIN ch : ch[p].op = "rm" => TreeOf(cat, s.head)[p] # Absent
  BY Zenon DEF CommitOk
<1> HIDE DEF s
<1>7. QED
  <2>1. (base # None => Contains(s, base)) => Readable({}, store, base)
    BY <1>2 DEF Readable
  <2>2. Readable({}, store, r.head)
    BY <1>3 DEF Readable
  <2> DEFINE A1 == base # None => Contains(s, base)
             A3 == Unmoved(cat, s, base, ch)
             A4 == \A p \in DOMAIN ch : ch[p].op = "rm" => TreeOf(cat, s.head)[p] # Absent
  <2>3. CommitOk(cat, r, {}, store, base, ch, h) <=>
          A1 /\ ChunksBy(ch, "chunks") \subseteq StagedChunks(s) /\ A3 /\ A4
    <3>1. CommitOk(cat, r, {}, store, base, ch, h) <=>
            /\ A1
            /\ Readable({}, store, base) /\ Readable({}, store, r.head)
            /\ ChunksAvailable(s, {}, store, ch)
            /\ A3
            /\ A4
      BY Zenon, <1>6
    <3>2. A1 => Readable({}, store, base)
      BY Zenon, <2>1
    <3> HIDE DEF A1, A3, A4
    <3>3. QED
      BY Zenon, <1>5, <2>2, <3>1, <3>2
  <2>4. QED
    BY Zenon, <2>3 DEF s

(* A verb drops a staged row at its expiry only; a commit also takes the    *)
(* chunks its new tree names.                                               *)
LEMMA RowsKept ==
  ASSUME NEW r \in Refs, NEW h \in Nat, NEW c \in Chunk, r.staging[c] # NoEntry,
         ~(r.staging[c].expires <= h)
  PROVE  /\ \A objs, o, d : PutBlobRefs(r, objs, o, d, h).staging[c] = r.staging[c]
         /\ \A id : ProjectRefs(r, id, h).staging[c] = r.staging[c]
         /\ \A o, s, n : PinRefs(r, o, s, n, h).staging[c] = r.staging[c]
         /\ \A n : UnpinRefs(r, n, h).staging[c] = r.staging[c]
         /\ \A w : /\ WatchRefs(r, w, h).staging[c] = r.staging[c]
                  /\ UnwatchRefs(r, w, h).staging[c] = r.staging[c]
         /\ \A k, old, new : RetainRefs(r, k, old, new, h).staging[c] = r.staging[c]
         /\ \A ch, id : \/ CommitRefs(r, ch, id, h).staging[c] = r.staging[c]
                        \/ c \in Referenced(ch)
<1> DEFINE z == Swept(r, h)
<1>1. z \in Refs /\ z.staging[c] = r.staging[c]
  <2>1. z.staging[c] = r.staging[c]
    BY DEF Swept, Refs
  <2>2. QED
    BY <2>1, SweptRefs
<1>2. ASSUME NEW r1, r1.staging[c] = r.staging[c], DOMAIN r1 = DOMAIN r
      PROVE  Transacted(r, r1).staging[c] = r.staging[c]
  BY <1>2 DEF Transacted, Refs
<1>3. DOMAIN z = DOMAIN r
  BY DEF Swept
<1>4. ASSUME NEW objs, NEW o, NEW d
      PROVE  PutBlobRefs(r, objs, o, d, h).staging[c] = r.staging[c]
  <2>1. CASE AlreadyStaged(r, objs, d, h)
    BY <1>1, <1>2, <1>3, <2>1 DEF PutBlobRefs
  <2>2. CASE ~AlreadyStaged(r, objs, d, h)
    <3> DEFINE row == [owner |-> o, expires |-> h + TTL]
               r1 == [z EXCEPT !.staging[d] = row]
    <3>1. d # c
      BY <1>1, <2>2 DEF AlreadyStaged
    <3>2. PutBlobRefs(r, objs, o, d, h) = Transacted(r, r1)
      BY <2>2 DEF PutBlobRefs
    <3> HIDE DEF z, row
    <3>3. r1.staging[c] = r.staging[c] /\ DOMAIN r1 = DOMAIN r
      BY <1>1, <1>3, <3>1 DEF Refs
    <3>4. QED
      BY <1>2, <3>2, <3>3
  <2>3. QED
    BY <2>1, <2>2
<1>5. ASSUME NEW v
      PROVE  /\ Transacted(r, [z EXCEPT !.pins = v]).staging[c] = r.staging[c]
             /\ Transacted(r, [z EXCEPT !.window = v]).staging[c] = r.staging[c]
             /\ Transacted(r, [z EXCEPT !.watches = v]).staging[c] = r.staging[c]
             /\ \A m : Transacted(r, [z EXCEPT !.ret = v, !.members = m]).staging[c]
                        = r.staging[c]
  <2> HIDE DEF z
  <2> DEFINE r1 == [z EXCEPT !.pins = v]
             r2 == [z EXCEPT !.window = v]
             r3 == [z EXCEPT !.watches = v]
             r4(m) == [z EXCEPT !.ret = v, !.members = m]
  <2>1. /\ r1.staging[c] = r.staging[c] /\ DOMAIN r1 = DOMAIN r
        /\ r2.staging[c] = r.staging[c] /\ DOMAIN r2 = DOMAIN r
        /\ r3.staging[c] = r.staging[c] /\ DOMAIN r3 = DOMAIN r
    BY <1>1, <1>3 DEF Refs
  <2>2. ASSUME NEW m
        PROVE  r4(m).staging[c] = r.staging[c] /\ DOMAIN r4(m) = DOMAIN r
    BY <1>1, <1>3 DEF Refs
  <2> HIDE DEF r1, r2, r3, r4
  <2>3. /\ Transacted(r, r1).staging[c] = r.staging[c]
        /\ Transacted(r, r2).staging[c] = r.staging[c]
        /\ Transacted(r, r3).staging[c] = r.staging[c]
        /\ \A m : Transacted(r, r4(m)).staging[c] = r.staging[c]
    BY <1>2, <2>1, <2>2
  <2>4. QED
    BY <2>3 DEF r1, r2, r3, r4
<1>6. ASSUME NEW ch, NEW id, c \notin Referenced(ch)
      PROVE  CommitRefs(r, ch, id, h).staging[c] = r.staging[c]
  <2> DEFINE w == Pushed(z.window, id)
             g == [d \in Chunk |-> IF d \in Referenced(ch) THEN NoEntry ELSE z.staging[d]]
             r1 == [z EXCEPT !.head = id, !.window = w, !.staging = g]
  <2>1. CommitRefs(r, ch, id, h) = Transacted(r, r1)
    BY DEF CommitRefs
  <2>2. g[c] = r.staging[c]
    BY <1>1, <1>6
  <2> HIDE DEF z, w, g
  <2>3. r1.staging[c] = r.staging[c] /\ DOMAIN r1 = DOMAIN r
    BY <1>1, <1>3, <2>2 DEF Refs
  <2>4. QED
    BY <1>2, <2>1, <2>3
<1>7. /\ \A id : ProjectRefs(r, id, h).staging[c] = r.staging[c]
      /\ \A o, s, n : PinRefs(r, o, s, n, h).staging[c] = r.staging[c]
      /\ \A n : UnpinRefs(r, n, h).staging[c] = r.staging[c]
      /\ \A w : /\ WatchRefs(r, w, h).staging[c] = r.staging[c]
               /\ UnwatchRefs(r, w, h).staging[c] = r.staging[c]
      /\ \A k, old, new : RetainRefs(r, k, old, new, h).staging[c] = r.staging[c]
  BY <1>5 DEF ProjectRefs, PinRefs, UnpinRefs, WatchRefs, UnwatchRefs, RetainRefs
<1>8. QED
  BY <1>4, <1>6, <1>7

------------------------------------------------------------------------------
(* The invariant *)

(* Refs of a node: well formed, counted, capped, naming minted snapshots.   *)
Settled(r) == r \in Refs /\ CountsExact(r) /\ Roots(r) \subseteq 1..minted /\ Capped(r)

(* A row of the last committed table that is no longer in the overlay has   *)
(* expired, or a commit of this very block took its chunk.                  *)
TakenNow(c) == \E s \in 1..minted : cat[s].at = height /\ c \in TreeChunks(cat[s].tree)

RowKept(n, c) ==
  \/ refs[n].staging[c].expires <= height
  \/ TakenNow(c)
  \/ pend[n].refs.staging[c] = refs[n].staging[c]

NodeInv(n) ==
  /\ Settled(refs[n]) /\ Settled(pend[n].refs)
  /\ Live(cat, refs[n]) \subseteq odb[n]
  /\ Live(cat, pend[n].refs) \subseteq odb[n] \cup pend[n].objs
  /\ ops = 0 => pend[n] = [refs |-> refs[n], objs |-> {}]
  /\ \A c \in StagedChunks(refs[n]) : RowKept(n, c)

RTypes ==
  /\ minted \in 0..MaxSnap /\ height \in Nat /\ ops \in Nat
  /\ cat = [s \in Snap |-> cat[s]] /\ odb = [n \in Node |-> odb[n]]

RInv ==
  /\ RTypes
  /\ \A n \in Node : NodeInv(n)
  /\ \A m, n \in Node : refs[m] = refs[n]

(* What a node's verb must leave for NodeInv to hold of it after a verb     *)
(* that mints nothing.                                                      *)
LEMMA VerbNode ==
  ASSUME NEW n \in Node, NodeInv(n), RTypes,
         UNCHANGED <<cat, minted, refs, odb, height>>, ops' = ops + 1,
         NEW ss \in SUBSET Roots(pend[n].refs), NEW cs,
         Accepted(pend'[n].refs, pend[n].refs, ss, cs), Capped(pend'[n].refs),
         cs \cup pend[n].objs \subseteq pend'[n].objs,
         \A c \in Chunk :
           (pend[n].refs.staging[c] # NoEntry /\ ~(pend[n].refs.staging[c].expires <= height))
             => pend'[n].refs.staging[c] = pend[n].refs.staging[c]
  PROVE  NodeInv(n)'
<1> DEFINE r == pend[n].refs
           r1 == pend'[n].refs
<1>1. Settled(r) /\ Settled(refs[n])
  BY DEF NodeInv
<1>2. r1 \in Refs /\ CountsExact(r1) /\ Within(r1, r, ss, cs)
  BY DEF Accepted, Good
<1>3. Roots(r1) \subseteq Roots(r)
  BY <1>2 DEF Within
<1>4. Settled(pend[n].refs)' /\ Settled(refs[n])'
  BY <1>1, <1>2, <1>3 DEF Settled
<1>5. Live(cat, r1) \subseteq odb[n] \cup pend'[n].objs
  <2>1. Live(cat, r1) \subseteq Live(cat, r) \cup cs \cup UNION {SnapObjects(cat, s) : s \in ss}
    BY <1>2, LiveWithin
  <2>2. UNION {SnapObjects(cat, s) : s \in ss} \subseteq Live(cat, r)
    BY DEF Live
  <2>3. Live(cat, r) \subseteq odb[n] \cup pend[n].objs
    BY DEF NodeInv
  <2>4. QED
    BY <2>1, <2>2, <2>3
<1>6. ops' # 0
  BY DEF RTypes
<1>7. ASSUME NEW c \in StagedChunks(refs[n])
      PROVE  RowKept(n, c)'
  <2>1. c \in Chunk /\ refs[n].staging[c] # NoEntry /\ RowKept(n, c)
    BY DEF StagedChunks, NodeInv
  <2>2. TakenNow(c)' <=> TakenNow(c)
    BY DEF TakenNow
  <2>3. CASE refs[n].staging[c].expires <= height \/ TakenNow(c)
    BY <2>2, <2>3 DEF RowKept
  <2>4. CASE pend[n].refs.staging[c] = refs[n].staging[c]
    BY <2>1, <2>4 DEF RowKept
  <2>5. QED
    BY <2>1, <2>3, <2>4 DEF RowKept
<1>8. QED
  BY <1>4, <1>5, <1>6, <1>7 DEF NodeInv

(* A node that refuses keeps what it had.                                   *)
LEMMA RefusingNode ==
  ASSUME NEW n \in Node, NodeInv(n), RTypes,
         UNCHANGED <<cat, minted, refs, odb, height>>, ops' = ops + 1,
         pend'[n] = pend[n]
  PROVE  NodeInv(n)'
<1>1. ops' # 0
  BY DEF RTypes
<1>2. Settled(refs[n])' /\ Settled(pend[n].refs)'
  BY DEF NodeInv, Settled
<1>3. \A c \in StagedChunks(refs[n]) : RowKept(n, c)'
  BY DEF NodeInv, RowKept, TakenNow
<1>4. QED
  BY <1>1, <1>2, <1>3 DEF NodeInv

(* putblob *)
LEMMA PutBlobRInv ==
  ASSUME RInv, NEW o \in Owner, NEW c \in Chunk, PutBlob(o, c)
  PROVE  RInv'
<1>1. /\ UNCHANGED <<cat, minted, refs, odb, height>> /\ ops' = ops + 1
      /\ pend' = [n \in Node |->
           IF PutBlobOk(pend[n].refs, pend[n].objs, o, c, height)
           THEN [refs |-> PutBlobRefs(pend[n].refs, pend[n].objs, o, c, height),
                 objs |-> PutBlobObjs(pend[n].refs, pend[n].objs, c, height)]
           ELSE pend[n]]
  BY DEF PutBlob, Apply, NodeObjs
<1>2. ASSUME NEW n \in Node
      PROVE  NodeInv(n)'
  <2> DEFINE r == pend[n].refs
             objs == pend[n].objs
             r1 == PutBlobRefs(r, objs, o, c, height)
             b1 == PutBlobObjs(r, objs, c, height)
  <2>1. NodeInv(n) /\ RTypes /\ height \in Nat
    BY DEF RInv, RTypes
  <2>2. CASE ~PutBlobOk(r, objs, o, c, height)
    BY <1>1, <2>1, <2>2, RefusingNode
  <2>3. CASE PutBlobOk(r, objs, o, c, height)
    <3>1. pend'[n].refs = r1 /\ pend'[n].objs = b1
      BY <1>1, <2>3
    <3>2. r \in Refs /\ CountsExact(r) /\ Capped(r)
      BY <2>1 DEF NodeInv, Settled
    <3> DEFINE cs == IF AlreadyStaged(r, objs, c, height) THEN {} ELSE {c}
    <3>3. Accepted(r1, r, {}, b1) /\ Capped(r1)
      BY <2>1, <2>3, <3>2, PutBlobGood, PutBlobCapped
    <3>4. \A d \in Chunk : (r.staging[d] # NoEntry /\ ~(r.staging[d].expires <= height))
             => r1.staging[d] = r.staging[d]
      BY <2>1, <3>2, RowsKept
    <3>5. objs \subseteq b1
      BY DEF PutBlobObjs
    <3> HIDE DEF r1, b1
    <3>6. QED
      BY <1>1, <2>1, <3>1, <3>3, <3>4, <3>5, VerbNode
  <2>4. QED
    BY <2>2, <2>3
<1>3. RTypes'
  BY <1>1 DEF RInv, RTypes
<1>4. QED
  BY <1>1, <1>2, <1>3 DEF RInv

(* A row outlives a verb unless it has expired.                             *)
KeepsRows(r1, r) ==
  \A c \in Chunk :
    (r.staging[c] # NoEntry /\ ~(r.staging[c].expires <= height))
      => r1.staging[c] = r.staging[c]

LEMMA RefsVerbNode ==
  ASSUME NEW n \in Node, NodeInv(n), RTypes,
         UNCHANGED <<cat, minted, refs, odb, height>>, ops' = ops + 1,
         Accepted(pend'[n].refs, pend[n].refs, {}, {}), Capped(pend'[n].refs),
         pend'[n].objs = pend[n].objs, KeepsRows(pend'[n].refs, pend[n].refs)
  PROVE  NodeInv(n)'
<1>1. {} \in SUBSET Roots(pend[n].refs) /\ {} \cup pend[n].objs \subseteq pend'[n].objs
  OBVIOUS
<1>2. \A c \in Chunk :
        (pend[n].refs.staging[c] # NoEntry /\ ~(pend[n].refs.staging[c].expires <= height))
          => pend'[n].refs.staging[c] = pend[n].refs.staging[c]
  BY DEF KeepsRows
<1>3. QED
  BY Zenon, <1>1, <1>2, VerbNode

(* A verb on the refs alone: S is the set of the nodes that accept it, new  *)
(* the refs they take.                                                      *)
LEMMA RefsVerbRInv ==
  ASSUME RInv, NEW S, NEW new,
         UNCHANGED <<cat, minted, refs, odb, height>>, ops' = ops + 1,
         pend' = [n \in Node |->
           IF n \in S THEN [refs |-> new[n], objs |-> pend[n].objs] ELSE pend[n]],
         \A n \in Node \cap S : /\ Accepted(new[n], pend[n].refs, {}, {})
                                /\ Capped(new[n]) /\ KeepsRows(new[n], pend[n].refs)
  PROVE  RInv'
<1>1. ASSUME NEW n \in Node
      PROVE  NodeInv(n)'
  <2>1. NodeInv(n) /\ RTypes
    BY DEF RInv
  <2>2. CASE n \notin S
    BY <2>1, <2>2, RefusingNode
  <2>3. CASE n \in S
    <3>1. /\ pend'[n].refs = new[n] /\ pend'[n].objs = pend[n].objs
          /\ Accepted(new[n], pend[n].refs, {}, {}) /\ Capped(new[n])
          /\ KeepsRows(new[n], pend[n].refs)
      BY <2>3
    <3>2. QED
      BY <2>1, <3>1, RefsVerbNode
  <2>4. QED
    BY <2>2, <2>3
<1>2. RTypes'
  BY DEF RInv, RTypes
<1>3. QED
  BY <1>1, <1>2 DEF RInv

(* What the nodes' verbs work on.                                           *)
LEMMA NodeFacts ==
  ASSUME RInv, NEW n \in Node
  PROVE  /\ pend[n].refs \in Refs /\ CountsExact(pend[n].refs) /\ Capped(pend[n].refs)
         /\ Roots(pend[n].refs) \subseteq 1..minted
         /\ Live(cat, pend[n].refs) \subseteq odb[n] \cup pend[n].objs
         /\ height \in Nat /\ minted \in Nat /\ 1..minted \subseteq Snap
<1>1. NodeInv(n) /\ RTypes
  BY DEF RInv
<1>2. Settled(pend[n].refs) /\ Live(cat, pend[n].refs) \subseteq odb[n] \cup pend[n].objs
  BY <1>1 DEF NodeInv
<1>3. height \in Nat /\ minted \in 0..MaxSnap
  BY <1>1 DEF RTypes
<1>4. minted \in Nat /\ 1..minted \subseteq Snap
  BY <1>3, SizesAssumption DEF Snap
<1>5. QED
  BY <1>2, <1>3, <1>4 DEF Settled

(* pin, unpin, watch, unwatch and compare_exchange_retention *)
LEMMA PinRInv ==
  ASSUME RInv, NEW o \in Owner, NEW s \in 1..minted, NEW p \in PinName, Pin(o, s, p)
  PROVE  RInv'
<1> DEFINE S == {n \in Node : PinOk(pend[n].refs, o, s, p, height)}
           new == [n \in Node |-> PinRefs(pend[n].refs, o, s, p, height)]
<1>1. /\ UNCHANGED <<cat, minted, refs, odb, height>> /\ ops' = ops + 1
      /\ pend' = [n \in Node |->
           IF n \in S THEN [refs |-> new[n], objs |-> pend[n].objs] ELSE pend[n]]
  BY DEF Pin, OnRefs, Apply
<1>2. ASSUME NEW n \in Node \cap S
      PROVE  /\ Accepted(new[n], pend[n].refs, {}, {}) /\ Capped(new[n])
             /\ KeepsRows(new[n], pend[n].refs)
  BY NodeFacts, PinGood, PinCapped, RowsKept DEF KeepsRows
<1> HIDE DEF S, new
<1>3. QED
  BY <1>1, <1>2, RefsVerbRInv

LEMMA UnpinRInv ==
  ASSUME RInv, NEW p \in PinName, Unpin(p)
  PROVE  RInv'
<1> DEFINE S == {n \in Node : UnpinOk(pend[n].refs, p)}
           new == [n \in Node |-> UnpinRefs(pend[n].refs, p, height)]
<1>1. /\ UNCHANGED <<cat, minted, refs, odb, height>> /\ ops' = ops + 1
      /\ pend' = [n \in Node |->
           IF n \in S THEN [refs |-> new[n], objs |-> pend[n].objs] ELSE pend[n]]
  BY DEF Unpin, OnRefs, Apply
<1>2. ASSUME NEW n \in Node \cap S
      PROVE  /\ Accepted(new[n], pend[n].refs, {}, {}) /\ Capped(new[n])
             /\ KeepsRows(new[n], pend[n].refs)
  BY NodeFacts, UnpinGood, UnpinCapped, RowsKept DEF KeepsRows
<1> HIDE DEF S, new
<1>3. QED
  BY <1>1, <1>2, RefsVerbRInv

LEMMA WatchRInv ==
  ASSUME RInv, NEW w \in Watch, RegisterWatch(w)
  PROVE  RInv'
<1> DEFINE S == {n \in Node : WatchOk(pend[n].refs, w, height)}
           new == [n \in Node |-> WatchRefs(pend[n].refs, w, height)]
<1>1. /\ UNCHANGED <<cat, minted, refs, odb, height>> /\ ops' = ops + 1
      /\ pend' = [n \in Node |->
           IF n \in S THEN [refs |-> new[n], objs |-> pend[n].objs] ELSE pend[n]]
  BY DEF RegisterWatch, OnRefs, Apply
<1>2. ASSUME NEW n \in Node \cap S
      PROVE  /\ Accepted(new[n], pend[n].refs, {}, {}) /\ Capped(new[n])
             /\ KeepsRows(new[n], pend[n].refs)
  BY NodeFacts, WatchGood, WatchCapped, RowsKept DEF KeepsRows
<1> HIDE DEF S, new
<1>3. QED
  BY <1>1, <1>2, RefsVerbRInv

LEMMA UnwatchRInv ==
  ASSUME RInv, NEW w \in Watch, Unwatch(w)
  PROVE  RInv'
<1> DEFINE S == {n \in Node : UnwatchOk(pend[n].refs, w)}
           new == [n \in Node |-> UnwatchRefs(pend[n].refs, w, height)]
<1>1. /\ UNCHANGED <<cat, minted, refs, odb, height>> /\ ops' = ops + 1
      /\ pend' = [n \in Node |->
           IF n \in S THEN [refs |-> new[n], objs |-> pend[n].objs] ELSE pend[n]]
  BY DEF Unwatch, OnRefs, Apply
<1>2. ASSUME NEW n \in Node \cap S
      PROVE  /\ Accepted(new[n], pend[n].refs, {}, {}) /\ Capped(new[n])
             /\ KeepsRows(new[n], pend[n].refs)
  BY NodeFacts, WatchGood, UnwatchCapped, RowsKept DEF KeepsRows
<1> HIDE DEF S, new
<1>3. QED
  BY <1>1, <1>2, RefsVerbRInv

LEMMA RetainRInv ==
  ASSUME RInv, NEW k \in RetKey, NEW row \in RetRow \cup {NoEntry}, Retain(k, row)
  PROVE  RInv'
<1> DEFINE S == {n \in Node : RetainOk(pend[n].refs, k, pend[n].refs.ret[k], row)}
           new == [n \in Node |->
                     RetainRefs(pend[n].refs, k, pend[n].refs.ret[k], row, height)]
<1>1. /\ UNCHANGED <<cat, minted, refs, odb, height>> /\ ops' = ops + 1
      /\ pend' = [n \in Node |->
           IF n \in S THEN [refs |-> new[n], objs |-> pend[n].objs] ELSE pend[n]]
  BY DEF Retain, OnRefs, Apply
<1>2. ASSUME NEW n \in Node \cap S
      PROVE  /\ Accepted(new[n], pend[n].refs, {}, {}) /\ Capped(new[n])
             /\ KeepsRows(new[n], pend[n].refs)
  BY NodeFacts, RetainGood, RetainCapped, RowsKept DEF KeepsRows
<1> HIDE DEF S, new
<1>3. QED
  BY <1>1, <1>2, RefsVerbRInv

(* What a node that accepts the new snapshot id with this body makes of its *)
(* refs r and buffer objs: id is the one new root, it has or buffers what   *)
(* the tree names, and it drops rows only for chunks of the tree.           *)
TakesMint(r, objs, held, h, id, body, r1, b1) ==
  /\ Accepted(r1, r, {id}, {}) /\ Capped(r1)
  /\ objs \cup {id} \subseteq b1
  /\ TreeChunks(body.tree) \subseteq held \cup b1
  /\ \A c \in Chunk :
       (r.staging[c] # NoEntry /\ ~(r.staging[c].expires <= h))
         => r1.staging[c] = r.staging[c] \/ c \in TreeChunks(body.tree)

(* A verb that mints id: every node takes it so or refuses.                 *)
LEMMA MintingRInv ==
  ASSUME RInv, NEW id \in Snap, NEW body,
         UNCHANGED <<refs, odb, height>>, ops' = ops + 1, Mint(id, body),
         body.at = height,
         \A n \in Node :
           \/ pend'[n] = pend[n]
           \/ TakesMint(pend[n].refs, pend[n].objs, odb[n], height, id, body,
                        pend'[n].refs, pend'[n].objs)
  PROVE  RInv'
<1>1. /\ minted \in 0..MaxSnap /\ minted' \in minted..MaxSnap /\ id \in 1..minted'
      /\ 1..minted \subseteq 1..minted' /\ 1..minted \subseteq Snap
      /\ cat' = [s \in Snap |-> cat'[s]] /\ cat'[id] = body
      /\ \A s \in 1..minted : cat'[s] = cat[s]
  BY SizesAssumption DEF RInv, RTypes, Mint, Snap
<1>2. height \in Nat /\ ops \in Nat
  BY DEF RInv, RTypes
<1>3. ASSUME NEW c, TakenNow(c)
      PROVE  TakenNow(c)'
  BY <1>1, <1>3 DEF TakenNow
<1>4. ASSUME NEW c \in TreeChunks(body.tree)
      PROVE  TakenNow(c)'
  BY <1>1, <1>4 DEF TakenNow
<1>5. ASSUME NEW n \in Node
      PROVE  NodeInv(n)'
  <2> DEFINE r == pend[n].refs
             objs == pend[n].objs
             r1 == pend'[n].refs
             b1 == pend'[n].objs
  <2>1. /\ NodeInv(n) /\ r \in Refs /\ CountsExact(r) /\ Capped(r)
        /\ Roots(r) \subseteq 1..minted /\ Roots(refs[n]) \subseteq 1..minted
        /\ Settled(refs[n])
    BY DEF RInv, NodeInv, Settled
  <2>2. /\ Live(cat', refs[n]) = Live(cat, refs[n]) /\ Live(cat', r) = Live(cat, r)
    BY <1>1, <2>1, LiveStable
  <2>3. Settled(refs[n])' /\ Live(cat, refs[n])' \subseteq odb'[n] /\ ops' # 0
    BY <1>1, <1>2, <2>1, <2>2 DEF Settled, NodeInv
  <2>4. \A c \in StagedChunks(refs[n]) :
          c \in Chunk /\ refs[n].staging[c] # NoEntry /\ RowKept(n, c)
    BY <2>1 DEF StagedChunks, NodeInv
  <2>5. CASE pend'[n] = pend[n]
    <3>1. pend'[n] = pend[n]
      BY <2>5
    <3>2. Settled(pend[n].refs)'
      BY <1>1, <2>1, <3>1 DEF Settled
    <3>3. Live(cat, pend[n].refs)' \subseteq odb'[n] \cup pend'[n].objs
      BY <2>1, <2>2, <3>1 DEF NodeInv
    <3>4. \A c \in StagedChunks(refs[n])' : RowKept(n, c)'
      BY <1>3, <2>4, <3>1 DEF RowKept
    <3>5. QED
      BY <2>3, <3>2, <3>3, <3>4 DEF NodeInv
  <2>6. CASE TakesMint(r, objs, odb[n], height, id, body, r1, b1)
    <3>1. pend'[n].refs = r1 /\ pend'[n].objs = b1
      OBVIOUS
    <3>2. /\ Accepted(r1, r, {id}, {}) /\ Capped(r1)
          /\ objs \cup {id} \subseteq b1 /\ TreeChunks(body.tree) \subseteq odb[n] \cup b1
      BY <2>6 DEF TakesMint
    <3>3. \A c \in Chunk : (r.staging[c] # NoEntry /\ ~(r.staging[c].expires <= height))
             => r1.staging[c] = r.staging[c] \/ c \in TreeChunks(body.tree)
      BY <2>6 DEF TakesMint
    <3> HIDE DEF r1, b1
    <3>4. r1 \in Refs /\ CountsExact(r1) /\ Within(r1, r, {id}, {})
      BY <3>2 DEF Accepted, Good
    <3>5. Settled(pend[n].refs)'
      <4>1. Roots(r1) \subseteq 1..minted'
        BY <1>1, <2>1, <3>4 DEF Within
      <4>2. QED
        BY <3>1, <3>2, <3>4, <4>1 DEF Settled
    <3>6. Live(cat', r1) \subseteq odb[n] \cup b1
      <4>1. Live(cat', r1) \subseteq
              Live(cat', r) \cup {} \cup UNION {SnapObjects(cat', s) : s \in {id}}
        BY <3>4, LiveWithin
      <4>2. SnapObjects(cat', id) = {id} \cup TreeChunks(body.tree)
        BY <1>1 DEF SnapObjects
      <4>3. Live(cat, r) \subseteq odb[n] \cup objs
        BY <2>1 DEF NodeInv
      <4>4. UNION {SnapObjects(cat', s) : s \in {id}} = SnapObjects(cat', id)
        OBVIOUS
      <4> HIDE DEF r, objs
      <4>5. QED
        BY <2>2, <3>2, <4>1, <4>2, <4>3, <4>4
    <3>7. ASSUME NEW c \in StagedChunks(refs[n])
          PROVE  RowKept(n, c)'
      <4>1. CASE refs[n].staging[c].expires <= height \/ TakenNow(c)
        BY <1>3, <4>1 DEF RowKept
      <4>2. CASE ~(refs[n].staging[c].expires <= height) /\ r.staging[c] = refs[n].staging[c]
        <5>1. r1.staging[c] = r.staging[c] \/ c \in TreeChunks(body.tree)
          BY <2>4, <3>3, <4>2
        <5>2. CASE c \in TreeChunks(body.tree)
          BY <1>4, <5>2 DEF RowKept
        <5>3. CASE r1.staging[c] = r.staging[c]
          BY <3>1, <4>2, <5>3 DEF RowKept
        <5>4. QED
          BY <5>1, <5>2, <5>3
      <4>3. QED
        BY <2>4, <4>1, <4>2 DEF RowKept
    <3>8. Live(cat, pend[n].refs)' \subseteq odb'[n] \cup pend'[n].objs
      BY <3>1, <3>6
    <3>9. \A c \in StagedChunks(refs[n])' : RowKept(n, c)'
      BY <3>7
    <3>10. QED
      BY <2>3, <3>5, <3>8, <3>9 DEF NodeInv
  <2>7. QED
    BY <2>5, <2>6
<1>6. RTypes'
  BY <1>1, <1>2, SizesAssumption DEF RInv, RTypes
<1>7. QED
  BY <1>5, <1>6 DEF RInv

(* commit: the body is one, made of what the head keeps alive and of chunks *)
(* this node has, buffers now, or has had before as orphans.                *)
LEMMA CommitRInv ==
  ASSUME RInv, Agreed, NEW base \in 0..minted, NEW ch \in Changes, Commit(base, ch)
  PROVE  RInv'
<1> DEFINE author == CHOOSE n \in Node : TRUE
           body == CommitBody(cat, pend[author].refs, base, ch, height)
<1>1. PICK id \in Snap :
        /\ Mint(id, body) /\ UNCHANGED <<refs, odb, height>> /\ ops' = ops + 1
        /\ pend' = [n \in Node |->
             IF CommitOk(cat, pend[n].refs, pend[n].objs, odb[n], base, ch, height)
             THEN [refs |-> CommitRefs(pend[n].refs, ch, id, height),
                   objs |-> CommitObjs(pend[n].objs, odb[n], ch, id)]
             ELSE pend[n]]
  BY Zenon DEF Commit, Apply, NodeObjs
<1>2. UNCHANGED <<refs, odb, height>> /\ ops' = ops + 1 /\ Mint(id, body)
  BY <1>1
<1>3. /\ body.tree = CommitTree(cat, pend[author].refs, ch) /\ body.at = height
      /\ \A n \in Node : pend[author].refs = pend[n].refs
  BY DEF CommitBody, Agreed
<1> HIDE DEF body, author
<1>4. ASSUME NEW n \in Node
      PROVE  \/ pend'[n] = pend[n]
             \/ TakesMint(pend[n].refs, pend[n].objs, odb[n], height, id, body,
                          pend'[n].refs, pend'[n].objs)
  <2> DEFINE r == pend[n].refs
             objs == pend[n].objs
             r1 == pend'[n].refs
             b1 == pend'[n].objs
  <2> SUFFICES ASSUME CommitOk(cat, r, objs, odb[n], base, ch, height)
               PROVE  TakesMint(r, objs, odb[n], height, id, body, r1, b1)
    BY <1>1
  <2>1. /\ r \in Refs /\ CountsExact(r) /\ Capped(r) /\ height \in Nat
        /\ Live(cat, r) \subseteq odb[n] \cup objs
    BY NodeFacts
  <2>2. /\ r1 = CommitRefs(r, ch, id, height)
        /\ b1 = objs \cup NewlyStaged(objs, odb[n], ch) \cup {id}
        /\ body.tree = CommitTree(cat, r, ch)
    BY <1>1, <1>3 DEF CommitObjs
  <2> HIDE DEF r, objs, r1, b1
  <2>3. Accepted(r1, r, {id}, {}) /\ Capped(r1)
    BY <2>1, <2>2, CommitGood, CommitCapped
  <2>4. TreeChunks(CommitTree(cat, r, ch)) \subseteq
          Live(cat, r) \cup objs \cup odb[n] \cup NewlyStaged(objs, odb[n], ch)
    BY <2>1, <2>2, CommitChunks
  <2>5. ASSUME NEW c \in Chunk, r.staging[c] # NoEntry, ~(r.staging[c].expires <= height)
        PROVE  r1.staging[c] = r.staging[c] \/ c \in TreeChunks(body.tree)
    <3>1. r1.staging[c] = r.staging[c] \/ c \in Referenced(ch)
      BY <2>1, <2>2, <2>5, RowsKept
    <3>2. CASE c \in Referenced(ch)
      <4>1. PICK p \in DOMAIN ch : ch[p].chunk = c
        BY <3>2 DEF Referenced, ChunksBy
      <4>2. p \in Path /\ c # Absent
        BY SentinelAssumption DEF Changes
      <4>3. QED
        BY <2>2, <4>1, <4>2 DEF TreeChunks, CommitTree
    <3>3. QED
      BY <3>1, <3>2
  <2>6. QED
    BY <2>1, <2>2, <2>3, <2>4, <2>5 DEF TakesMint
<1>5. QED
  BY <1>2, <1>3, <1>4, MintingRInv

(* project_snapshot: the candidate is made of what its source keeps alive.  *)
LEMMA ProjectRInv ==
  ASSUME RInv, NEW s \in 1..minted, NEW p \in Path, ProjectSnapshot(s, p)
  PROVE  RInv'
<1> DEFINE body == ProjectBody(cat, s, p, height)
<1>1. PICK id \in Snap :
        /\ Mint(id, body) /\ UNCHANGED <<refs, odb, height>> /\ ops' = ops + 1
        /\ pend' = [n \in Node |->
             IF ProjectOk(cat, pend[n].refs, pend[n].objs, odb[n], s, p)
             THEN [refs |-> ProjectRefs(pend[n].refs, id, height),
                   objs |-> pend[n].objs \cup {id}]
             ELSE pend[n]]
  BY Zenon DEF ProjectSnapshot, Apply, NodeObjs
<1>2. UNCHANGED <<refs, odb, height>> /\ ops' = ops + 1 /\ Mint(id, body)
  BY <1>1
<1>3. body.at = height /\ TreeChunks(body.tree) \subseteq TreeChunks(cat[s].tree)
  BY DEF ProjectBody, TreeChunks, EmptyTree
<1> HIDE DEF body
<1>4. ASSUME NEW n \in Node
      PROVE  \/ pend'[n] = pend[n]
             \/ TakesMint(pend[n].refs, pend[n].objs, odb[n], height, id, body,
                          pend'[n].refs, pend'[n].objs)
  <2> DEFINE r == pend[n].refs
             objs == pend[n].objs
             r1 == pend'[n].refs
             b1 == pend'[n].objs
  <2> SUFFICES ASSUME ProjectOk(cat, r, objs, odb[n], s, p)
               PROVE  TakesMint(r, objs, odb[n], height, id, body, r1, b1)
    BY <1>1
  <2>1. /\ r \in Refs /\ CountsExact(r) /\ Capped(r) /\ height \in Nat /\ s \in Snap
        /\ Live(cat, r) \subseteq odb[n] \cup objs
    BY NodeFacts
  <2>2. r1 = ProjectRefs(r, id, height) /\ b1 = objs \cup {id} /\ Contains(r, s)
    BY <1>1 DEF ProjectOk
  <2> HIDE DEF r, objs, r1, b1
  <2>3. Accepted(r1, r, {id}, {}) /\ Capped(r1)
    BY <2>1, <2>2, ProjectGood, ProjectCapped
  <2>4. TreeChunks(cat[s].tree) \subseteq Live(cat, r)
    <3>1. s \in Roots(r)
      BY <2>1, <2>2, ContainsRoot
    <3>2. QED
      BY <3>1 DEF Live, SnapObjects
  <2>5. \A c \in Chunk : (r.staging[c] # NoEntry /\ ~(r.staging[c].expires <= height))
          => r1.staging[c] = r.staging[c]
    BY <2>1, <2>2, RowsKept
  <2>6. QED
    BY <1>3, <2>1, <2>2, <2>3, <2>4, <2>5 DEF TakesMint
<1>5. QED
  BY <1>2, <1>3, <1>4, MintingRInv

(* A boundary makes the overlay durable and then sweeps what it does not    *)
(* reach; an abort and a join leave a node with its committed state.        *)
LEMMA BoundaryRInv ==
  ASSUME RInv, CommitBlock \/ AbortBlock \/ (\E n \in Node : Join(n))
  PROVE  RInv'
<1>1. /\ minted \in 0..MaxSnap /\ height \in Nat /\ ops \in Nat
      /\ cat = [s \in Snap |-> cat[s]] /\ odb = [n \in Node |-> odb[n]]
      /\ \A n \in Node : NodeInv(n)
      /\ \A m, n \in Node : refs[m] = refs[n]
  BY DEF RInv, RTypes
<1>2. CASE CommitBlock
  <2>1. /\ UNCHANGED <<cat, minted>> /\ height' = height + 1 /\ ops' = 0 /\ Agreed
        /\ refs' = [n \in Node |-> pend[n].refs]
        /\ pend' = [n \in Node |-> [refs |-> pend[n].refs, objs |-> {}]]
        /\ odb' = [n \in Node |-> odb'[n]]
    BY <1>2 DEF CommitBlock
  <2>2. ASSUME NEW n \in Node
        PROVE  NodeInv(n)'
    <3>1. /\ Settled(pend[n].refs) /\ Live(cat, pend[n].refs) \subseteq odb[n] \cup pend[n].objs
      BY <1>1 DEF NodeInv
    <3>2. /\ refs'[n] = pend[n].refs /\ pend'[n] = [refs |-> refs'[n], objs |-> {}]
          /\ pend'[n].refs = pend[n].refs /\ pend'[n].objs = {}
      BY <2>1
    <3>3. Live(cat, pend[n].refs) \subseteq odb'[n]
      BY <1>2, <3>1 DEF CommitBlock
    <3>4. Settled(refs[n])' /\ Settled(pend[n].refs)'
      BY <2>1, <3>1, <3>2 DEF Settled
    <3>5. /\ Live(cat, refs[n])' \subseteq odb'[n]
          /\ Live(cat, pend[n].refs)' \subseteq odb'[n] \cup pend'[n].objs
      BY <2>1, <3>2, <3>3
    <3>6. \A c \in StagedChunks(refs[n])' : RowKept(n, c)'
      BY <3>2 DEF RowKept
    <3>7. QED
      BY <3>2, <3>4, <3>5, <3>6 DEF NodeInv
  <2>3. \A m, n \in Node : refs'[m] = refs'[n]
    BY <2>1 DEF Agreed
  <2>4. RTypes'
    BY <1>1, <2>1 DEF RTypes
  <2>5. QED
    BY <2>2, <2>3, <2>4 DEF RInv
<1>3. CASE AbortBlock
  <2>1. /\ UNCHANGED <<cat, minted, refs, odb, height>> /\ ops' = 0
        /\ pend' = [n \in Node |-> [refs |-> refs[n], objs |-> {}]]
    BY <1>3 DEF AbortBlock
  <2>2. ASSUME NEW n \in Node
        PROVE  NodeInv(n)'
    <3>1. Settled(refs[n]) /\ Live(cat, refs[n]) \subseteq odb[n]
      BY <1>1 DEF NodeInv
    <3>2. pend'[n].refs = refs[n] /\ pend'[n] = [refs |-> refs'[n], objs |-> {}]
      BY <2>1
    <3>3. Settled(refs[n])' /\ Settled(pend[n].refs)'
      BY <2>1, <3>1, <3>2 DEF Settled
    <3>4. \A c \in StagedChunks(refs[n])' : RowKept(n, c)'
      BY <2>1, <3>2 DEF RowKept
    <3>5. /\ Live(cat, refs[n])' \subseteq odb'[n]
          /\ Live(cat, pend[n].refs)' \subseteq odb'[n] \cup pend'[n].objs
      BY <2>1, <3>1, <3>2
    <3>6. QED
      BY <3>2, <3>3, <3>4, <3>5 DEF NodeInv
  <2>3. RTypes'
    BY <1>1, <2>1 DEF RTypes
  <2>4. QED
    BY <1>1, <2>1, <2>2, <2>3 DEF RInv
<1>4. ASSUME NEW j \in Node, Join(j)
      PROVE  RInv'
  <2>1. /\ UNCHANGED <<cat, minted, refs, pend, height, ops>> /\ ops = 0
        /\ odb' = [odb EXCEPT ![j] = Live(cat, refs[j])]
    BY <1>4 DEF Join
  <2>2. /\ odb' = [n \in Node |-> odb'[n]] /\ odb'[j] = Live(cat, refs[j])
        /\ \A n \in Node \ {j} : odb'[n] = odb[n]
    BY <1>1, <2>1
  <2>3. ASSUME NEW n \in Node
        PROVE  NodeInv(n)'
    <3>1. NodeInv(n) /\ pend[n].refs = refs[n]
      BY <1>1, <2>1 DEF NodeInv
    <3>2. Settled(refs[n])' /\ Settled(pend[n].refs)'
      BY <2>1, <3>1 DEF NodeInv, Settled
    <3>3. Live(cat, refs[n]) \subseteq odb'[n]
      BY <2>2, <3>1 DEF NodeInv
    <3>4. \A c \in StagedChunks(refs[n])' : RowKept(n, c)'
      BY <2>1, <3>1 DEF RowKept
    <3>5. QED
      BY <2>1, <3>1, <3>2, <3>3, <3>4 DEF NodeInv
  <2>4. RTypes'
    BY <1>1, <2>1, <2>2 DEF RTypes
  <2>5. QED
    BY <1>1, <2>1, <2>3, <2>4 DEF RInv
<1>5. QED
  BY <1>2, <1>3, <1>4

(* Genesis: every node starts with the empty refs and an empty store.       *)
LEMMA InitRInv == Init => RInv
<1> SUFFICES ASSUME Init PROVE RInv
  OBVIOUS
<1>1. RTypes
  BY SizesAssumption DEF Init, RTypes
<1>2. ASSUME NEW n \in Node
      PROVE  NodeInv(n)
  <2>1. /\ refs[n] = GenesisRefs /\ pend[n] = [refs |-> GenesisRefs, objs |-> {}]
        /\ pend[n].refs = GenesisRefs /\ StagedChunks(GenesisRefs) = {}
    BY GenesisOk DEF Init
  <2>2. Settled(GenesisRefs)
    BY GenesisOk, GenesisCapped DEF Settled
  <2>3. Live(cat, GenesisRefs) = {}
    BY GenesisOk DEF Live
  <2>4. QED
    BY <2>1, <2>2, <2>3 DEF NodeInv
<1>3. QED
  BY <1>1, <1>2 DEF RInv, Init

(* Every step keeps the invariant.                                          *)
LEMMA NextRInv == RInv /\ [Next]_vars => RInv'
<1> SUFFICES ASSUME RInv, [Next]_vars PROVE RInv'
  OBVIOUS
<1>1. CASE UNCHANGED vars
  BY <1>1 DEF RInv, RTypes, NodeInv, Settled, RowKept, TakenNow, vars
<1>2. CASE Operation
  <2>1. \A s \in 1..minted, v \in 1..MaxRev : [snap |-> s, rev |-> v] \in RetRow
    BY SizesAssumption DEF RInv, RTypes, RetRow, Snap
  <2>2. QED
    BY <1>2, <2>1, PutBlobRInv, CommitRInv, ProjectRInv, PinRInv, UnpinRInv, WatchRInv,
       UnwatchRInv, RetainRInv DEF Operation, Verb
<1>3. CASE CommitBlock \/ AbortBlock \/ \E n \in Node : Join(n)
  BY <1>3, BoundaryRInv
<1>4. QED
  BY <1>1, <1>2, <1>3 DEF Next

(* The invariant holds of every reachable state.                            *)
LEMMA RInvHolds == Spec => []RInv
<1>1. Init => RInv
  BY InitRInv
<1>2. RInv /\ [Next]_vars => RInv'
  BY NextRInv
<1>3. QED
  BY <1>1, <1>2, PTL DEF Spec

------------------------------------------------------------------------------
(* Theorems *)

(* A node can read everything its refs reach: nothing it skipped buffering  *)
(* because its own store had it is swept before the refs name it.           *)
THEOREM PossessionHolds == Spec => []Possession
<1>1. RInv => Possession
  BY DEF RInv, NodeInv, Possession
<1>2. QED
  BY <1>1, RInvHolds, PTL

(* No sequence of verbs, commits by others, sweeps, aborts and joins takes  *)
(* an owner's rows or bytes, the staging table or the image past its cap:   *)
(* the gates of the gated verbs reserve the room the ungated ones take.     *)
THEOREM CapsHoldHolds == Spec => []CapsHold
<1>1. RInv => CapsHold
  <2> SUFFICES ASSUME RInv, NEW n \in Node
               PROVE  LET r == pend[n].refs IN
                      /\ ImageLen(r) <= MaxImage
                      /\ Len(r.window) <= WindowCap
                      /\ Cardinality(Pinned(r)) <= PinCap
                      /\ Cardinality(r.watches) <= WatchCap
                      /\ Cardinality(StagedChunks(r)) <= StagingCap
                      /\ \A o \in Owner : /\ Cardinality(OwnedChunks(r, o)) <= OwnerCap
                                          /\ Bytes(OwnedChunks(r, o)) <= Quota
                                          /\ Cardinality(PinsOf(r, o)) <= PinShare
    BY DEF CapsHold
  <2> DEFINE r == pend[n].refs
  <2>1. r \in Refs /\ Capped(r)
    BY DEF RInv, NodeInv, Settled
  <2> HIDE DEF r
  <2>2. /\ ImageLen(r) + Headroom(r) = Weight(r) /\ ImageLen(r) \in Nat
        /\ Headroom(r) \in Nat /\ Weight(r) <= MaxImage /\ MaxImage \in Nat
    BY <2>1, ImageWeight, TablesAssumption DEF Capped
  <2>3. ImageLen(r) <= MaxImage /\ Len(r.window) <= WindowCap
    BY <2>1, <2>2 DEF Refs, Window
  <2>4. QED
    BY <2>1, <2>3 DEF Capped, r
<1>2. QED
  BY <1>1, RInvHolds, PTL

(* A block drops a staged row only at its expiry or because one of its own  *)
(* commits took the chunk, whatever else the block did in between.          *)
THEOREM TtlHonouredHolds == Spec => TtlHonoured
<1> DEFINE Kept ==
      \A n \in Node : \A c \in StagedChunks(refs[n]) \ StagedChunks(refs'[n]) :
        \/ refs[n].staging[c].expires <= height
        \/ \E s \in 1..minted : cat[s].at = height /\ c \in TreeChunks(cat[s].tree)
<1>1. RInv /\ [Next]_vars => [Kept]_vars
  <2> SUFFICES ASSUME RInv, [Next]_vars PROVE Kept \/ UNCHANGED vars
    OBVIOUS
  <2>1. CASE UNCHANGED refs
    BY <2>1
  <2>2. CASE CommitBlock
    <3> SUFFICES ASSUME NEW n \in Node,
                        NEW c \in StagedChunks(refs[n]) \ StagedChunks(refs'[n])
                 PROVE  refs[n].staging[c].expires <= height \/ TakenNow(c)
      BY DEF TakenNow
    <3>1. refs'[n] = pend[n].refs
      BY <2>2 DEF CommitBlock
    <3>2. pend[n].refs.staging[c] # refs[n].staging[c]
      BY <3>1 DEF StagedChunks
    <3>3. RowKept(n, c)
      BY DEF RInv, NodeInv
    <3>4. QED
      BY <3>2, <3>3 DEF RowKept
  <2>3. UNCHANGED refs \/ CommitBlock
    BY DEF Next, Operation, Verb, vars, PutBlob, Commit, ProjectSnapshot, Pin, Unpin,
       RegisterWatch, Unwatch, Retain, OnRefs, AbortBlock, Join, Apply
  <2>4. QED
    BY <2>1, <2>2, <2>3
<1>2. QED
  BY <1>1, RInvHolds, PTL DEF Spec, TtlHonoured

(* With no commit that carries a chunk inline and by digest as well, the    *)
(* first operation of a block is decided alike by nodes with any stores.    *)
THEOREM SingleOpAgreementHolds ==
  ASSUME ~Mixed
  PROVE  Spec => []SingleOpAgreement
<1> DEFINE Alike == ops <= 1 => Agreed
<1>1. Init => Alike
  BY DEF Init, Agreed
<1>2. RInv /\ Alike /\ [Next]_vars => Alike'
  <2> SUFFICES ASSUME RInv, Alike, [Next]_vars, ops' <= 1
               PROVE  Agreed'
    OBVIOUS
  <2>1. ops \in Nat /\ height \in Nat
    BY DEF RInv, RTypes
  <2>2. ASSUME ops' = ops + 1
        PROVE  /\ \A n \in Node : pend[n].objs = {} /\ pend[n].refs = refs[n]
               /\ \A m, n \in Node : pend[m] = pend[n]
    <3>1. ops = 0
      BY <2>1, <2>2
    <3>2. \A n \in Node : pend[n] = [refs |-> refs[n], objs |-> {}]
      BY <3>1 DEF RInv, NodeInv
    <3>3. \A m, n \in Node : refs[m] = refs[n]
      BY DEF RInv
    <3>4. ASSUME NEW m \in Node, NEW n \in Node
          PROVE  pend[m] = pend[n]
      <4>1. pend[m] = [refs |-> refs[m], objs |-> {}] /\ refs[m] = refs[n]
        BY <3>2, <3>3
      <4>2. pend[n] = [refs |-> refs[n], objs |-> {}]
        BY <3>2
      <4>3. QED
        BY <4>1, <4>2
    <3>5. ASSUME NEW n \in Node
          PROVE  pend[n].objs = {} /\ pend[n].refs = refs[n]
      <4>1. pend[n] = [refs |-> refs[n], objs |-> {}]
        BY <3>2
      <4>2. QED
        BY <4>1
    <3>6. QED
      BY <3>4, <3>5
  <2>3. ASSUME NEW o \in Owner, NEW c \in Chunk, PutBlob(o, c)
        PROVE  Agreed'
    <3>1. /\ ops' = ops + 1
          /\ pend' = [n \in Node |->
               IF PutBlobOk(pend[n].refs, pend[n].objs, o, c, height)
               THEN [refs |-> PutBlobRefs(pend[n].refs, pend[n].objs, o, c, height),
                     objs |-> PutBlobObjs(pend[n].refs, pend[n].objs, c, height)]
               ELSE pend[n]]
      BY <2>3 DEF PutBlob, Apply, NodeObjs
    <3>2. \A m, n \in Node : pend[m] = pend[n]
      BY <2>2, <3>1
    <3>3. QED
      BY <3>1, <3>2 DEF Agreed
  <2>4. ASSUME NEW o \in Owner, NEW s \in 1..minted, NEW p \in PinName, Pin(o, s, p)
        PROVE  Agreed'
    <3>1. /\ ops' = ops + 1
          /\ pend' = [n \in Node |->
               IF PinOk(pend[n].refs, o, s, p, height)
               THEN [refs |-> PinRefs(pend[n].refs, o, s, p, height),
                     objs |-> pend[n].objs]
               ELSE pend[n]]
      BY <2>4 DEF Pin, OnRefs, Apply
    <3>2. \A m, n \in Node : pend[m] = pend[n]
      BY <2>2, <3>1
    <3>3. QED
      BY <3>1, <3>2 DEF Agreed
  <2>5. ASSUME NEW p \in PinName, Unpin(p)
        PROVE  Agreed'
    <3>1. /\ ops' = ops + 1
          /\ pend' = [n \in Node |->
               IF UnpinOk(pend[n].refs, p)
               THEN [refs |-> UnpinRefs(pend[n].refs, p, height),
                     objs |-> pend[n].objs]
               ELSE pend[n]]
      BY <2>5 DEF Unpin, OnRefs, Apply
    <3>2. \A m, n \in Node : pend[m] = pend[n]
      BY <2>2, <3>1
    <3>3. QED
      BY <3>1, <3>2 DEF Agreed
  <2>6. ASSUME NEW w \in Watch, RegisterWatch(w)
        PROVE  Agreed'
    <3>1. /\ ops' = ops + 1
          /\ pend' = [n \in Node |->
               IF WatchOk(pend[n].refs, w, height)
               THEN [refs |-> WatchRefs(pend[n].refs, w, height),
                     objs |-> pend[n].objs]
               ELSE pend[n]]
      BY <2>6 DEF RegisterWatch, OnRefs, Apply
    <3>2. \A m, n \in Node : pend[m] = pend[n]
      BY <2>2, <3>1
    <3>3. QED
      BY <3>1, <3>2 DEF Agreed
  <2>7. ASSUME NEW w \in Watch, Unwatch(w)
        PROVE  Agreed'
    <3>1. /\ ops' = ops + 1
          /\ pend' = [n \in Node |->
               IF UnwatchOk(pend[n].refs, w)
               THEN [refs |-> UnwatchRefs(pend[n].refs, w, height),
                     objs |-> pend[n].objs]
               ELSE pend[n]]
      BY <2>7 DEF Unwatch, OnRefs, Apply
    <3>2. \A m, n \in Node : pend[m] = pend[n]
      BY <2>2, <3>1
    <3>3. QED
      BY <3>1, <3>2 DEF Agreed
  <2>8. ASSUME NEW k \in RetKey, NEW new, Retain(k, new)
        PROVE  Agreed'
    <3>1. /\ ops' = ops + 1
          /\ pend' = [n \in Node |->
               IF RetainOk(pend[n].refs, k, pend[n].refs.ret[k], new)
               THEN [refs |-> RetainRefs(pend[n].refs, k, pend[n].refs.ret[k], new, height),
                     objs |-> pend[n].objs]
               ELSE pend[n]]
      BY <2>8 DEF Retain, OnRefs, Apply
    <3>2. \A m, n \in Node : pend[m] = pend[n]
      BY <2>2, <3>1
    <3>3. QED
      BY <3>1, <3>2 DEF Agreed
  <2>9. ASSUME NEW base \in 0..minted, NEW ch \in Changes, Commit(base, ch)
        PROVE  Agreed'
    <3> DEFINE ok(n) == CommitOk(cat, pend[n].refs, pend[n].objs, odb[n], base, ch, height)
    <3>1. PICK id \in Snap :
          /\ ops' = ops + 1
          /\ pend' = [n \in Node |->
               IF ok(n)
               THEN [refs |-> CommitRefs(pend[n].refs, ch, id, height),
                     objs |-> CommitObjs(pend[n].objs, odb[n], ch, id)]
               ELSE pend[n]]
          /\ ChunksBy(ch, "inline") \cap ChunksBy(ch, "chunks") = {}
      <4>1. PICK id \in Snap :
              /\ ops' = ops + 1
              /\ pend' = [n \in Node |->
                   IF ok(n)
                   THEN [refs |-> CommitRefs(pend[n].refs, ch, id, height),
                         objs |-> CommitObjs(pend[n].objs, odb[n], ch, id)]
                   ELSE pend[n]]
        BY Zenon, <2>9 DEF Commit, Apply, NodeObjs
      <4>2. ~Mixed => ChunksBy(ch, "inline") \cap ChunksBy(ch, "chunks") = {}
        BY Zenon, <2>9 DEF Commit
      <4>3. QED
        BY <4>1, <4>2
    <3>2. /\ \A n \in Node : pend[n].objs = {} /\ pend[n].refs = refs[n]
          /\ \A m, n \in Node : pend[m] = pend[n]
      BY <2>2, <3>1
    <3>3. base \in 0..MaxSnap
      BY SizesAssumption DEF RInv, RTypes
    <3>4. ASSUME NEW m \in Node, NEW n \in Node
          PROVE  ok(m) <=> ok(n)
      <4> DEFINE r == pend[n].refs
      <4>1. /\ pend[m].refs = r /\ pend[m].objs = {} /\ pend[n].objs = {}
            /\ r \in Refs /\ CountsExact(r)
            /\ Live(cat, r) \subseteq odb[n] /\ Live(cat, r) \subseteq odb[m]
        BY <3>2 DEF RInv, NodeInv, Settled
      <4> HIDE DEF r
      <4>2. CommitOk(cat, r, {}, odb[m], base, ch, height) <=>
              CommitOk(cat, r, {}, odb[n], base, ch, height)
        BY <2>1, <3>1, <3>3, <4>1, CommitOkAlike
      <4>3. QED
        BY <4>1, <4>2 DEF r
    <3> HIDE DEF ok
    <3>5. QED
      BY <3>1, <3>2, <3>4 DEF Agreed
  <2>10. ASSUME NEW s \in 1..minted, NEW p \in Path, ProjectSnapshot(s, p)
         PROVE  Agreed'
    <3> DEFINE ok(n) == ProjectOk(cat, pend[n].refs, pend[n].objs, odb[n], s, p)
    <3>1. PICK id \in Snap :
          /\ ops' = ops + 1
          /\ pend' = [n \in Node |->
               IF ok(n)
               THEN [refs |-> ProjectRefs(pend[n].refs, id, height),
                     objs |-> pend[n].objs \cup {id}]
               ELSE pend[n]]
      BY Zenon, <2>10 DEF ProjectSnapshot, Apply, NodeObjs
    <3>2. \A m, n \in Node : pend[m] = pend[n]
      BY <2>2, <3>1
    <3>3. ASSUME NEW n \in Node
          PROVE  ok(n) <=> Contains(pend[n].refs, s) /\ cat[s].tree[p] # Absent
      <4>1. /\ pend[n].refs \in Refs /\ CountsExact(pend[n].refs) /\ s \in Snap
            /\ Live(cat, pend[n].refs) \subseteq odb[n] \cup pend[n].objs
        BY NodeFacts
      <4>2. Contains(pend[n].refs, s) => s \in pend[n].objs \cup odb[n]
        BY <4>1, ContainsRoot DEF Live, SnapObjects
      <4>3. QED
        BY <4>2 DEF ProjectOk, Readable
    <3>4. ASSUME NEW m \in Node, NEW n \in Node
          PROVE  ok(m) <=> ok(n)
      <4>1. pend[m].refs = pend[n].refs
        BY <3>2
      <4>2. QED
        BY <3>3, <4>1
    <3> HIDE DEF ok
    <3>5. QED
      BY <3>1, <3>2, <3>4 DEF Agreed
  <2>11. CASE CommitBlock
    BY <2>11 DEF CommitBlock, Agreed
  <2>12. CASE AbortBlock
    BY <2>12 DEF AbortBlock, Agreed, RInv
  <2>13. CASE UNCHANGED vars \/ \E n \in Node : Join(n)
    BY <2>13 DEF vars, Join, Agreed
  <2>14. CASE Operation
    BY <2>3, <2>4, <2>5, <2>6, <2>7, <2>8, <2>9, <2>10, <2>14 DEF Operation, Verb
  <2>15. QED
    BY <2>11, <2>12, <2>13, <2>14 DEF Next
<1>3. RInv /\ Alike => SingleOpAgreement
  BY DEF RInv, Agreed, SingleOpAgreement, Agreement
<1>4. QED
  BY <1>1, <1>2, <1>3, RInvHolds, PTL DEF Spec
==============================================================================
