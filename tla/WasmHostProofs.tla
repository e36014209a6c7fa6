--------------------------- MODULE WasmHostProofs ---------------------------
(***************************************************************************)
(* The wasm host implements the native module, for any logic, budgets,     *)
(* keys and objects: the round that ends a call has run the logic once     *)
(* from the stage the call took, with the answers the native module would  *)
(* have read in place, and publication folds in whole blocks only.  On the *)
(* way: the refs image never dangles, the block's bytes stay under their   *)
(* ceiling and the durable height names the block of the refs.             *)
(***************************************************************************)
EXTENDS WasmHost, FiniteSetTheorems, WellFoundedInduction, TLAPS

Written(over) == {k \in Slot : over[k] # Hole}

(* What an overlay and its objects weigh is a number, and less weighs less. *)
LEMMA HeldLess ==
  ASSUME NEW o1, NEW o2, NEW p1, NEW p2, IsFiniteSet(p2),
         Written(o1) \subseteq Written(o2), p1 \subseteq p2
  PROVE  /\ HeldBytes(o1, p1) \in Nat /\ HeldBytes(o2, p2) \in Nat
         /\ HeldBytes(o1, p1) <= HeldBytes(o2, p2)
<1>1. IsFiniteSet(Slot)
  <2>1. IsFiniteSet({Refs})
    BY FS_Singleton
  <2>2. QED
    BY <2>1, HostAssumption, FS_Union DEF Slot
<1>2. IsFiniteSet(Written(o2)) /\ IsFiniteSet(Written(o1)) /\ IsFiniteSet(p1)
  BY <1>1, FS_Subset DEF Written
<1>3. /\ Cardinality(Written(o1)) <= Cardinality(Written(o2))
      /\ Cardinality(p1) <= Cardinality(p2)
  BY <1>2, FS_Subset
<1>4. /\ Cardinality(Written(o1)) \in Nat /\ Cardinality(Written(o2)) \in Nat
      /\ Cardinality(p1) \in Nat /\ Cardinality(p2) \in Nat
  BY <1>2, FS_CardinalityType
<1>5. /\ HeldBytes(o1, p1) = Cardinality(Written(o1)) + Cardinality(p1)
      /\ HeldBytes(o2, p2) = Cardinality(Written(o2)) + Cardinality(p2)
  BY DEF HeldBytes, Written
<1>6. QED
  BY <1>3, <1>4, <1>5

(* A write adds at most one entry, an object one, a flush its own entries.  *)
LEMMA HeldGrows ==
  ASSUME NEW over \in Overlay, NEW objs, IsFiniteSet(objs)
  PROVE  /\ HeldBytes(over, objs) \in Nat
         /\ \A k \in Slot : \A v :
              HeldBytes([over EXCEPT ![k] = v], objs) <= HeldBytes(over, objs) + 1
         /\ \A o : HeldBytes(over, objs \cup {o}) <= HeldBytes(over, objs) + 1
         /\ \A inner \in Overlay :
              /\ Cardinality(Written(inner)) \in Nat
              /\ HeldBytes(Merge(over, inner), objs)
                   <= HeldBytes(over, objs) + Cardinality(Written(inner))
<1>1. IsFiniteSet(Slot)
  <2>1. IsFiniteSet({Refs})
    BY FS_Singleton
  <2>2. QED
    BY <2>1, HostAssumption, FS_Union DEF Slot
<1>2. \A any : IsFiniteSet(Written(any)) /\ Cardinality(Written(any)) \in Nat
  BY <1>1, FS_Subset, FS_CardinalityType DEF Written
<1>3. Cardinality(objs) \in Nat
  BY FS_CardinalityType
<1>4. \A x, y : HeldBytes(x, y) = Cardinality(Written(x)) + Cardinality(y)
  BY DEF HeldBytes, Written
<1>5. ASSUME NEW A, NEW B, NEW C, IsFiniteSet(B), IsFiniteSet(C), A \subseteq B \cup C
      PROVE  Cardinality(A) <= Cardinality(B) + Cardinality(C) /\ Cardinality(A) \in Nat
  <2>1. /\ IsFiniteSet(B \cup C)
        /\ Cardinality(B \cup C) = Cardinality(B) + Cardinality(C) - Cardinality(B \cap C)
    BY <1>5, FS_Union
  <2>2. /\ Cardinality(A) <= Cardinality(B \cup C) /\ IsFiniteSet(A)
        /\ IsFiniteSet(B \cap C)
    BY <1>5, <2>1, FS_Subset
  <2>3. /\ Cardinality(A) \in Nat /\ Cardinality(B) \in Nat /\ Cardinality(C) \in Nat
        /\ Cardinality(B \cap C) \in Nat /\ Cardinality(B \cup C) \in Nat
    BY <1>5, <2>1, <2>2, FS_CardinalityType
  <2>4. QED
    BY <2>1, <2>2, <2>3
<1>6. \A any : IsFiniteSet({any}) /\ Cardinality({any}) = 1
  BY FS_Singleton
<1>7. ASSUME NEW k \in Slot, NEW v
      PROVE  HeldBytes([over EXCEPT ![k] = v], objs) <= HeldBytes(over, objs) + 1
  <2> DEFINE new == [over EXCEPT ![k] = v]
  <2>1. Written(new) \subseteq Written(over) \cup {k}
    BY DEF Written, Overlay
  <2> HIDE DEF new
  <2>2. /\ Cardinality(Written(new)) <= Cardinality(Written(over)) + 1
        /\ Cardinality(Written(new)) \in Nat /\ Cardinality(Written(over)) \in Nat
    BY <1>2, <1>5, <1>6, <2>1
  <2>3. HeldBytes(new, objs) <= HeldBytes(over, objs) + 1
    BY <1>3, <1>4, <2>2
  <2>4. QED
    BY <2>3 DEF new
<1>8. ASSUME NEW o
      PROVE  HeldBytes(over, objs \cup {o}) <= HeldBytes(over, objs) + 1
  <2>1. /\ Cardinality(objs \cup {o}) <= Cardinality(objs) + 1
        /\ Cardinality(objs \cup {o}) \in Nat
    BY <1>5, <1>6
  <2>2. QED
    BY <1>2, <1>3, <1>4, <2>1
<1>9. ASSUME NEW inner \in Overlay
      PROVE  HeldBytes(Merge(over, inner), objs)
               <= HeldBytes(over, objs) + Cardinality(Written(inner))
  <2>1. Written(Merge(over, inner)) \subseteq Written(over) \cup Written(inner)
    BY DEF Written, Merge
  <2>2. /\ Cardinality(Written(Merge(over, inner)))
             <= Cardinality(Written(over)) + Cardinality(Written(inner))
        /\ Cardinality(Written(Merge(over, inner))) \in Nat
    BY <1>2, <1>5, <2>1
  <2>3. QED
    BY <1>2, <1>3, <1>4, <2>2
<1>10. HeldBytes(over, objs) \in Nat
  BY <1>2, <1>3, <1>4
<1>11. QED
  BY <1>2, <1>7, <1>8, <1>9, <1>10

------------------------------------------------------------------------------
(* What a round carries *)

RoundState ==
  [staged : Overlay, puts : SUBSET Obj, inner : Overlay, memo : Memo, fuel : 0..MaxFuel,
   bytes : Nat, sent : Nat, sealed : BOOLEAN, st : {"run", "trap", "pause", "reject"},
   read : Read \cup {None}]

(* The state a call runs against does not move under it.                    *)
Backed == /\ kind \in Kind /\ committed \in [Slot -> Datum] /\ answer \in Reply
          /\ objects \subseteq Obj

(* An answer in the memo is the answer the store or the sibling would give. *)
MemoTrue(m) ==
  /\ \A k \in Slot : m.states[k] \in {Hole, committed[k]}
  /\ m.sib \in {Hole, answer}

(* Only a store-backed guest keeps an overlay of its own, only an object-   *)
(* backed one has objects and a refs image, and no other keys.              *)
Lanes(over, inner, objs) ==
  /\ kind # "store" => inner = NoWrites
  /\ kind # "odb" => over[Refs] = Hole /\ inner[Refs] = Hole /\ objs = {}
  /\ kind = "odb" => \A k \in Key : over[k] = Hole

Named(over, objs) == over[Refs] \in {Hole} \cup objs \cup objects

RoundOk(d) ==
  /\ d \in RoundState
  /\ IsFiniteSet(d.puts) /\ HeldBytes(d.staged, d.puts) <= d.bytes /\ d.bytes <= MaxHostBytes
  /\ MemoTrue(d.memo) /\ Lanes(d.staged, d.inner, d.puts) /\ Named(d.staged, d.puts)

(* The round as the native module would see it.                             *)
View(d) == [over |-> Merge(d.staged, d.inner), objs |-> d.puts, sent |-> d.sent, ok |-> TRUE]

(* A write into the view moves its overlay only.                            *)
WriteInto(r, k, v) == [r EXCEPT !.over[k] = v]

(* It is the view with the overlay written.                                 *)
LEMMA ViewWrite ==
  ASSUME NEW m, NEW p, NEW n, NEW k, NEW v
  PROVE  WriteInto([over |-> m, objs |-> p, sent |-> n, ok |-> TRUE], k, v)
           = [over |-> [m EXCEPT ![k] = v], objs |-> p, sent |-> n, ok |-> TRUE]
<1> DEFINE yes == TRUE
<1> HIDE DEF yes
<1>1. WriteInto([over |-> m, objs |-> p, sent |-> n, ok |-> yes], k, v)
        = [over |-> [m EXCEPT ![k] = v], objs |-> p, sent |-> n, ok |-> yes]
  BY DEF WriteInto
<1>2. QED
  BY Zenon, <1>1 DEF yes

(* An object put and named moves the refs image and the objects.            *)
PutInto(r, k, v) == [r EXCEPT !.over[k] = v, !.objs = @ \cup {v}]

(* It is the view with one more object, and the refs image naming it.       *)
LEMMA ViewPut ==
  ASSUME NEW m, NEW p, NEW n, NEW k, NEW v
  PROVE  PutInto([over |-> m, objs |-> p, sent |-> n, ok |-> TRUE], k, v)
           = [over |-> [m EXCEPT ![k] = v], objs |-> p \cup {v}, sent |-> n, ok |-> TRUE]
<1> DEFINE r == [over |-> m, objs |-> p, sent |-> n, ok |-> TRUE]
           w == [m EXCEPT ![k] = v]
           z == [over |-> w, objs |-> p, sent |-> n, ok |-> TRUE]
<1>1. [r EXCEPT !.over[k] = v] = z
  BY ViewWrite
<1>2. [r EXCEPT !.over[k] = v, !.objs = @ \cup {v}]
        = [[r EXCEPT !.over[k] = v] EXCEPT !.objs = @ \cup {v}]
  BY Zenon
<1>3. [z EXCEPT !.objs = @ \cup {v}]
        = [over |-> w, objs |-> p \cup {v}, sent |-> n, ok |-> TRUE]
  <2> DEFINE yes == TRUE
             u == p \cup {v}
  <2>1. [[over |-> w, objs |-> p, sent |-> n, ok |-> yes] EXCEPT !.objs = @ \cup {v}]
          = [[over |-> w, objs |-> p, sent |-> n, ok |-> yes] EXCEPT !.objs = u]
    OBVIOUS
  <2> HIDE DEF w, yes, u
  <2>2. [[over |-> w, objs |-> p, sent |-> n, ok |-> yes] EXCEPT !.objs = u]
          = [over |-> w, objs |-> u, sent |-> n, ok |-> yes]
    OBVIOUS
  <2>3. QED
    BY Zenon, <2>1, <2>2 DEF w, yes, u
<1>4. QED
  BY Zenon, <1>1, <1>2, <1>3 DEF PutInto

(* A charge either fits, and is all that changes, or traps.                 *)
LEMMA Charged ==
  ASSUME NEW d, RoundOk(d), d.st = "run", NEW n \in Nat
  PROVE  /\ RoundOk(Charge(d, n))
         /\ \/ Charge(d, n).st = "trap"
            \/ /\ Charge(d, n).st = "run" /\ Charge(d, n).bytes = d.bytes + n
               /\ Charge(d, n).staged = d.staged /\ Charge(d, n).puts = d.puts
               /\ Charge(d, n).inner = d.inner /\ Charge(d, n).sent = d.sent
               /\ Charge(d, n).memo = d.memo
<1>1. d \in RoundState /\ d.bytes \in Nat /\ MaxHostBytes \in Nat
  BY HostAssumption DEF RoundOk, RoundState
<1>2. CASE d.bytes + n > MaxHostBytes
  <2> DEFINE t == [d EXCEPT !.st = "trap"]
  <2>1. /\ t \in RoundState /\ t.st = "trap" /\ t.bytes = d.bytes /\ t.staged = d.staged
        /\ t.puts = d.puts /\ t.inner = d.inner /\ t.memo = d.memo
    BY <1>1 DEF RoundState
  <2>2. Charge(d, n) = t
    BY <1>2 DEF Charge
  <2> HIDE DEF t
  <2>3. QED
    BY <2>1, <2>2 DEF RoundOk
<1>3. CASE ~(d.bytes + n > MaxHostBytes)
  <2> DEFINE b == d.bytes + n
             t == [d EXCEPT !.bytes = b]
  <2>1. b \in Nat /\ b <= MaxHostBytes /\ d.bytes <= b
    BY <1>1, <1>3
  <2>2. Charge(d, n) = t
    BY <1>3 DEF Charge
  <2> HIDE DEF b
  <2>3. /\ t \in RoundState /\ t.st = "run" /\ t.bytes = b /\ t.staged = d.staged
        /\ t.puts = d.puts /\ t.inner = d.inner /\ t.memo = d.memo /\ t.sent = d.sent
    BY <1>1, <2>1 DEF RoundState
  <2> HIDE DEF t
  <2>4. IsFiniteSet(t.puts) /\ HeldBytes(t.staged, t.puts) <= t.bytes /\ t.bytes <= MaxHostBytes
    <3>1. HeldBytes(d.staged, d.puts) \in Nat
      BY <1>1, HeldGrows DEF RoundOk, RoundState
    <3>2. QED
      BY <1>1, <2>1, <2>3, <3>1 DEF RoundOk
  <2>5. RoundOk(t)
    BY <2>3, <2>4 DEF RoundOk
  <2>6. QED
    BY <2>2, <2>3, <2>5 DEF b
<1>4. QED
  BY <1>2, <1>3

(* state_set: charged for one entry, then in the host's overlay.            *)
LEMMA StateSetOk ==
  ASSUME NEW d, RoundOk(d), d.st = "run", NEW k \in Slot, NEW v \in Datum,
         kind # "store", kind = "odb" => k = Refs /\ v \in d.puts \cup objects,
         kind # "odb" => k # Refs
  PROVE  /\ RoundOk(StateSet(d, k, v))
         /\ StateSet(d, k, v).st = "run" =>
              View(StateSet(d, k, v)) = [View(d) EXCEPT !.over[k] = v]
<1> DEFINE c == Charge(d, 1)
           over == [c.staged EXCEPT ![k] = v]
           t == [c EXCEPT !.staged = over]
<1>1. RoundOk(c)
  BY Charged
<1>2. CASE c.st = "trap"
  BY <1>1, <1>2 DEF StateSet
<1>3. CASE c.st # "trap"
  <2>1. /\ c.st = "run" /\ c.bytes = d.bytes + 1 /\ c.staged = d.staged /\ c.puts = d.puts
        /\ c.inner = d.inner /\ c.sent = d.sent /\ c.memo = d.memo
    BY <1>3, Charged
  <2>2. StateSet(d, k, v) = t
    BY <1>3 DEF StateSet
  <2> HIDE DEF c
  <2>3. over \in Overlay
    BY <1>1 DEF RoundOk, RoundState, Overlay
  <2>4. over[k] = v /\ \A j \in Slot \ {k} : over[j] = d.staged[j]
    BY <1>1, <2>1 DEF RoundOk, RoundState, Overlay
  <2>5. HeldBytes(over, d.puts) <= HeldBytes(d.staged, d.puts) + 1
        /\ HeldBytes(over, d.puts) \in Nat /\ HeldBytes(d.staged, d.puts) \in Nat
    BY <2>1, <2>3, HeldGrows DEF RoundOk, RoundState
  <2> HIDE DEF over
  <2>6. /\ t \in RoundState /\ t.st = "run" /\ t.bytes = c.bytes /\ t.staged = over
        /\ t.puts = d.puts /\ t.inner = d.inner /\ t.memo = d.memo /\ t.sent = d.sent
    BY <1>1, <2>1, <2>3 DEF RoundOk, RoundState
  <2> HIDE DEF t
  <2>7. /\ IsFiniteSet(t.puts) /\ HeldBytes(t.staged, t.puts) <= t.bytes
        /\ t.bytes <= MaxHostBytes
    <3>1. d.bytes \in Nat /\ HeldBytes(d.staged, d.puts) <= d.bytes /\ IsFiniteSet(d.puts)
      BY DEF RoundOk, RoundState
    <3>2. c.bytes <= MaxHostBytes
      BY <1>1 DEF RoundOk
    <3>3. QED
      BY <2>1, <2>5, <2>6, <3>1, <3>2
  <2>8. Lanes(t.staged, t.inner, t.puts) /\ Named(t.staged, t.puts) /\ MemoTrue(t.memo)
    <3>1. Lanes(d.staged, d.inner, d.puts) /\ Named(d.staged, d.puts) /\ MemoTrue(d.memo)
      BY DEF RoundOk
    <3>2. Refs \in Slot /\ Key \subseteq Slot /\ Refs \notin Key
      BY CallsAssumption DEF Slot
    <3>3. QED
      BY <2>4, <2>6, <3>1, <3>2 DEF Lanes, Named
  <2>9. Merge(over, d.inner) = [Merge(d.staged, d.inner) EXCEPT ![k] = v]
    <3>1. d.inner = NoWrites
      BY DEF RoundOk, Lanes
    <3>2. \A j \in Slot : d.inner[j] = Hole
      BY <3>1 DEF NoWrites
    <3>3. Merge(over, d.inner) = [j \in Slot |-> over[j]]
          /\ Merge(d.staged, d.inner) = [j \in Slot |-> d.staged[j]]
      BY <3>2 DEF Merge
    <3>4. QED
      BY <2>4, <3>3
  <2>10. View(t) = [View(d) EXCEPT !.over[k] = v]
    <3> DEFINE m == Merge(d.staged, d.inner)
               p == d.puts
               n == d.sent
    <3>1. /\ View(t) = [over |-> [m EXCEPT ![k] = v], objs |-> p, sent |-> n, ok |-> TRUE]
          /\ View(d) = [over |-> m, objs |-> p, sent |-> n, ok |-> TRUE]
      BY Zenon, <2>6, <2>9 DEF View
    <3> HIDE DEF m, p, n
    <3>2. WriteInto([over |-> m, objs |-> p, sent |-> n, ok |-> TRUE], k, v)
            = [over |-> [m EXCEPT ![k] = v], objs |-> p, sent |-> n, ok |-> TRUE]
      BY ViewWrite
    <3>3. QED
      BY Zenon, <3>1, <3>2 DEF WriteInto
  <2>11. QED
    BY <2>2, <2>6, <2>7, <2>8, <2>10 DEF RoundOk
<1>4. QED
  BY <1>2, <1>3

(* A write of a call: the guest's own overlay over a store, straight to the *)
(* host else.                                                               *)
LEMMA StageOk ==
  ASSUME NEW d, RoundOk(d), d.st = "run", NEW k \in Key, NEW v \in Datum, kind # "odb"
  PROVE  /\ RoundOk(Stage(d, k, v))
         /\ Stage(d, k, v).st = "run" =>
              View(Stage(d, k, v)) = [View(d) EXCEPT !.over[k] = v]
<1>1. k \in Slot /\ k # Refs /\ Refs \in Slot
  BY CallsAssumption DEF Slot
<1>2. CASE kind # "store"
  BY <1>1, <1>2, StateSetOk DEF Stage
<1>3. CASE kind = "store"
  <2> DEFINE inner == [d.inner EXCEPT ![k] = v]
             t == [d EXCEPT !.inner = inner]
  <2>1. /\ inner \in Overlay /\ inner[k] = v /\ inner[Refs] = d.inner[Refs]
        /\ \A j \in Slot \ {k} : inner[j] = d.inner[j]
    BY <1>1 DEF RoundOk, RoundState, Overlay
  <2>2. Stage(d, k, v) = t
    BY <1>3 DEF Stage
  <2> HIDE DEF inner
  <2>3. /\ t \in RoundState /\ t.st = "run" /\ t.bytes = d.bytes /\ t.staged = d.staged
        /\ t.puts = d.puts /\ t.inner = inner /\ t.memo = d.memo /\ t.sent = d.sent
    BY <2>1 DEF RoundOk, RoundState
  <2> HIDE DEF t
  <2>4. Lanes(t.staged, t.inner, t.puts)
    BY <1>3, <2>1, <2>3 DEF RoundOk, Lanes
  <2>5. RoundOk(t)
    BY <2>3, <2>4 DEF RoundOk
  <2>6. Merge(d.staged, inner) = [Merge(d.staged, d.inner) EXCEPT ![k] = v]
    <3>1. v # Hole
      BY CallsAssumption DEF Datum
    <3>2. QED
      BY <1>1, <2>1, <3>1 DEF Merge
  <2>7. View(t) = [View(d) EXCEPT !.over[k] = v]
    <3> DEFINE m == Merge(d.staged, d.inner)
               p == d.puts
               n == d.sent
    <3>1. /\ View(t) = [over |-> [m EXCEPT ![k] = v], objs |-> p, sent |-> n, ok |-> TRUE]
          /\ View(d) = [over |-> m, objs |-> p, sent |-> n, ok |-> TRUE]
      BY Zenon, <2>3, <2>6 DEF View
    <3> HIDE DEF m, p, n
    <3>2. WriteInto([over |-> m, objs |-> p, sent |-> n, ok |-> TRUE], k, v)
            = [over |-> [m EXCEPT ![k] = v], objs |-> p, sent |-> n, ok |-> TRUE]
      BY ViewWrite
    <3>3. QED
      BY Zenon, <3>1, <3>2 DEF WriteInto
  <2>8. QED
    BY <2>2, <2>5, <2>7
<1>4. QED
  BY <1>2, <1>3

(* Stopping a round, spending its fuel and remembering an object read touch *)
(* nothing the native module could see.                                     *)
LEMMA RoundStops ==
  ASSUME NEW d, RoundOk(d), NEW x \in {"trap", "reject"}
  PROVE  RoundOk([d EXCEPT !.st = x]) /\ [d EXCEPT !.st = x].st = x
<1> DEFINE t == [d EXCEPT !.st = x]
<1>1. /\ t \in RoundState /\ t.st = x /\ t.bytes = d.bytes /\ t.staged = d.staged
      /\ t.puts = d.puts /\ t.inner = d.inner /\ t.memo = d.memo
  BY DEF RoundOk, RoundState
<1> HIDE DEF t
<1>2. RoundOk(t)
  BY <1>1 DEF RoundOk
<1>3. QED
  BY <1>1, <1>2 DEF t

(* So does waiting for a read.                                              *)
LEMMA RoundWaits ==
  ASSUME NEW d, RoundOk(d), NEW ks \in SUBSET Slot
  PROVE  RoundOk(Pause(d, [states |-> ks])) /\ Pause(d, [states |-> ks]).st = "pause"
<1> DEFINE read == [states |-> ks]
           u == [d EXCEPT !.st = "pause", !.read = read]
<1>1. read \in Read \cup {None}
  BY DEF Read
<1> HIDE DEF read
<1>2. /\ u \in RoundState /\ u.st = "pause" /\ u.bytes = d.bytes /\ u.staged = d.staged
      /\ u.puts = d.puts /\ u.inner = d.inner /\ u.memo = d.memo
  BY <1>1 DEF RoundOk, RoundState
<1>3. Pause(d, [states |-> ks]) = u
  BY DEF Pause, read
<1> HIDE DEF u
<1>4. RoundOk(u)
  BY <1>2 DEF RoundOk
<1>5. QED
  BY <1>2, <1>3, <1>4

(* One unit of fuel per call.                                              *)
LEMMA FuelSpent ==
  ASSUME NEW d, RoundOk(d), d.st = "run", ~OutOfFuel(d)
  PROVE  /\ RoundOk([d EXCEPT !.fuel = @ - 1]) /\ [d EXCEPT !.fuel = @ - 1].st = "run"
         /\ View([d EXCEPT !.fuel = @ - 1]) = View(d)
<1> DEFINE f == d.fuel - 1
           t == [d EXCEPT !.fuel = f]
<1>1. f \in 0..MaxFuel
  BY HostAssumption DEF RoundOk, RoundState, OutOfFuel
<1> HIDE DEF f
<1>2. /\ t \in RoundState /\ t.st = "run" /\ t.bytes = d.bytes /\ t.staged = d.staged
      /\ t.puts = d.puts /\ t.inner = d.inner /\ t.memo = d.memo /\ t.sent = d.sent
  BY <1>1 DEF RoundOk, RoundState
<1>3. [d EXCEPT !.fuel = @ - 1] = t
  BY DEF f
<1> HIDE DEF t
<1>4. RoundOk(t) /\ View(t) = View(d)
  BY <1>2 DEF RoundOk, View
<1>5. QED
  BY <1>2, <1>3, <1>4

(* The memo of an object read.                                              *)
LEMMA ObjectRead ==
  ASSUME NEW d, RoundOk(d), d.st = "run", NEW o \in Obj
  PROVE  /\ RoundOk([d EXCEPT !.memo.objs = @ \cup {o}])
         /\ [d EXCEPT !.memo.objs = @ \cup {o}].st = "run"
         /\ [d EXCEPT !.memo.objs = @ \cup {o}].puts = d.puts
         /\ View([d EXCEPT !.memo.objs = @ \cup {o}]) = View(d)
<1> DEFINE m == [d.memo EXCEPT !.objs = @ \cup {o}]
           t == [d EXCEPT !.memo = m]
<1>1. m \in Memo /\ m.states = d.memo.states /\ m.sib = d.memo.sib
  BY DEF RoundOk, RoundState, Memo
<1>2. [d EXCEPT !.memo.objs = @ \cup {o}] = t
  OBVIOUS
<1> HIDE DEF m
<1>3. /\ t \in RoundState /\ t.st = "run" /\ t.bytes = d.bytes /\ t.staged = d.staged
      /\ t.puts = d.puts /\ t.inner = d.inner /\ t.memo = m /\ t.sent = d.sent
  BY <1>1 DEF RoundOk, RoundState
<1> HIDE DEF t
<1>4. RoundOk(t) /\ View(t) = View(d)
  BY <1>1, <1>3 DEF RoundOk, View, MemoTrue
<1>5. QED
  BY <1>2, <1>3, <1>4

(* What a read finds, when it finds anything, is what the native module     *)
(* reads: the block's own write, or committed state.                        *)
LEMMA ReadsAgree ==
  ASSUME NEW d, RoundOk(d), Backed, NEW k \in Key
  PROVE  /\ StateGet(d, k) # Hole =>
              StateGet(d, k) = Native!Get(View(d).over, k) /\ StateGet(d, k) \in Datum
         /\ StateGetCommitted(d, k) # Hole =>
              StateGetCommitted(d, k) = Native!GetCommitted(k)
                /\ StateGetCommitted(d, k) \in Datum
<1>1. k \in Slot
  BY DEF Slot
<1>2. /\ d.inner[k] \in Datum \cup {Hole} /\ d.staged[k] \in Datum \cup {Hole}
      /\ d.memo.states[k] \in {Hole, committed[k]} /\ committed[k] \in Datum
  BY <1>1 DEF RoundOk, RoundState, Overlay, MemoTrue, Backed
<1>3. View(d).over[k] = IF d.inner[k] # Hole THEN d.inner[k] ELSE d.staged[k]
  BY <1>1 DEF View, Merge
<1>4. /\ StateGetCommitted(d, k) \in {Hole, committed[k]}
      /\ Native!GetCommitted(k) = committed[k]
  BY <1>2 DEF StateGetCommitted, Native!GetCommitted
<1>5. QED
  BY <1>2, <1>3, <1>4 DEF StateGet, Native!Get

(* object_put: an object and the refs image that names it.                  *)
LEMMA ObjectPutOk ==
  ASSUME NEW d, RoundOk(d), d.st = "run", NEW o \in Obj, kind = "odb"
  PROVE  /\ RoundOk(ObjectPut(d, o))
         /\ ObjectPut(d, o).st = "run" =>
              View(ObjectPut(d, o)) = PutInto(View(d), Refs, o)
<1> DEFINE c == Charge(d, 1)
           p == c.puts \cup {o}
           t == [c EXCEPT !.puts = p]
<1>1. RoundOk(c)
  BY Charged
<1>2. CASE c.st = "trap"
  BY <1>1, <1>2 DEF ObjectPut
<1>3. CASE c.st # "trap"
  <2>1. /\ c.st = "run" /\ c.bytes = d.bytes + 1 /\ c.staged = d.staged /\ c.puts = d.puts
        /\ c.inner = d.inner /\ c.sent = d.sent /\ c.memo = d.memo
    BY <1>3, Charged
  <2>2. ObjectPut(d, o) = StateSet(t, Refs, o)
    BY <1>3 DEF ObjectPut
  <2> HIDE DEF c
  <2>3. p = d.puts \cup {o} /\ p \in SUBSET Obj /\ IsFiniteSet(p) /\ o \in p
    <3>1. IsFiniteSet({o}) /\ IsFiniteSet(d.puts) /\ d.puts \in SUBSET Obj
      BY FS_Singleton DEF RoundOk, RoundState
    <3>2. QED
      BY <2>1, <3>1, FS_Union
  <2>4. /\ HeldBytes(d.staged, p) <= HeldBytes(d.staged, d.puts) + 1
        /\ HeldBytes(d.staged, p) \in Nat /\ HeldBytes(d.staged, d.puts) \in Nat
    BY <2>3, HeldGrows DEF RoundOk, RoundState
  <2> HIDE DEF p
  <2>5. /\ t \in RoundState /\ t.st = "run" /\ t.bytes = c.bytes /\ t.staged = d.staged
        /\ t.puts = p /\ t.inner = d.inner /\ t.memo = d.memo /\ t.sent = d.sent
    BY <1>1, <2>1, <2>3 DEF RoundOk, RoundState
  <2> HIDE DEF t
  <2>6. HeldBytes(t.staged, t.puts) <= t.bytes /\ t.bytes <= MaxHostBytes
    <3>1. d.bytes \in Nat /\ HeldBytes(d.staged, d.puts) <= d.bytes
      BY DEF RoundOk, RoundState
    <3>2. c.bytes <= MaxHostBytes
      BY <1>1 DEF RoundOk
    <3>3. QED
      BY <2>1, <2>4, <2>5, <3>1, <3>2
  <2>7. Lanes(t.staged, t.inner, t.puts) /\ Named(t.staged, t.puts) /\ MemoTrue(t.memo)
    BY <2>3, <2>5 DEF RoundOk, Lanes, Named
  <2>8. RoundOk(t)
    BY <2>3, <2>5, <2>6, <2>7 DEF RoundOk
  <2>9. Refs \in Slot /\ o \in Datum /\ o \in t.puts \cup objects
    BY <2>3, <2>5 DEF Slot, Datum
  <2>10. /\ RoundOk(StateSet(t, Refs, o))
         /\ StateSet(t, Refs, o).st = "run" =>
              View(StateSet(t, Refs, o)) = [View(t) EXCEPT !.over[Refs] = o]
    BY <2>5, <2>8, <2>9, StateSetOk
  <2>11. [View(t) EXCEPT !.over[Refs] = o]
           = PutInto(View(d), Refs, o)
    <3> DEFINE m == Merge(d.staged, d.inner)
               n == d.sent
               q == d.puts
    <3>1. /\ View(t) = [over |-> m, objs |-> p, sent |-> n, ok |-> TRUE]
          /\ View(d) = [over |-> m, objs |-> q, sent |-> n, ok |-> TRUE]
          /\ p = q \cup {o}
      BY Zenon, <2>3, <2>5 DEF View
    <3> HIDE DEF m, n, q
    <3>2. WriteInto([over |-> m, objs |-> p, sent |-> n, ok |-> TRUE], Refs, o)
            = [over |-> [m EXCEPT ![Refs] = o], objs |-> p, sent |-> n, ok |-> TRUE]
      BY ViewWrite
    <3>3. PutInto([over |-> m, objs |-> q, sent |-> n, ok |-> TRUE], Refs, o)
            = [over |-> [m EXCEPT ![Refs] = o], objs |-> q \cup {o}, sent |-> n, ok |-> TRUE]
      BY ViewPut
    <3>4. QED
      BY Zenon, <3>1, <3>2, <3>3 DEF WriteInto
  <2>12. QED
    BY <2>2, <2>10, <2>11
<1>4. QED
  BY <1>2, <1>3

(* An intent handed over.                                                   *)
LEMMA EmitOk ==
  ASSUME NEW d, RoundOk(d), d.st = "run"
  PROVE  /\ RoundOk([Charge(d, 1) EXCEPT !.sent = @ + 1])
         /\ [Charge(d, 1) EXCEPT !.sent = @ + 1].st = "run" =>
              View([Charge(d, 1) EXCEPT !.sent = @ + 1]) = [View(d) EXCEPT !.sent = @ + 1]
<1> DEFINE c == Charge(d, 1)
           n == c.sent + 1
           t == [c EXCEPT !.sent = n]
<1>1. RoundOk(c) /\ c \in RoundState
  BY Charged DEF RoundOk
<1>2. n \in Nat
  <2> HIDE DEF c
  <2>1. QED
    BY <1>1 DEF RoundState
<1>3. [c EXCEPT !.sent = @ + 1] = t
  OBVIOUS
<1>4. c.st = "run" => View(d) = View(c)
  BY Zenon, Charged DEF View
<1> HIDE DEF c
<1>5. View(c).sent + 1 = n
  BY DEF View
<1> HIDE DEF n
<1>6. /\ t \in RoundState /\ t.st = c.st /\ t.bytes = c.bytes /\ t.staged = c.staged
      /\ t.puts = c.puts /\ t.inner = c.inner /\ t.memo = c.memo /\ t.sent = n
  BY <1>1, <1>2 DEF RoundState
<1> HIDE DEF t
<1>7. RoundOk(t)
  BY <1>1, <1>6 DEF RoundOk
<1>8. View(t) = [View(c) EXCEPT !.sent = @ + 1]
  <2> DEFINE yes == TRUE
             m == Merge(c.staged, c.inner)
             p == c.puts
             r == c.sent
  <2>1. View(t) = [over |-> m, objs |-> p, sent |-> n, ok |-> yes]
    BY Zenon, <1>6 DEF View
  <2>2. View(c) = [over |-> m, objs |-> p, sent |-> r, ok |-> yes] /\ n = r + 1
    BY Zenon DEF View, n
  <2> HIDE DEF m, p, r, yes
  <2>3. [[over |-> m, objs |-> p, sent |-> r, ok |-> yes] EXCEPT !.sent = @ + 1]
          = [over |-> m, objs |-> p, sent |-> r + 1, ok |-> yes]
    OBVIOUS
  <2>4. QED
    BY Zenon, <2>1, <2>2, <2>3
<1>9. QED
  BY <1>3, <1>4, <1>6, <1>7, <1>8 DEF c

(* An object named: found among the call's own, the memo's or the           *)
(* published, or the operation is refused.                                  *)
LEMMA LinkOk ==
  ASSUME NEW d, RoundOk(d), d.st = "run", NEW o \in Obj, kind = "odb"
  PROVE  /\ RoundOk(Link(d, o))
         /\ Link(d, o).st = "run" =>
              o \in d.puts \cup objects /\ View(Link(d, o)) = [View(d) EXCEPT !.over[Refs] = o]
<1> DEFINE known == o \in d.puts \cup d.memo.objs
           over == Cardinality(d.memo.objs) >= MaxObjReads \/ MemoBytes(d.memo) >= MaxMemoBytes
           read == IF known THEN d ELSE [d EXCEPT !.memo.objs = @ \cup {o}]
<1>1. RoundOk(read) /\ read.st = "run" /\ read.puts = d.puts /\ View(read) = View(d)
  BY ObjectRead
<1>2. Link(d, o) = IF ~known /\ over THEN [d EXCEPT !.st = "trap"]
                   ELSE IF o \in d.puts \cup objects THEN StateSet(read, Refs, o)
                   ELSE [read EXCEPT !.st = "reject"]
  BY Zenon DEF Link
<1>3. Refs \in Slot /\ o \in Datum
  BY DEF Slot, Datum
<1> HIDE DEF read, known, over
<1>4. CASE Link(d, o) = [d EXCEPT !.st = "trap"]
  BY <1>4, RoundStops
<1>5. CASE Link(d, o) = [read EXCEPT !.st = "reject"]
  BY <1>1, <1>5, RoundStops
<1>6. CASE o \in d.puts \cup objects /\ Link(d, o) = StateSet(read, Refs, o)
  BY <1>1, <1>3, <1>6, StateSetOk
<1>7. QED
  BY <1>2, <1>4, <1>5, <1>6

(* One call of the guest is one step of the native module, unless it stops  *)
(* the round: to trap, to refuse, or to wait for a read.                    *)
LEMMA CallOk ==
  ASSUME Backed, NEW d, RoundOk(d), NEW c \in Stmt(kind)
  PROVE  /\ RoundOk(Call(d, c))
         /\ Call(d, c).st = "run" =>
              d.st = "run" /\ View(Call(d, c)) = Native!Effect(View(d), c)
<1> DEFINE e == [d EXCEPT !.fuel = @ - 1]
           Does(x) == RoundOk(x) /\ (x.st = "run" => View(x) = Native!Effect(View(d), c))
<1>1. CASE d.st # "run"
  BY <1>1 DEF Call
<1>2. CASE d.st = "run" /\ OutOfFuel(d)
  <2>1. Call(d, c) = [d EXCEPT !.st = "trap"]
    BY <1>2 DEF Call
  <2>2. QED
    BY <2>1, RoundStops
<1>3. CASE d.st = "run" /\ ~OutOfFuel(d)
  <2>1. RoundOk(e) /\ e.st = "run" /\ View(e) = View(d)
    BY <1>3, FuelSpent
  <2> DEFINE s == View(d)
  <2>2. s.ok = TRUE /\ s.objs = d.puts
    BY DEF View
  <2>5. ASSUME c.op \in {"reject", "emit"}
        PROVE  RoundOk(Call(d, c)) /\ (Call(d, c).st = "run" =>
                 d.st = "run" /\ View(Call(d, c)) = Native!Effect(View(d), c))
    <3>1. CASE c.op = "reject"
      <4>1. Call(d, c) = [e EXCEPT !.st = "reject"]
        BY <1>3, <3>1 DEF Call
      <4> HIDE DEF e, s
      <4>2. QED
        BY <2>1, <4>1, RoundStops
    <3>2. CASE c.op = "emit"
      <4>1. Call(d, c) = [Charge(e, 1) EXCEPT !.sent = @ + 1]
        BY <1>3, <3>2 DEF Call
      <4>2. Native!Effect(s, c) = [s EXCEPT !.sent = @ + 1]
        BY <2>2, <3>2 DEF Native!Effect
      <4> HIDE DEF e, s
      <4>3. Does([Charge(e, 1) EXCEPT !.sent = @ + 1])
        BY <2>1, <4>2, EmitOk DEF s
      <4>4. QED
        BY <1>3, <4>1, <4>3
    <3>3. QED
      BY <2>5, <3>1, <3>2
  <2>3. CASE kind # "odb"
    <3>1. c \in StateStmt \cup [op : {"reject", "emit"}]
      BY <2>3 DEF Stmt
    <3>2. CASE c.op = "put"
      <4>1. c.to \in Key /\ c.val \in Datum
        BY <3>1, <3>2 DEF StateStmt, Datum
      <4>2. Call(d, c) = Stage(e, c.to, c.val)
        BY <1>3, <3>2 DEF Call
      <4>3. Native!Effect(s, c) = [s EXCEPT !.over[c.to] = c.val]
        BY <2>2, <3>2 DEF Native!Effect
      <4> HIDE DEF e, s
      <4>4. Does(Stage(e, c.to, c.val))
        BY <2>1, <2>3, <4>1, <4>3, StageOk DEF s
      <4>5. QED
        BY <1>3, <4>2, <4>4
    <3>3. CASE c.op = "copy"
      <4>1. c.to \in Key /\ c.from \in Key /\ c.from \in Slot
        BY <3>1, <3>3 DEF StateStmt, Slot
      <4> DEFINE v == StateGet(e, c.from)
      <4>2. Call(d, c) = IF v = Hole THEN Pause(e, [states |-> {c.from}]) ELSE Stage(e, c.to, v)
        BY <1>3, <3>3 DEF Call, StageRead
      <4>3. Native!Effect(s, c) = [s EXCEPT !.over[c.to] = Native!Get(s.over, c.from)]
        BY <2>2, <3>3 DEF Native!Effect
      <4>4. v # Hole => v = Native!Get(s.over, c.from) /\ v \in Datum
        BY <2>1, <4>1, ReadsAgree
      <4> HIDE DEF e, s, v
      <4>5. CASE v = Hole
        BY <1>3, <2>1, <4>1, <4>2, <4>5, RoundWaits
      <4>6. CASE v # Hole
        <5>1. Does(Stage(e, c.to, v))
          BY <2>1, <2>3, <4>1, <4>3, <4>4, <4>6, StageOk DEF s
        <5>2. QED
          BY <1>3, <4>2, <4>6, <5>1
      <4>7. QED
        BY <4>5, <4>6
    <3>4. CASE c.op = "frozen"
      <4>1. c.to \in Key /\ c.from \in Key /\ c.from \in Slot
        BY <3>1, <3>4 DEF StateStmt, Slot
      <4> DEFINE v == StateGetCommitted(e, c.from)
      <4>2. Call(d, c) = IF v = Hole THEN Pause(e, [states |-> {c.from}]) ELSE Stage(e, c.to, v)
        BY <1>3, <3>4 DEF Call, StageRead
      <4>3. Native!Effect(s, c) = [s EXCEPT !.over[c.to] = Native!GetCommitted(c.from)]
        BY <2>2, <3>4 DEF Native!Effect
      <4>4. v # Hole => v = Native!GetCommitted(c.from) /\ v \in Datum
        BY <2>1, <4>1, ReadsAgree
      <4> HIDE DEF e, s, v
      <4>5. CASE v = Hole
        BY <1>3, <2>1, <4>1, <4>2, <4>5, RoundWaits
      <4>6. CASE v # Hole
        <5>1. Does(Stage(e, c.to, v))
          BY <2>1, <2>3, <4>1, <4>3, <4>4, <4>6, StageOk DEF s
        <5>2. QED
          BY <1>3, <4>2, <4>6, <5>1
      <4>7. QED
        BY <4>5, <4>6
    <3>5. CASE c.op = "ask"
      <4>1. c.to \in Key
        BY <3>1, <3>5 DEF StateStmt
      <4>2. Call(d, c) = Ask(e, c.to)
        BY <1>3, <3>5 DEF Call
      <4>3. Native!Effect(s, c) = [s EXCEPT !.over[c.to] = answer]
        BY <2>2, <3>5 DEF Native!Effect
      <4>4. e.memo.sib \in {Hole, answer} /\ answer \in Datum
        BY <2>1 DEF RoundOk, MemoTrue, Backed, Reply, Datum
      <4> HIDE DEF e, s
      <4>5. CASE e.memo.sib = Hole
        <5>1. Call(d, c) = IF e.sealed THEN [e EXCEPT !.st = "reject"]
                           ELSE Pause(e, [states |-> {}])
          BY <4>2, <4>5 DEF Ask
        <5>2. {} \in SUBSET Slot
          OBVIOUS
        <5>3. CASE e.sealed
          BY <1>3, <2>1, <5>1, <5>3, RoundStops
        <5>4. CASE ~ e.sealed
          BY <1>3, <2>1, <5>1, <5>2, <5>4, RoundWaits
        <5>5. QED
          BY <5>3, <5>4
      <4>6. CASE e.memo.sib # Hole
        <5>1. Call(d, c) = Stage(e, c.to, answer)
          BY <4>2, <4>4, <4>6 DEF Ask
        <5>2. Does(Stage(e, c.to, answer))
          BY <2>1, <2>3, <4>1, <4>3, <4>4, StageOk DEF s
        <5>3. QED
          BY <1>3, <5>1, <5>2
      <4>7. QED
        BY <4>5, <4>6
    <3>6. CASE c.op = "prefetch"
      <4>1. c.keys = Key /\ Cardinality(Key) \in Nat
        BY <3>1, <3>6, HostAssumption, FS_CardinalityType DEF StateStmt
      <4> DEFINE g == Charge(e, Cardinality(c.keys))
                 missing == {k \in c.keys : e.memo.states[k] = Hole}
      <4>2. Call(d, c) = Prefetch(e, c.keys)
        BY <1>3, <3>6 DEF Call
      <4>3. Native!Effect(s, c) = s
        BY <2>2, <3>6 DEF Native!Effect
      <4>4. RoundOk(g) /\ (g.st = "run" => View(g) = s)
        BY <2>1, <4>1, Charged DEF View
      <4>5. missing \in SUBSET Slot
        BY <4>1 DEF Slot
      <4>6. Prefetch(e, c.keys) \in
              {g, [g EXCEPT !.st = "trap"], Pause(g, [states |-> missing])}
        BY DEF Prefetch
      <4> HIDE DEF e, s, g, missing
      <4>7. CASE Call(d, c) = g
        BY <1>3, <4>3, <4>4, <4>7 DEF s
      <4>8. CASE Call(d, c) = [g EXCEPT !.st = "trap"]
        BY <1>3, <4>4, <4>8, RoundStops
      <4>9. CASE Call(d, c) = Pause(g, [states |-> missing])
        BY <1>3, <4>4, <4>5, <4>9, RoundWaits
      <4>10. QED
        BY <4>2, <4>6, <4>7, <4>8, <4>9
    <3>7. QED
      BY <2>5, <3>1, <3>2, <3>3, <3>4, <3>5, <3>6 DEF StateStmt
  <2>4. CASE kind = "odb"
    <3>1. c \in ObjectStmt \cup [op : {"reject", "emit"}]
      BY <2>4 DEF Stmt
    <3>2. CASE c.op = "put_object"
      <4>1. c.obj \in Obj
        BY <3>1, <3>2 DEF ObjectStmt
      <4>2. Call(d, c) = ObjectPut(e, c.obj)
        BY <1>3, <3>2 DEF Call
      <4>3. Native!Effect(s, c) = PutInto(s, Refs, c.obj)
        BY Zenon, <2>2, <3>2 DEF Native!Effect, PutInto
      <4> HIDE DEF e, s
      <4>4. Does(ObjectPut(e, c.obj))
        BY <2>1, <2>4, <4>1, <4>3, ObjectPutOk DEF s
      <4>5. QED
        BY <1>3, <4>2, <4>4
    <3>3. CASE c.op = "link"
      <4>1. c.obj \in Obj
        BY <3>1, <3>3 DEF ObjectStmt
      <4>2. Call(d, c) = Link(e, c.obj)
        BY <1>3, <3>3 DEF Call
      <4>3. Native!Effect(s, c) = IF c.obj \in s.objs \cup objects
                                  THEN [s EXCEPT !.over[Refs] = c.obj]
                                  ELSE [s EXCEPT !.ok = FALSE]
        BY <2>2, <3>3 DEF Native!Effect
      <4>4. s.objs = View(e).objs /\ View(e).objs = e.puts
        BY <2>1 DEF View
      <4> HIDE DEF e, s
      <4>5. Does(Link(e, c.obj))
        BY <2>1, <2>4, <4>1, <4>3, <4>4, LinkOk DEF s
      <4>6. QED
        BY <1>3, <4>2, <4>5
    <3>4. QED
      BY <2>5, <3>1, <3>2, <3>3 DEF ObjectStmt
  <2>6. QED
    BY <2>3, <2>4
<1>4. QED
  BY <1>1, <1>2, <1>3

(* The guest's commit_batch folds its overlay into the host's, or traps.    *)
LEMMA FlushOk ==
  ASSUME NEW d, RoundOk(d)
  PROVE  /\ Flush(d) \in RoundState /\ MemoTrue(Flush(d).memo)
         /\ Flush(d).st = "run" =>
              /\ d.st = "run" /\ Flush(d).staged = View(d).over /\ Flush(d).puts = d.puts
              /\ Flush(d).sent = d.sent
              /\ HeldBytes(View(d).over, d.puts) <= MaxHostBytes
<1> DEFINE written == Written(d.inner)
           c == Charge(d, Cardinality(written))
           over == Merge(c.staged, d.inner)
           t == [c EXCEPT !.staged = over]
<1>1. /\ d \in RoundState /\ d.staged \in Overlay /\ d.inner \in Overlay
      /\ IsFiniteSet(d.puts) /\ MemoTrue(d.memo)
  BY DEF RoundOk, RoundState
<1>2. /\ Cardinality(written) \in Nat
      /\ HeldBytes(d.staged, d.puts) \in Nat
      /\ HeldBytes(Merge(d.staged, d.inner), d.puts)
           <= HeldBytes(d.staged, d.puts) + Cardinality(written)
  BY <1>1, HeldGrows
<1>3. HeldBytes(Merge(d.staged, d.inner), d.puts) \in Nat
  <2>1. Merge(d.staged, d.inner) \in Overlay
    BY <1>1 DEF Merge, Overlay
  <2>2. QED
    BY <1>1, <2>1, HeldGrows
<1>4. View(d).over = Merge(d.staged, d.inner)
  BY DEF View
<1>5. HeldBytes(d.staged, d.puts) <= d.bytes /\ d.bytes <= MaxHostBytes
      /\ d.bytes \in Nat /\ MaxHostBytes \in Nat
  BY <1>1, HostAssumption DEF RoundOk, RoundState
<1>6. Flush(d) = IF d.st # "run" \/ kind # "store" THEN d ELSE IF c.st = "trap" THEN c ELSE t
  BY Zenon DEF Flush, Written
<1>7. CASE d.st # "run"
  BY <1>1, <1>6, <1>7
<1>8. CASE d.st = "run" /\ kind # "store"
  <2>1. d.inner = NoWrites
    BY <1>8 DEF RoundOk, Lanes
  <2>2. Merge(d.staged, d.inner) = d.staged
    BY <1>1, <2>1 DEF Merge, NoWrites, Overlay
  <2>3. QED
    BY <1>1, <1>2, <1>4, <1>5, <1>6, <1>8, <2>2
<1>9. CASE d.st = "run" /\ kind = "store"
  <2>1. /\ RoundOk(c)
        /\ \/ c.st = "trap"
           \/ /\ c.st = "run" /\ c.bytes = d.bytes + Cardinality(written)
              /\ c.staged = d.staged /\ c.puts = d.puts
              /\ c.inner = d.inner /\ c.sent = d.sent /\ c.memo = d.memo
    BY <1>2, <1>9, Charged
  <2> HIDE DEF c, written
  <2>2. CASE c.st = "trap"
    BY <1>6, <1>9, <2>1, <2>2 DEF RoundOk
  <2>3. CASE c.st # "trap"
    <3>1. c \in RoundState /\ c.bytes <= MaxHostBytes
      BY <2>1 DEF RoundOk
    <3>2. over \in Overlay /\ over = View(d).over
      BY <1>1, <1>4, <2>1, <2>3 DEF Merge, Overlay
    <3> HIDE DEF over
    <3>3. /\ t \in RoundState /\ t.staged = over /\ t.puts = d.puts /\ t.sent = d.sent
          /\ t.memo = d.memo
      BY <2>1, <2>3, <3>1, <3>2 DEF RoundState
    <3>4. Flush(d) = t
      BY <1>6, <1>9, <2>3
    <3> HIDE DEF t
    <3>5. HeldBytes(View(d).over, d.puts) <= MaxHostBytes
      BY <1>2, <1>3, <1>4, <1>5, <2>1, <2>3, <3>1
    <3>6. QED
      BY <1>1, <1>9, <3>2, <3>3, <3>4, <3>5
  <2>4. QED
    BY <2>2, <2>3
<1>10. QED
  BY <1>7, <1>8, <1>9

------------------------------------------------------------------------------
(* A program, run *)

(* Induction as a fact about one set of numbers.                            *)
LEMMA NatSet ==
  ASSUME NEW S, 0 \in S, \A n \in Nat : n \in S => n + 1 \in S
  PROVE  Nat \subseteq S
<1> DEFINE T == Nat \ S
<1>1. SUFFICES ASSUME T # {} PROVE FALSE
  OBVIOUS
<1>2. PICK x \in T : \A y \in T : ~ (<<y, x>> \in OpToRel(<, Nat))
  BY <1>1, WFMin, NatLessThanWellFounded
<1>3. x \in Nat /\ x # 0
  OBVIOUS
<1>4. x - 1 \in Nat /\ x - 1 < x /\ (x - 1) + 1 = x
  BY <1>3
<1>5. x - 1 \in T
  BY <1>3, <1>4
<1>6. QED
  BY <1>2, <1>4, <1>5 DEF OpToRel

IsRounds(f, r, n) ==
  f = [i \in 0..n |-> IF i = 0 THEN StartOf(r) ELSE Call(f[i - 1], r.prog[i])]

(* A guest's round goes through its calls in order.                         *)
LEMMA RoundsExist ==
  ASSUME NEW r
  PROVE  \A n \in Nat : \E f : IsRounds(f, r, n)
<1> DEFINE S == {n \in Nat : \E f : IsRounds(f, r, n)}
<1>1. 0 \in S
  <2> DEFINE g == [i \in 0..0 |-> StartOf(r)]
  <2>1. IsRounds(g, r, 0)
    BY DEF IsRounds
  <2>2. QED
    BY <2>1
<1>2. ASSUME NEW n \in Nat, n \in S
      PROVE  n + 1 \in S
  <2>1. PICK f : IsRounds(f, r, n)
    BY <1>2
  <2> DEFINE g == [i \in 0..n + 1 |-> IF i = n + 1 THEN Call(f[n], r.prog[n + 1]) ELSE f[i]]
  <2>2. ASSUME NEW i \in 0..n + 1
        PROVE  g[i] = IF i = 0 THEN StartOf(r) ELSE Call(g[i - 1], r.prog[i])
    BY <2>1 DEF IsRounds
  <2>3. IsRounds(g, r, n + 1)
    BY <2>2 DEF IsRounds
  <2>4. QED
    BY <2>3
<1>3. QED
  BY <1>1, <1>2, NatSet

RoundBy(f, r) ==
  /\ f[0] = StartOf(r)
  /\ \A i \in 1..Len(r.prog) : f[i] = Call(f[i - 1], r.prog[i])
  /\ RoundFrom(r) = Flush(f[Len(r.prog)])

(* ... and what RoundFrom computes is the end of them, flushed.             *)
LEMMA RoundRuns ==
  ASSUME NEW r, Len(r.prog) \in Nat
  PROVE  \E f : RoundBy(f, r)
<1> DEFINE f == CHOOSE f : IsRounds(f, r, Len(r.prog))
<1>1. IsRounds(f, r, Len(r.prog))
  BY RoundsExist
<1>2. RoundFrom(r) = Flush(f[Len(r.prog)])
  BY DEF RoundFrom, IsRounds
<1> HIDE DEF f
<1>3. f[0] = StartOf(r) /\ \A i \in 1..Len(r.prog) : f[i] = Call(f[i - 1], r.prog[i])
  BY <1>1 DEF IsRounds
<1>4. QED
  BY <1>2, <1>3 DEF RoundBy

NativeStart ==
  [over |-> IF phase = "broken" THEN NoWrites ELSE IF run = None THEN staged ELSE run.staged,
   objs |-> IF phase = "broken" THEN {}
            ELSE (IF run = None THEN puts ELSE run.puts) \cup dirty,
   sent |-> 0, ok |-> TRUE]

IsEffects(f, prog, n) ==
  f = [i \in 0..n |-> IF i = 0 THEN NativeStart ELSE Native!Effect(f[i - 1], prog[i])]

(* So does the native module's.                                             *)
LEMMA EffectsExist ==
  ASSUME NEW prog
  PROVE  \A n \in Nat : \E f : IsEffects(f, prog, n)
<1> DEFINE S == {n \in Nat : \E f : IsEffects(f, prog, n)}
<1>1. 0 \in S
  <2> DEFINE g == [i \in 0..0 |-> NativeStart]
  <2>1. IsEffects(g, prog, 0)
    BY DEF IsEffects
  <2>2. QED
    BY <2>1
<1>2. ASSUME NEW n \in Nat, n \in S
      PROVE  n + 1 \in S
  <2>1. PICK f : IsEffects(f, prog, n)
    BY <1>2
  <2> DEFINE g == [i \in 0..n + 1 |->
                     IF i = n + 1 THEN Native!Effect(f[n], prog[n + 1]) ELSE f[i]]
  <2>2. ASSUME NEW i \in 0..n + 1
        PROVE  g[i] = IF i = 0 THEN NativeStart ELSE Native!Effect(g[i - 1], prog[i])
    BY <2>1 DEF IsEffects
  <2>3. IsEffects(g, prog, n + 1)
    BY <2>2 DEF IsEffects
  <2>4. QED
    BY <2>3
<1>3. QED
  BY <1>1, <1>2, NatSet

NativeBy(f, prog) ==
  /\ f[0] = NativeStart
  /\ \A i \in 1..Len(prog) : f[i] = Native!Effect(f[i - 1], prog[i])
  /\ Native!Run(prog) = f[Len(prog)]

(* ... and Run is the end of it.                                            *)
LEMMA NativeRuns ==
  ASSUME NEW prog, Len(prog) \in Nat
  PROVE  \E f : NativeBy(f, prog)
<1> DEFINE f == CHOOSE f : IsEffects(f, prog, Len(prog))
<1>1. IsEffects(f, prog, Len(prog))
  BY EffectsExist
<1>2. Native!Run(prog) = f[Len(prog)]
  BY DEF Native!Run, IsEffects, NativeStart
<1> HIDE DEF f
<1>3. f[0] = NativeStart /\ \A i \in 1..Len(prog) : f[i] = Native!Effect(f[i - 1], prog[i])
  BY <1>1 DEF IsEffects
<1>4. QED
  BY <1>2, <1>3 DEF NativeBy

------------------------------------------------------------------------------
(* The inductive invariant *)

Over == IF run = None THEN staged ELSE run.staged
Objs == IF run = None THEN puts ELSE run.puts

(* A call runs in an open block, over a stage it has taken, and what it has *)
(* been told is still so.                                                   *)
CallInv ==
  run # None => /\ staged = NoWrites /\ puts = {} /\ phase \in {"new", "open"} /\ env # None
                /\ run.prog \in Programs[kind] /\ MemoTrue(run.memo)

(* What the block holds, under the ceiling and on its own lane.             *)
StageInv ==
  /\ IsFiniteSet(Objs) /\ HeldBytes(Over, Objs) <= MaxHostBytes
  /\ Lanes(Over, NoWrites, Objs)
  /\ kind # "odb" => dirty = {} /\ committed[Refs] = None

(* Refs name objects that are published, or that this block publishes first *)
(* unless its publication has already failed.                               *)
NamesInv ==
  /\ RefsReadable
  /\ phase # "broken" => dirty = {} /\ Named(Over, Objs)

PhaseInv ==
  /\ phase = "adopt" => Objs = {} /\ kind = "odb" /\ env # None
  /\ phase = "publish" => env # None
  /\ env \in {None, height} /\ (phase = "new" => height = 0)
  /\ (phase = "open" /\ run = None /\ env = None) => staged = NoWrites /\ puts = {}

HInv == TypeOK /\ CallInv /\ StageInv /\ NamesInv /\ PhaseInv

(* The merge of two overlays keeps to their lanes.                          *)
LEMMA ViewLanes ==
  ASSUME NEW d, RoundOk(d)
  PROVE  /\ View(d).over \in Overlay /\ Lanes(View(d).over, NoWrites, d.puts)
         /\ Named(View(d).over, d.puts) /\ IsFiniteSet(d.puts) /\ d.puts \subseteq Obj
<1>1. /\ d.staged \in Overlay /\ d.inner \in Overlay /\ d.puts \subseteq Obj
      /\ Lanes(d.staged, d.inner, d.puts) /\ Named(d.staged, d.puts) /\ IsFiniteSet(d.puts)
  BY DEF RoundOk, RoundState
<1>2. View(d).over = Merge(d.staged, d.inner)
  BY DEF View
<1>3. Refs \in Slot /\ Key \subseteq Slot
  BY DEF Slot
<1>4. Merge(d.staged, d.inner) \in Overlay
  BY <1>1 DEF Merge, Overlay
<1>5. \A k \in Slot : Merge(d.staged, d.inner)[k] =
        IF d.inner[k] # Hole THEN d.inner[k] ELSE d.staged[k]
  BY DEF Merge
<1>6. \A k \in Slot : NoWrites[k] = Hole
  BY DEF NoWrites
<1>7. d.inner[Refs] = Hole
  BY <1>1, <1>3, <1>6 DEF Lanes
<1>8. kind = "odb" => \A k \in Key : d.inner[k] = Hole
  BY <1>1, <1>3, <1>6 DEF Lanes
<1>9. Lanes(Merge(d.staged, d.inner), NoWrites, d.puts)
  BY <1>1, <1>3, <1>5, <1>6, <1>7, <1>8 DEF Lanes
<1>10. Named(Merge(d.staged, d.inner), d.puts)
  BY <1>1, <1>3, <1>5, <1>7 DEF Named
<1>11. QED
  BY <1>1, <1>2, <1>4, <1>9, <1>10

(* A call starts its round from the stage it took.                          *)
LEMMA StartRound ==
  ASSUME HInv, run # None, run.read = None
  PROVE  RoundOk(StartOf(run)) /\ StartOf(run).st = "run" /\ View(StartOf(run)) = NativeStart
<1>1. /\ run \in CallRun /\ run.staged \in Overlay /\ run.puts \in SUBSET Obj
      /\ run.memo \in Memo /\ run.fuel \in 0..MaxFuel /\ run.sealed \in BOOLEAN
      /\ run.read \in Read \cup {None}
  BY DEF HInv, TypeOK, CallRun
<1>2. /\ IsFiniteSet(run.puts) /\ HeldBytes(run.staged, run.puts) <= MaxHostBytes
      /\ Lanes(run.staged, NoWrites, run.puts) /\ MemoTrue(run.memo)
      /\ Named(run.staged, run.puts) /\ dirty = {} /\ phase # "broken"
  BY DEF HInv, CallInv, StageInv, NamesInv, Over, Objs
<1>3. HeldBytes(run.staged, run.puts) \in Nat
  BY <1>1, <1>2, HeldGrows
<1>4. NoWrites \in Overlay
  BY DEF NoWrites, Overlay
<1> DEFINE d == StartOf(run)
<1>5. /\ d \in RoundState /\ d.staged = run.staged /\ d.puts = run.puts /\ d.inner = NoWrites
      /\ d.memo = run.memo /\ d.bytes = HeldBytes(run.staged, run.puts) /\ d.st = "run"
      /\ d.sent = 0
  BY <1>1, <1>3, <1>4 DEF StartOf, StartBytes, RoundState
<1> HIDE DEF d
<1>6. RoundOk(d)
  <2>1. HeldBytes(d.staged, d.puts) <= d.bytes /\ d.bytes <= MaxHostBytes
    BY <1>2, <1>3, <1>5
  <2>2. QED
    BY <1>2, <1>5, <2>1 DEF RoundOk
<1>7. Merge(run.staged, NoWrites) = run.staged
  BY <1>1 DEF Merge, NoWrites, Overlay
<1>8. NativeStart = [over |-> run.staged, objs |-> run.puts, sent |-> 0, ok |-> TRUE]
  <2>1. /\ (IF phase = "broken" THEN NoWrites ELSE IF run = None THEN staged ELSE run.staged)
             = run.staged
        /\ (IF phase = "broken" THEN {} ELSE (IF run = None THEN puts ELSE run.puts) \cup dirty)
             = run.puts
    BY <1>2
  <2>2. QED
    BY Zenon, <2>1 DEF NativeStart
<1>9. View(d) = NativeStart
  BY Zenon, <1>5, <1>7, <1>8 DEF View
<1>10. QED
  BY <1>5, <1>6, <1>9 DEF d

(* The round that ends a call has run the logic once, from the stage the    *)
(* call took, as the native module runs it; whatever a round met on the way *)
(* is within the budgets and on its lane.                                   *)
LEMMA RoundAgrees ==
  ASSUME HInv, run # None, run.read = None
  PROVE  /\ RoundFrom(run) \in RoundState /\ MemoTrue(RoundFrom(run).memo)
         /\ RoundFrom(run).st = "run" =>
              /\ Native!Run(run.prog) =
                   [over |-> RoundFrom(run).staged, objs |-> RoundFrom(run).puts,
                    sent |-> RoundFrom(run).sent, ok |-> TRUE]
              /\ HeldBytes(RoundFrom(run).staged, RoundFrom(run).puts) <= MaxHostBytes
              /\ IsFiniteSet(RoundFrom(run).puts)
              /\ Lanes(RoundFrom(run).staged, NoWrites, RoundFrom(run).puts)
              /\ Named(RoundFrom(run).staged, RoundFrom(run).puts)
<1> DEFINE prog == run.prog
           last == Len(prog)
<1>1. /\ last \in Nat /\ \A i \in 1..last : prog[i] \in Stmt(kind)
  <2>1. prog \in Seq(Stmt(kind))
    BY CallsAssumption DEF HInv, CallInv, TypeOK
  <2>2. QED
    BY <2>1
<1>2. Backed
  BY DEF HInv, TypeOK, Backed
<1>3. PICK f : RoundBy(f, run)
  BY <1>1, RoundRuns
<1>4. PICK g : NativeBy(g, run.prog)
  BY <1>1, NativeRuns
<1>5. /\ f[0] = StartOf(run) /\ \A i \in 1..last : f[i] = Call(f[i - 1], prog[i])
      /\ RoundFrom(run) = Flush(f[last])
      /\ g[0] = NativeStart /\ \A i \in 1..last : g[i] = Native!Effect(g[i - 1], prog[i])
      /\ Native!Run(prog) = g[last]
  BY <1>3, <1>4 DEF RoundBy, NativeBy
<1> HIDE DEF prog, last
<1> DEFINE Alike(n) == RoundOk(f[n]) /\ (f[n].st = "run" => View(f[n]) = g[n])
           S == {n \in Nat : n \in 0..last => Alike(n)}
<1>6. 0 \in S
  BY <1>5, StartRound
<1>7. ASSUME NEW n \in Nat, n \in S
      PROVE  n + 1 \in S
  <2>1. SUFFICES ASSUME n + 1 \in 0..last
                 PROVE  Alike(n + 1)
    OBVIOUS
  <2>2. n + 1 \in 1..last /\ n \in 0..last /\ (n + 1) - 1 = n
    BY <1>1, <2>1
  <2>3. f[n + 1] = Call(f[n], prog[n + 1]) /\ g[n + 1] = Native!Effect(g[n], prog[n + 1])
        /\ prog[n + 1] \in Stmt(kind)
    BY <1>1, <1>5, <2>2
  <2>4. RoundOk(f[n]) /\ (f[n].st = "run" => View(f[n]) = g[n])
    BY <1>7, <2>2
  <2>5. /\ RoundOk(f[n + 1])
        /\ f[n + 1].st = "run" =>
             f[n].st = "run" /\ View(f[n + 1]) = Native!Effect(View(f[n]), prog[n + 1])
    BY <1>2, <2>3, <2>4, CallOk
  <2>6. QED
    BY <2>3, <2>4, <2>5
<1>8. Nat \subseteq S
  <2> HIDE DEF S
  <2>1. QED
    BY <1>6, <1>7, NatSet
<1>9. RoundOk(f[last]) /\ (f[last].st = "run" => View(f[last]) = g[last])
  <2>1. last \in 0..last
    BY <1>1
  <2>2. QED
    BY <1>1, <1>8, <2>1
<1> DEFINE d == f[last]
<1>10. /\ View(d).over \in Overlay /\ Lanes(View(d).over, NoWrites, d.puts)
       /\ Named(View(d).over, d.puts) /\ IsFiniteSet(d.puts)
  BY <1>9, ViewLanes
<1>11. View(d) = [over |-> View(d).over, objs |-> d.puts, sent |-> d.sent, ok |-> TRUE]
  BY Zenon DEF View
<1> HIDE DEF d
<1>12. /\ Flush(d) \in RoundState /\ MemoTrue(Flush(d).memo)
       /\ Flush(d).st = "run" =>
            /\ d.st = "run" /\ Flush(d).staged = View(d).over /\ Flush(d).puts = d.puts
            /\ Flush(d).sent = d.sent
            /\ HeldBytes(View(d).over, d.puts) <= MaxHostBytes
  BY <1>9, FlushOk DEF d
<1>13. RoundFrom(run) = Flush(d) /\ Native!Run(run.prog) = g[last]
  BY <1>5 DEF d, prog
<1>14. d.st = "run" => View(d) = g[last]
  BY <1>9 DEF d
<1>15. ASSUME Flush(d).st = "run"
       PROVE  Native!Run(run.prog) =
                [over |-> Flush(d).staged, objs |-> Flush(d).puts,
                 sent |-> Flush(d).sent, ok |-> TRUE]
  BY Zenon, <1>11, <1>12, <1>13, <1>14, <1>15
<1>16. QED
  BY <1>10, <1>12, <1>13, <1>15

(* An empty block weighs nothing.                                           *)
LEMMA Blank ==
  /\ NoWrites \in Overlay /\ \A k \in Slot : NoWrites[k] = Hole
  /\ HeldBytes(NoWrites, {}) = 0 /\ 0 <= MaxHostBytes /\ IsFiniteSet({})
  /\ Refs \in Slot /\ Key \subseteq Slot
<1>1. Written(NoWrites) = {}
  BY DEF Written, NoWrites
<1>2. Cardinality({}) = 0 /\ IsFiniteSet({})
  BY FS_EmptySet
<1>3. HeldBytes(NoWrites, {}) = 0
  BY <1>1, <1>2 DEF HeldBytes, Written
<1>4. QED
  BY <1>2, <1>3, HostAssumption DEF NoWrites, Overlay, Slot

(* Every way back to an idle, empty block: what is left to check is the     *)
(* committed state.                                                         *)
LEMMA Cleared ==
  ASSUME TypeOK', RefsReadable', run' = None, staged' = NoWrites, puts' = {}, dirty' = {},
         env' = None, phase' = "open", kind' # "odb" => committed'[Refs] = None
  PROVE  HInv'
<1>1. Over' = NoWrites /\ Objs' = {}
  BY DEF Over, Objs
<1>2. CallInv' /\ PhaseInv'
  BY <1>1 DEF CallInv, PhaseInv
<1>3. StageInv'
  BY <1>1, Blank DEF StageInv, Lanes
<1>4. NamesInv'
  BY <1>1, Blank DEF NamesInv, Named
<1>5. QED
  BY <1>2, <1>3, <1>4 DEF HInv

(* What is known of a call in progress.                                     *)
LEMMA InCall ==
  ASSUME HInv, run # None
  PROVE  /\ run \in CallRun /\ run.prog \in Programs[kind] /\ MemoTrue(run.memo)
         /\ staged = NoWrites /\ puts = {} /\ dirty = {} /\ phase \in {"new", "open"}
         /\ env # None /\ env = height /\ Over = run.staged /\ Objs = run.puts
  BY DEF HInv, TypeOK, CallInv, NamesInv, PhaseInv, Over, Objs

(* A refused call gives its stage back.                                     *)
LEMMA RefuseKeeps ==
  ASSUME HInv, run # None, Refuse
  PROVE  HInv'
<1>1. /\ run \in CallRun /\ dirty = {} /\ phase \in {"new", "open"}
      /\ env # None /\ Over = run.staged /\ Objs = run.puts
  BY InCall
<1>2. /\ staged' = run.staged /\ puts' = run.puts /\ run' = None
      /\ phase' = (IF phase = "new" THEN "new" ELSE "failed")
      /\ UNCHANGED <<kind, committed, objects, dirty, stamp, env, height, intents, answer>>
  BY DEF Refuse, Restore, backing
<1>3. TypeOK'
  BY <1>1, <1>2 DEF HInv, TypeOK, CallRun
<1>4. Over' = Over /\ Objs' = Objs
  BY <1>1, <1>2 DEF Over, Objs
<1>5. CallInv' /\ PhaseInv'
  BY <1>1, <1>2, <1>4 DEF HInv, CallInv, PhaseInv
<1>6. StageInv'
  BY <1>2, <1>4 DEF HInv, StageInv, Lanes
<1>7. NamesInv'
  BY <1>1, <1>2, <1>4 DEF HInv, NamesInv, Named, RefsReadable
<1>8. QED
  BY <1>3, <1>5, <1>6, <1>7 DEF HInv

(* A call takes the stage.                                                  *)
LEMMA StartKeeps ==
  ASSUME HInv, NEW prog \in Programs[kind],
         NEW call \in {"initialize", "execute", "acknowledge", "finalize"},
         Start(call, prog), phase \in {"new", "open"},
         call \in Dispatched \/ phase = "new" \/ env # None
  PROVE  /\ HInv' /\ run' \in CallRun /\ run'.prog = prog
         /\ run'.staged = staged /\ run'.puts = puts
<1> DEFINE r == [call |-> call, prog |-> prog, sealed |-> call \notin Dispatched,
                 staged |-> staged, puts |-> puts, memo |-> NoMemo, fuel |-> MaxFuel,
                 read |-> None]
<1>1. /\ run = None /\ run' = r /\ staged' = NoWrites /\ puts' = {} /\ env' = BlockEnv(call)
      /\ UNCHANGED <<kind, committed, objects, dirty, stamp, phase, height, intents, answer>>
  BY DEF Start, backing
<1>2. /\ kind \in Kind /\ staged \in Overlay /\ puts \in SUBSET Obj /\ height \in Nat
      /\ env \in Nat \cup {None}
  BY DEF HInv, TypeOK
<1>3. NoMemo \in Memo /\ NoMemo.states = NoWrites /\ NoMemo.sib = Hole
  BY Blank DEF NoMemo, Memo
<1>4. /\ r \in CallRun /\ r.prog = prog /\ r.staged = staged /\ r.puts = puts
      /\ r.memo = NoMemo
  BY <1>2, <1>3, HostAssumption DEF CallRun
<1> HIDE DEF r
<1>5. r # None
  BY <1>4, NoneAssumption
<1>6. env' = height
  BY <1>1 DEF HInv, PhaseInv, BlockEnv
<1>7. height # None
  BY <1>2, NoneAssumption
<1>8. TypeOK'
  BY <1>1, <1>2, <1>4, <1>6, Blank DEF HInv, TypeOK
<1>9. Over' = Over /\ Objs' = Objs
  BY <1>1, <1>4, <1>5 DEF Over, Objs
<1>10. CallInv'
  BY <1>1, <1>3, <1>4, <1>6, <1>7, Blank DEF CallInv, MemoTrue
<1>11. PhaseInv'
  BY <1>1, <1>5, <1>6 DEF HInv, PhaseInv
<1>12. StageInv'
  BY <1>1, <1>9 DEF HInv, StageInv, Lanes
<1>13. NamesInv'
  BY <1>1, <1>9 DEF HInv, NamesInv, Named, RefsReadable
<1>14. QED
  BY <1>1, <1>4, <1>8, <1>10, <1>11, <1>12, <1>13 DEF HInv

(* A round pauses with the same stage and a truthful memo, is refused, or   *)
(* lands what the logic wrote.                                              *)
LEMMA RoundKeeps ==
  ASSUME HInv, Round
  PROVE  HInv'
<1> DEFINE d == RoundFrom(run)
<1>1. run # None /\ run.read = None
  BY DEF Round
<1>2. /\ run \in CallRun /\ run.prog \in Programs[kind] /\ MemoTrue(run.memo)
      /\ staged = NoWrites /\ puts = {} /\ dirty = {} /\ phase \in {"new", "open"}
      /\ env # None /\ env = height /\ Over = run.staged /\ Objs = run.puts
  BY <1>1, InCall
<1>3. /\ d \in RoundState /\ MemoTrue(d.memo)
      /\ d.st = "run" =>
           /\ HeldBytes(d.staged, d.puts) <= MaxHostBytes /\ IsFiniteSet(d.puts)
           /\ Lanes(d.staged, NoWrites, d.puts) /\ Named(d.staged, d.puts)
  BY <1>1, RoundAgrees
<1>4. \/ /\ run' = [run EXCEPT !.memo = d.memo, !.fuel = d.fuel, !.read = d.read]
         /\ UNCHANGED <<kind, committed, objects, dirty, stamp, staged, puts, env, phase,
                        height, intents, answer>>
      \/ Refuse
      \/ /\ d.st = "run" /\ staged' = d.staged /\ puts' = d.puts /\ run' = None
         /\ intents' = intents + d.sent
         /\ phase' = (IF run.call \in Dispatched THEN phase ELSE "publish")
         /\ UNCHANGED <<kind, committed, objects, dirty, stamp, env, height, answer>>
  BY DEF Round, backing
<1> HIDE DEF d
<1>5. CASE /\ run' = [run EXCEPT !.memo = d.memo, !.fuel = d.fuel, !.read = d.read]
           /\ UNCHANGED <<kind, committed, objects, dirty, stamp, staged, puts, env, phase,
                          height, intents, answer>>
  <2>1. /\ run' \in CallRun /\ run'.prog = run.prog /\ run'.staged = run.staged
        /\ run'.puts = run.puts /\ run'.memo = d.memo
    BY <1>2, <1>3, <1>5 DEF CallRun, RoundState
  <2>2. run' # None
    BY <2>1, NoneAssumption
  <2>3. Over' = Over /\ Objs' = Objs
    BY <1>2, <2>1, <2>2 DEF Over, Objs
  <2>4. TypeOK'
    BY <1>5, <2>1 DEF HInv, TypeOK
  <2>5. CallInv' /\ PhaseInv'
    BY <1>2, <1>3, <1>5, <2>1, <2>2, <2>3 DEF HInv, PhaseInv, CallInv, MemoTrue
  <2>6. StageInv' /\ NamesInv'
    BY <1>5, <2>3 DEF HInv, StageInv, NamesInv, Lanes, Named, RefsReadable
  <2>7. QED
    BY <2>4, <2>5, <2>6 DEF HInv
<1>6. CASE Refuse
  BY <1>1, <1>6, RefuseKeeps
<1>7. CASE /\ d.st = "run" /\ staged' = d.staged /\ puts' = d.puts /\ run' = None
           /\ intents' = intents + d.sent
           /\ phase' = (IF run.call \in Dispatched THEN phase ELSE "publish")
           /\ UNCHANGED <<kind, committed, objects, dirty, stamp, env, height, answer>>
  <2>1. Over' = d.staged /\ Objs' = d.puts
    BY <1>7 DEF Over, Objs
  <2>2. TypeOK'
    <3>1. d.staged \in Overlay /\ d.puts \subseteq Obj /\ d.sent \in Nat
      BY <1>3 DEF RoundState
    <3>2. QED
      BY <1>2, <1>7, <3>1 DEF HInv, TypeOK
  <2>3. CallInv' /\ PhaseInv'
    BY <1>2, <1>7 DEF HInv, PhaseInv, CallInv
  <2>4. StageInv'
    BY <1>3, <1>7, <2>1 DEF HInv, StageInv, Lanes
  <2>5. NamesInv'
    BY <1>2, <1>3, <1>7, <2>1 DEF HInv, NamesInv, Named, RefsReadable
  <2>6. QED
    BY <2>2, <2>3, <2>4, <2>5 DEF HInv
<1>8. QED
  BY <1>4, <1>5, <1>6, <1>7

(* An answered read is remembered as it was answered.                       *)
LEMMA ResolveKeeps ==
  ASSUME HInv, Resolve
  PROVE  HInv' /\ (Refuse \/ (run' \in CallRun /\ run'.prog = run.prog
                              /\ run'.staged = run.staged /\ run'.puts = run.puts))
<1> DEFINE m == Answered(run.memo, run.read)
<1>1. run # None /\ run.read # None
  BY DEF Resolve
<1>2. /\ run \in CallRun /\ run.prog \in Programs[kind] /\ MemoTrue(run.memo)
      /\ staged = NoWrites /\ puts = {} /\ dirty = {} /\ phase \in {"new", "open"}
      /\ env # None /\ env = height /\ Over = run.staged /\ Objs = run.puts
  BY <1>1, InCall
<1>3. \/ Refuse
      \/ /\ run' = [run EXCEPT !.memo = m, !.read = None]
         /\ UNCHANGED <<kind, committed, objects, dirty, stamp, staged, puts, env, phase,
                        height, intents, answer>>
  BY DEF Resolve, backing
<1>4. CASE Refuse
  BY <1>1, <1>4, RefuseKeeps
<1>5. m \in Memo /\ MemoTrue(m)
  <2>1. run.memo \in Memo /\ run.read \in Read
    BY <1>1, <1>2 DEF CallRun
  <2>2. answer \in Reply /\ committed \in [Slot -> Datum]
    BY DEF HInv, TypeOK
  <2>3. CASE run.read.states = {}
    <3>1. m = [run.memo EXCEPT !.sib = answer]
      BY <2>3 DEF Answered
    <3>2. m \in Memo /\ m.states = run.memo.states /\ m.sib = answer
      BY <2>1, <2>2, <3>1 DEF Memo
    <3>3. QED
      BY <1>2, <3>2 DEF MemoTrue
  <2>4. CASE run.read.states # {}
    <3> DEFINE told == [k \in Slot |-> IF k \in run.read.states THEN committed[k]
                                      ELSE run.memo.states[k]]
    <3>1. m = [run.memo EXCEPT !.states = told]
      BY <2>4 DEF Answered
    <3>2. told \in Overlay
      BY <2>1, <2>2 DEF Memo, Overlay
    <3>3. \A k \in Slot : told[k] \in {Hole, committed[k]}
      BY <1>2 DEF MemoTrue
    <3> HIDE DEF told
    <3>4. m \in Memo /\ m.states = told /\ m.sib = run.memo.sib
      BY <2>1, <3>1, <3>2 DEF Memo
    <3>5. QED
      BY <1>2, <3>3, <3>4 DEF MemoTrue
  <2>5. QED
    BY <2>3, <2>4
<1> HIDE DEF m
<1>6. CASE /\ run' = [run EXCEPT !.memo = m, !.read = None]
           /\ UNCHANGED <<kind, committed, objects, dirty, stamp, staged, puts, env, phase,
                          height, intents, answer>>
  <2>1. /\ run' \in CallRun /\ run'.prog = run.prog /\ run'.staged = run.staged
        /\ run'.puts = run.puts /\ run'.memo = m
    BY <1>2, <1>5, <1>6 DEF CallRun
  <2>2. run' # None
    BY <2>1, NoneAssumption
  <2>3. Over' = Over /\ Objs' = Objs
    BY <1>2, <2>1, <2>2 DEF Over, Objs
  <2>4. TypeOK'
    BY <1>6, <2>1 DEF HInv, TypeOK
  <2>5. CallInv' /\ PhaseInv'
    BY <1>2, <1>5, <1>6, <2>1, <2>2, <2>3 DEF HInv, PhaseInv, CallInv, MemoTrue
  <2>6. StageInv' /\ NamesInv'
    BY <1>6, <2>3 DEF HInv, StageInv, NamesInv, Lanes, Named, RefsReadable
  <2>7. QED
    BY <2>1, <2>4, <2>5, <2>6 DEF HInv
<1>7. QED
  BY <1>3, <1>4, <1>6

(* Outside a call the stage is the module's own.                            *)
LEMMA NoCall ==
  ASSUME HInv, phase \notin {"new", "open"} \/ run = None
  PROVE  run = None /\ Over = staged /\ Objs = puts
BY DEF HInv, CallInv, Over, Objs

(* One batch folds the overlay into a map or a store.                       *)
LEMMA BatchKeeps ==
  ASSUME HInv, PublishBatch
  PROVE  HInv' /\ puts = {} /\ dirty = {}
<1>1. /\ phase = "publish" /\ kind # "odb" /\ env' = None
      /\ committed' = [k \in Slot |-> IF staged[k] # Hole THEN staged[k] ELSE committed[k]]
      /\ staged' = NoWrites /\ phase' = "open" /\ height' = height + 1 /\ intents' = 0
      /\ UNCHANGED <<kind, objects, dirty, stamp, puts, run, answer>>
  BY DEF PublishBatch, Opened
<1>2. run = None /\ Over = staged /\ Objs = puts
  BY <1>1, NoCall
<1>3. puts = {} /\ dirty = {} /\ staged[Refs] = Hole /\ committed[Refs] = None
  BY <1>1, <1>2 DEF HInv, StageInv, Lanes
<1>4. committed'[Refs] = None
  BY <1>1, <1>3, Blank
<1>5. TypeOK'
  <2>1. /\ staged \in Overlay /\ committed \in [Slot -> Datum] /\ height \in Nat
        /\ NoWrites \in Overlay
    BY Blank DEF HInv, TypeOK
  <2>2. committed' \in [Slot -> Datum]
    BY <1>1, <2>1 DEF Overlay
  <2>3. QED
    BY <1>1, <2>1, <2>2 DEF HInv, TypeOK
<1>6. HInv'
  BY <1>1, <1>2, <1>3, <1>4, <1>5, Cleared DEF RefsReadable
<1>7. QED
  BY <1>3, <1>6

(* A publication that failed leaves the committed state, the refs included. *)
LEMMA FailKeeps ==
  ASSUME HInv, PublishFails
  PROVE  HInv'
<1>1. /\ phase \in {"publish", "adopt"} /\ env' = None /\ phase' = "broken"
      /\ staged' = (IF phase = "adopt" THEN [staged EXCEPT ![Refs] = Hole] ELSE staged)
      /\ UNCHANGED <<kind, committed, objects, dirty, stamp, puts, run, height, intents,
                     answer>>
  BY DEF PublishFails, backing
<1>2. run = None /\ Over = staged /\ Objs = puts
  BY <1>1, NoCall
<1>3. Over' = staged' /\ Objs' = puts
  BY <1>1, <1>2 DEF Over, Objs
<1>4. staged \in Overlay /\ IsFiniteSet(puts) /\ HeldBytes(staged, puts) <= MaxHostBytes
      /\ Lanes(staged, NoWrites, puts)
  BY <1>2 DEF HInv, TypeOK, StageInv
<1>5. /\ staged' \in Overlay /\ Written(staged') \subseteq Written(staged)
      /\ \A k \in Slot : staged'[k] \in {Hole, staged[k]}
  BY <1>1, <1>4 DEF Overlay, Written
<1>6. HeldBytes(staged', puts) <= MaxHostBytes
  <2>1. /\ HeldBytes(staged', puts) \in Nat /\ HeldBytes(staged, puts) \in Nat
        /\ HeldBytes(staged', puts) <= HeldBytes(staged, puts)
    BY <1>4, <1>5, HeldLess
  <2>2. QED
    BY <1>4, <2>1, HostAssumption
<1>7. TypeOK'
  BY <1>1, <1>5 DEF HInv, TypeOK
<1>8. CallInv' /\ PhaseInv'
  BY <1>1, <1>2 DEF HInv, CallInv, PhaseInv
<1>9. StageInv'
  BY <1>1, <1>3, <1>4, <1>5, <1>6, Blank DEF HInv, StageInv, Lanes
<1>10. NamesInv'
  BY <1>1 DEF HInv, NamesInv, RefsReadable
<1>11. QED
  BY <1>7, <1>8, <1>9, <1>10 DEF HInv

(* The objects go first, all of them or, when that fails, some.             *)
LEMMA BlockKeeps ==
  ASSUME HInv, NEW ok \in BOOLEAN, PublishBlock(ok)
  PROVE  HInv'
<1>1. /\ phase = "publish" /\ kind = "odb" /\ puts' = {}
      /\ UNCHANGED <<kind, committed, stamp, staged, run, height, intents, answer>>
      /\ \/ /\ objects' = objects \cup dirty \cup puts /\ dirty' = {} /\ phase' = "adopt"
            /\ env' = env
         \/ /\ dirty' = dirty \cup puts /\ objects \subseteq objects'
            /\ objects' \subseteq objects \cup dirty \cup puts
            /\ phase' = "broken" /\ env' = None
  BY DEF PublishBlock, Flushed
<1>2. run = None /\ Over = staged /\ Objs = puts
  BY <1>1, NoCall
<1>3. Over' = staged /\ Objs' = {}
  BY <1>1, <1>2 DEF Over, Objs
<1>4. /\ staged \in Overlay
      /\ puts \subseteq Obj /\ dirty \subseteq Obj /\ objects \subseteq Obj
      /\ IsFiniteSet(puts) /\ HeldBytes(staged, puts) <= MaxHostBytes
      /\ Lanes(staged, NoWrites, puts) /\ Named(staged, puts) /\ dirty = {} /\ env # None
  BY <1>1, <1>2 DEF HInv, TypeOK, StageInv, NamesInv, PhaseInv
<1>5. HeldBytes(staged, {}) <= MaxHostBytes
  <2>1. /\ HeldBytes(staged, {}) \in Nat /\ HeldBytes(staged, puts) \in Nat
        /\ HeldBytes(staged, {}) <= HeldBytes(staged, puts)
    BY <1>4, HeldLess
  <2>2. QED
    BY <1>4, <2>1, HostAssumption
<1>6. TypeOK'
  BY <1>1, <1>4 DEF HInv, TypeOK
<1>7. CallInv'
  BY <1>1, <1>2 DEF CallInv
<1>8. PhaseInv'
  BY <1>1, <1>3, <1>4 DEF HInv, PhaseInv
<1>9. StageInv'
  BY <1>1, <1>3, <1>4, <1>5, Blank DEF StageInv, Lanes
<1>10. NamesInv'
  BY <1>1, <1>3, <1>4 DEF HInv, NamesInv, Named, RefsReadable
<1>11. QED
  BY <1>6, <1>7, <1>8, <1>9, <1>10 DEF HInv

(* The refs image goes last, over objects that are all there.               *)
LEMMA AdoptKeeps ==
  ASSUME HInv, AdoptRefs
  PROVE  /\ HInv' /\ puts = {} /\ dirty = {}
         /\ committed'[Refs] # committed[Refs] => stamp' = height
<1>1. /\ phase = "adopt" /\ staged' = NoWrites /\ env' = None
      /\ phase' = "open" /\ height' = height + 1 /\ intents' = 0
      /\ UNCHANGED <<kind, objects, dirty, puts, run, answer>>
      /\ \/ staged[Refs] = Hole /\ committed' = committed /\ stamp' = stamp
         \/ /\ staged[Refs] # Hole
            /\ committed' = [committed EXCEPT ![Refs] = staged[Refs]] /\ stamp' = env
  BY DEF AdoptRefs, Opened
<1>2. run = None /\ Over = staged /\ Objs = puts
  BY <1>1, NoCall
<1>3. /\ kind = "odb" /\ puts = {} /\ dirty = {} /\ env = height /\ Named(staged, {})
      /\ RefsReadable
  BY <1>1, <1>2 DEF HInv, PhaseInv, NamesInv
<1>4. /\ committed \in [Slot -> Datum] /\ staged \in Overlay /\ height \in Nat
      /\ env \in Nat \cup {None} /\ Refs \in Slot
  BY Blank DEF HInv, TypeOK
<1>5. committed' \in [Slot -> Datum] /\ committed'[Refs] \in objects \cup {None}
  BY <1>1, <1>3, <1>4 DEF Overlay, Named, RefsReadable
<1>6. TypeOK'
  BY <1>1, <1>4, <1>5, Blank DEF HInv, TypeOK
<1>7. HInv'
  BY <1>1, <1>2, <1>3, <1>5, <1>6, Cleared DEF RefsReadable
<1>8. QED
  BY <1>1, <1>3, <1>7

(* Giving a block up, dying and a code swap leave the committed state.      *)
LEMMA AbandonKeeps ==
  ASSUME HInv, AbortBlock \/ Crash \/ Swap
  PROVE  /\ HInv' /\ run' = None /\ staged' = NoWrites /\ puts' = {} /\ dirty' = {}
         /\ phase' = "open" /\ UNCHANGED <<kind, committed, objects, answer>>
<1>1. /\ staged' = NoWrites /\ puts' = {} /\ env' = None /\ run' = None /\ phase' = "open"
      /\ dirty' \in {{}, dirty} /\ intents' \in {0, intents}
      /\ UNCHANGED <<kind, committed, objects, stamp, height, answer>>
  BY DEF AbortBlock, Crash, Swap, backing
<1>2. dirty' = {}
  <2>1. CASE Swap
    BY <2>1 DEF HInv, NamesInv, Swap, backing
  <2>2. CASE ~ Swap
    BY <2>2 DEF AbortBlock, Crash
  <2>3. QED
    BY <2>1, <2>2
<1>3. TypeOK'
  BY <1>1, Blank DEF HInv, TypeOK
<1>4. RefsReadable' /\ (kind' # "odb" => committed'[Refs] = None)
  BY <1>1 DEF HInv, NamesInv, StageInv, RefsReadable
<1>5. QED
  BY <1>1, <1>2, <1>3, <1>4, Cleared

(* A sibling's operation is seen by no call of this module's.               *)
LEMMA SiblingKeeps ==
  ASSUME HInv, Sibling
  PROVE  HInv'
<1>1. /\ run = None /\ answer' \in Reply
      /\ UNCHANGED <<kind, committed, objects, dirty, stamp, staged, puts, env, run, phase,
                     height, intents>>
  BY DEF Sibling, backing, memory
<1>2. QED
  BY <1>1 DEF HInv, TypeOK, CallInv, StageInv, NamesInv, PhaseInv, Lanes, Named, Over, Objs,
              RefsReadable

(* Nothing happens.                                                         *)
LEMMA IdleKeeps ==
  ASSUME HInv, UNCHANGED vars
  PROVE  HInv'
<1>1. UNCHANGED <<kind, committed, objects, dirty, stamp, staged, puts, env, run, phase,
                  height, intents, answer>>
  BY DEF vars
<1>2. QED
  BY <1>1 DEF HInv, TypeOK, CallInv, StageInv, NamesInv, PhaseInv, Lanes, Named, Over, Objs,
              RefsReadable, MemoTrue

(* A module that has done nothing.                                          *)
LEMMA HInit ==
  ASSUME Init
  PROVE  HInv
<1>1. /\ kind \in Kind /\ committed = [k \in Slot |-> None] /\ objects = {} /\ dirty = {}
      /\ stamp = None /\ staged = NoWrites /\ puts = {} /\ env = None /\ run = None
      /\ phase = "new" /\ height = 0 /\ intents = 0 /\ answer \in Reply
  BY DEF Init
<1>2. Over = NoWrites /\ Objs = {} /\ committed[Refs] = None
  BY <1>1, Blank DEF Over, Objs
<1>3. TypeOK
  BY <1>1, Blank DEF TypeOK, Datum
<1>4. StageInv
  BY <1>1, <1>2, Blank DEF StageInv, Lanes
<1>5. NamesInv /\ CallInv /\ PhaseInv
  BY <1>1, <1>2, Blank DEF NamesInv, Named, CallInv, PhaseInv, RefsReadable
<1>6. QED
  BY <1>3, <1>4, <1>5 DEF HInv

(* What starts a call: an execute or an acknowledge in an open block, an    *)
(* initialize before the first, a finalize once a block has an envelope.    *)
LEMMA Starts ==
  ASSUME NEW prog,
         \/ \E call \in Dispatched : Execute(call, prog)
         \/ Initialize(prog) \/ Finalize(prog)
  PROVE  \E call \in {"initialize", "execute", "acknowledge", "finalize"} :
           /\ Start(call, prog) /\ phase \in {"new", "open"}
           /\ call \in Dispatched \/ phase = "new" \/ env # None
BY DEF Execute, Initialize, Finalize, Dispatched

(* Every step of the host keeps the invariant.                              *)
LEMMA HStep ==
  ASSUME HInv, [Next]_vars
  PROVE  HInv'
<1>1. CASE \E prog \in Programs[kind] : \/ \E call \in Dispatched : Execute(call, prog)
                                       \/ Initialize(prog) \/ Finalize(prog)
  BY <1>1, Starts, StartKeeps
<1>2. CASE Round
  BY <1>2, RoundKeeps
<1>3. CASE Resolve
  BY <1>3, ResolveKeeps
<1>4. CASE ResolveError
  BY <1>4, RefuseKeeps DEF ResolveError
<1>5. CASE PublishBatch
  BY <1>5, BatchKeeps
<1>6. CASE PublishFails
  BY <1>6, FailKeeps
<1>7. CASE AdoptRefs
  BY <1>7, AdoptKeeps
<1>8. CASE \E ok \in BOOLEAN : PublishBlock(ok)
  BY <1>8, BlockKeeps
<1>9. CASE AbortBlock \/ Crash \/ Swap
  BY <1>9, AbandonKeeps
<1>10. CASE Sibling
  BY <1>10, SiblingKeeps
<1>11. CASE UNCHANGED vars
  BY <1>11, IdleKeeps
<1>12. QED
  BY <1>1, <1>2, <1>3, <1>4, <1>5, <1>6, <1>7, <1>8, <1>9, <1>10, <1>11 DEF Next

(* The invariant holds in every run.                                        *)
THEOREM HInvHolds == Spec => []HInv
<1>1. Init => HInv
  BY HInit
<1>2. HInv /\ [Next]_vars => HInv'
  BY HStep
<1>3. Spec => Init /\ [][Next]_vars
  BY DEF Spec
<1>4. QED
  BY <1>1, <1>2, <1>3, PTL

(* The committed refs image names only objects the backing can serve.       *)
THEOREM RefsReadableHolds == Spec => []RefsReadable
<1>1. HInv => RefsReadable
  BY DEF HInv, NamesInv
<1>2. QED
  BY <1>1, HInvHolds, PTL

(* The overlay and the objects of a block stay under the byte ceiling.      *)
THEOREM BlockBytesBoundedHolds == Spec => []BlockBytesBounded
<1>1. HInv => BlockBytesBounded
  BY DEF HInv, StageInv, BlockBytesBounded, Over, Objs
<1>2. QED
  BY <1>1, HInvHolds, PTL

(* The refs move only at the end of a block, together with its height.      *)
THEOREM HeightNamesRefsHolds == Spec => HeightNamesRefs
<1>1. ASSUME HInv, [Next]_vars
      PROVE  [committed'[Refs] # committed[Refs] => stamp' = height]_vars
  <2>1. CASE PublishBatch
    <3>1. kind # "odb" /\ kind' = kind /\ HInv'
      BY <1>1, <2>1, BatchKeeps DEF PublishBatch
    <3>2. committed[Refs] = None /\ committed'[Refs] = None
      BY <1>1, <3>1 DEF HInv, StageInv
    <3>3. QED
      BY <3>2
  <2>2. CASE AdoptRefs
    BY <1>1, <2>2, AdoptKeeps
  <2>3. CASE UNCHANGED vars
    BY <2>3
  <2>4. CASE ~ PublishBatch /\ ~ AdoptRefs /\ Next
    <3>1. committed' = committed
      BY <2>4 DEF Next, Execute, Initialize, Finalize, Start, Round, Resolve, ResolveError,
                  Refuse, PublishFails, PublishBlock, AbortBlock, Crash, Swap, Sibling, backing
    <3>2. QED
      BY <3>1
  <2>5. QED
    BY <1>1, <2>1, <2>2, <2>3, <2>4
<1>2. Spec => [][Next]_vars
  BY DEF Spec
<1>3. QED
  BY <1>1, <1>2, HInvHolds, PTL DEF HeightNamesRefs

------------------------------------------------------------------------------
(* The refinement *)

Task == IF run = None THEN None ELSE run.prog
Pending == IF phase = "broken" THEN NoWrites ELSE IF run = None THEN staged ELSE run.staged
Buffered ==
  IF phase = "broken" THEN {} ELSE (IF run = None THEN puts ELSE run.puts) \cup dirty
Intents == IF phase = "broken" THEN 0 ELSE intents

(* The native module's actions, in the host's terms.                        *)
NBegin ==
  /\ Task = None /\ Task' \in Programs[kind]
  /\ UNCHANGED <<kind, committed, Pending, objects, Buffered, Intents, answer>>
NExecute ==
  /\ Task # None /\ Task' = None
  /\ Native!Run(Task).ok /\ Pending' = Native!Run(Task).over
  /\ Buffered' = Native!Run(Task).objs /\ Intents' = Intents + Native!Run(Task).sent
  /\ UNCHANGED <<kind, committed, objects, answer>>
NRefuse ==
  /\ Task # None /\ Task' = None
  /\ UNCHANGED <<kind, committed, Pending, objects, Buffered, Intents, answer>>
NCommit ==
  /\ Task = None /\ Buffered = {}
  /\ committed' = [k \in Slot |-> IF Pending[k] # Hole THEN Pending[k] ELSE committed[k]]
  /\ Pending' = NoWrites /\ Intents' = 0
  /\ UNCHANGED <<kind, Task, objects, Buffered, answer>>
NAbort ==
  /\ \E stay \in SUBSET Buffered : objects' = objects \cup stay
  /\ Task' = None /\ Pending' = NoWrites /\ Buffered' = {} /\ Intents' = 0
  /\ UNCHANGED <<kind, committed, answer>>
NPublish ==
  /\ \E some \in SUBSET Buffered : objects' = objects \cup some /\ Buffered' = Buffered \ some
  /\ UNCHANGED <<kind, Task, committed, Pending, Intents, answer>>
NSibling ==
  /\ Task = None /\ answer' \in Reply
  /\ UNCHANGED <<kind, Task, committed, Pending, objects, Buffered, Intents>>
NStutter == UNCHANGED <<kind, Task, committed, Pending, objects, Buffered, Intents, answer>>

(* They are the native module's actions.                                    *)
LEMMA NativeSteps ==
  ASSUME NBegin \/ NExecute \/ NRefuse \/ NCommit \/ NAbort \/ NPublish \/ NSibling \/ NStutter
  PROVE  [Native!Next]_(Native!vars)
<1>1. CASE NBegin
  <2>1. Native!Begin
    BY <1>1 DEF NBegin, Native!Begin, Task, Pending, Buffered, Intents
  <2>2. QED
    BY <2>1 DEF Native!Next
<1>2. CASE NExecute
  <2>1. Native!Execute
    BY <1>2 DEF NExecute, Native!Execute, Task, Pending, Buffered, Intents
  <2>2. QED
    BY <2>1 DEF Native!Next
<1>3. CASE NRefuse
  <2>1. Native!Refuse
    BY <1>3 DEF NRefuse, Native!Refuse, Task, Pending, Buffered, Intents
  <2>2. QED
    BY <2>1 DEF Native!Next
<1>4. CASE NCommit
  <2>1. Native!CommitBlock
    BY <1>4 DEF NCommit, Native!CommitBlock, Native!Merged, Native!Get, Native!NoWrites,
                Native!Slot, NoWrites, Slot, Task, Pending, Buffered, Intents
  <2>2. QED
    BY <2>1 DEF Native!Next
<1>5. CASE NAbort
  <2>1. Native!AbortBlock
    BY <1>5 DEF NAbort, Native!AbortBlock, Native!NoWrites, Native!Slot, NoWrites, Slot,
                Task, Pending, Buffered, Intents
  <2>2. QED
    BY <2>1 DEF Native!Next
<1>6. CASE NPublish
  <2>1. Native!PublishObjects
    BY <1>6 DEF NPublish, Native!PublishObjects, Task, Pending, Buffered, Intents
  <2>2. QED
    BY <2>1 DEF Native!Next
<1>7. CASE NSibling
  <2>1. Native!Sibling
    BY <1>7 DEF NSibling, Native!Sibling, Native!Reply, Reply, Task, Pending, Buffered, Intents
  <2>2. QED
    BY <2>1 DEF Native!Next
<1>8. CASE NStutter
  BY <1>8 DEF NStutter, Native!vars, Task, Pending, Buffered, Intents
<1>9. QED
  BY <1>1, <1>2, <1>3, <1>4, <1>5, <1>6, <1>7, <1>8

(* A module that is not broken, between its calls.                          *)
LEMMA AtRest ==
  ASSUME run = None, phase # "broken"
  PROVE  Task = None /\ Pending = staged /\ Buffered = puts \cup dirty /\ Intents = intents
BY DEF Task, Pending, Buffered, Intents

(* A call in progress is an operation begun: the stage it took is the       *)
(* native module's overlay.                                                 *)
LEMMA Busy ==
  ASSUME run \in CallRun, phase # "broken"
  PROVE  /\ Task = run.prog /\ Pending = run.staged /\ Buffered = run.puts \cup dirty
         /\ Intents = intents
BY NoneAssumption DEF Task, Pending, Buffered, Intents

(* Once publication has failed nothing of the block is left to see.         *)
LEMMA Broken ==
  ASSUME run = None, phase = "broken"
  PROVE  Task = None /\ Pending = NoWrites /\ Buffered = {} /\ Intents = 0
BY DEF Task, Pending, Buffered, Intents

(* A call begins as an operation of the native module.                      *)
LEMMA StartMaps ==
  ASSUME HInv, NEW prog \in Programs[kind],
         \/ \E call \in Dispatched : Execute(call, prog)
         \/ Initialize(prog) \/ Finalize(prog)
  PROVE  NBegin
<1>1. PICK call \in {"initialize", "execute", "acknowledge", "finalize"} :
        /\ Start(call, prog) /\ phase \in {"new", "open"}
        /\ call \in Dispatched \/ phase = "new" \/ env # None
  BY Starts
<1>2. run' \in CallRun /\ run'.prog = prog /\ run'.staged = staged /\ run'.puts = puts
  BY <1>1, StartKeeps
<1>3. /\ run = None
      /\ UNCHANGED <<kind, committed, objects, dirty, phase, intents, answer>>
  BY <1>1 DEF Start, backing
<1>4. Task = None /\ Pending = staged /\ Buffered = puts \cup dirty /\ Intents = intents
  BY <1>1, <1>3, AtRest
<1>5. /\ Task' = prog /\ Pending' = staged /\ Buffered' = puts \cup dirty
      /\ Intents' = intents
  BY <1>1, <1>2, <1>3, NoneAssumption DEF Task, Pending, Buffered, Intents
<1>6. QED
  BY <1>3, <1>4, <1>5 DEF NBegin

(* Refused, it leaves nothing the block could keep.                         *)
LEMMA RefuseMaps ==
  ASSUME HInv, run # None, Refuse
  PROVE  NRefuse
<1>1. /\ run \in CallRun /\ dirty = {} /\ phase \in {"new", "open"}
      /\ run.prog \in Programs[kind]
  BY InCall
<1>2. /\ staged' = run.staged /\ puts' = run.puts /\ run' = None
      /\ phase' \in {"new", "failed"}
      /\ UNCHANGED <<kind, committed, objects, dirty, intents, answer>>
  BY DEF Refuse, Restore, backing
<1>3. /\ Task = run.prog /\ Pending = run.staged /\ Buffered = run.puts \cup dirty
      /\ Intents = intents
  BY <1>1, Busy
<1>4. /\ Task' = None /\ Pending' = run.staged /\ Buffered' = run.puts \cup dirty
      /\ Intents' = intents
  BY <1>2 DEF Task, Pending, Buffered, Intents
<1>5. run.prog # None
  BY <1>1, NoneAssumption DEF HInv, TypeOK
<1>6. QED
  BY <1>2, <1>3, <1>4, <1>5 DEF NRefuse

(* Waiting, and being answered.                                             *)
LEMMA WaitMaps ==
  ASSUME HInv, run # None, run' \in CallRun, run'.prog = run.prog,
         run'.staged = run.staged, run'.puts = run.puts,
         UNCHANGED <<kind, committed, objects, dirty, phase, intents, answer>>
  PROVE  NStutter
<1>1. run \in CallRun /\ phase \in {"new", "open"}
  BY InCall
<1>2. /\ Task = run.prog /\ Pending = run.staged /\ Buffered = run.puts \cup dirty
      /\ Intents = intents
  BY <1>1, Busy
<1>3. /\ Task' = run.prog /\ Pending' = run.staged /\ Buffered' = run.puts \cup dirty
      /\ Intents' = intents
  BY <1>1, NoneAssumption DEF Task, Pending, Buffered, Intents
<1>4. QED
  BY <1>2, <1>3 DEF NStutter

(* The round that lands is the operation, run once.                         *)
LEMMA RoundMaps ==
  ASSUME HInv, Round
  PROVE  NExecute \/ NRefuse \/ NStutter
<1> DEFINE d == RoundFrom(run)
<1>1. run # None /\ run.read = None
  BY DEF Round
<1>2. /\ run \in CallRun /\ run.prog \in Programs[kind] /\ dirty = {}
      /\ phase \in {"new", "open"}
  BY <1>1, InCall
<1>3. /\ d \in RoundState
      /\ d.st = "run" =>
           Native!Run(run.prog) =
             [over |-> d.staged, objs |-> d.puts, sent |-> d.sent, ok |-> TRUE]
  BY <1>1, RoundAgrees
<1>4. \/ /\ run' = [run EXCEPT !.memo = d.memo, !.fuel = d.fuel, !.read = d.read]
         /\ UNCHANGED <<kind, committed, objects, dirty, phase, intents, answer>>
      \/ Refuse
      \/ /\ d.st = "run" /\ staged' = d.staged /\ puts' = d.puts /\ run' = None
         /\ intents' = intents + d.sent
         /\ phase' = (IF run.call \in Dispatched THEN phase ELSE "publish")
         /\ UNCHANGED <<kind, committed, objects, dirty, answer>>
  BY DEF Round, backing
<1>5. Task = run.prog /\ Intents = intents /\ Task # None
  <2>1. Task = run.prog /\ Intents = intents
    BY <1>2, Busy
  <2>2. QED
    BY <1>2, <2>1, NoneAssumption DEF HInv, TypeOK
<1> HIDE DEF d
<1>6. CASE /\ run' = [run EXCEPT !.memo = d.memo, !.fuel = d.fuel, !.read = d.read]
           /\ UNCHANGED <<kind, committed, objects, dirty, phase, intents, answer>>
  <2>1. /\ run' \in CallRun /\ run'.prog = run.prog /\ run'.staged = run.staged
        /\ run'.puts = run.puts
    BY <1>2, <1>3, <1>6 DEF CallRun, RoundState
  <2>2. QED
    BY <1>1, <1>6, <2>1, WaitMaps
<1>7. CASE Refuse
  BY <1>1, <1>7, RefuseMaps
<1>8. CASE /\ d.st = "run" /\ staged' = d.staged /\ puts' = d.puts /\ run' = None
           /\ intents' = intents + d.sent
           /\ phase' = (IF run.call \in Dispatched THEN phase ELSE "publish")
           /\ UNCHANGED <<kind, committed, objects, dirty, answer>>
  <2> DEFINE yes == TRUE
             r == Native!Run(Task)
  <2>1. r = [over |-> d.staged, objs |-> d.puts, sent |-> d.sent, ok |-> yes]
    BY Zenon, <1>3, <1>5, <1>8
  <2> HIDE DEF yes, r
  <2>2. r.over = d.staged /\ r.objs = d.puts /\ r.sent = d.sent /\ r.ok = yes
    BY <2>1
  <2>3. Native!Run(Task).ok
    BY Zenon, <2>2 DEF r, yes
  <2>4. /\ Task' = None /\ Pending' = d.staged /\ Buffered' = d.puts
        /\ Intents' = intents + d.sent
    BY <1>2, <1>8 DEF Task, Pending, Buffered, Intents
  <2>5. /\ Pending' = Native!Run(Task).over /\ Buffered' = Native!Run(Task).objs
        /\ Intents' = Intents + Native!Run(Task).sent
    BY <1>5, <2>2, <2>4 DEF r
  <2>6. QED
    BY <1>5, <1>8, <2>3, <2>4, <2>5 DEF NExecute
<1>9. QED
  BY <1>4, <1>6, <1>7, <1>8

(* The batch is the native commit.                                          *)
LEMMA BatchMaps ==
  ASSUME HInv, PublishBatch
  PROVE  NCommit
<1>1. /\ phase = "publish" /\ phase' = "open" /\ intents' = 0 /\ staged' = NoWrites
      /\ committed' = [k \in Slot |-> IF staged[k] # Hole THEN staged[k] ELSE committed[k]]
      /\ UNCHANGED <<kind, objects, dirty, puts, run, answer>>
  BY DEF PublishBatch, Opened
<1>2. run = None /\ puts = {} /\ dirty = {}
  BY <1>1, NoCall, BatchKeeps
<1>3. Task = None /\ Pending = staged /\ Buffered = {}
  BY <1>1, <1>2, AtRest
<1>4. Task' = None /\ Pending' = NoWrites /\ Buffered' = {} /\ Intents' = 0
  BY <1>1, <1>2 DEF Task, Pending, Buffered, Intents
<1>5. QED
  BY <1>1, <1>3, <1>4 DEF NCommit

(* So are the refs of a block whose objects are all there.                  *)
LEMMA AdoptMaps ==
  ASSUME HInv, AdoptRefs
  PROVE  NCommit
<1>1. /\ phase = "adopt" /\ phase' = "open" /\ intents' = 0 /\ staged' = NoWrites
      /\ committed' = (IF staged[Refs] = Hole THEN committed
                       ELSE [committed EXCEPT ![Refs] = staged[Refs]])
      /\ UNCHANGED <<kind, objects, dirty, puts, run, answer>>
  BY DEF AdoptRefs, Opened
<1>2. run = None /\ puts = {} /\ dirty = {} /\ Over = staged
  BY <1>1, NoCall, AdoptKeeps
<1>3. Task = None /\ Pending = staged /\ Buffered = {}
  BY <1>1, <1>2, AtRest
<1>4. Task' = None /\ Pending' = NoWrites /\ Buffered' = {} /\ Intents' = 0
  BY <1>1, <1>2 DEF Task, Pending, Buffered, Intents
<1>5. /\ committed \in [Slot -> Datum] /\ Refs \in Slot
      /\ \A k \in Key : staged[k] = Hole
  BY <1>1, <1>2, Blank DEF HInv, TypeOK, PhaseInv, StageInv, Lanes
<1>6. committed' = [k \in Slot |-> IF staged[k] # Hole THEN staged[k] ELSE committed[k]]
  BY <1>1, <1>5 DEF Slot
<1>7. QED
  BY <1>1, <1>3, <1>4, <1>6 DEF NCommit

(* A publication that fails is an abort that keeps what it had published.   *)
LEMMA FailMaps ==
  ASSUME HInv, PublishFails
  PROVE  NAbort
<1>1. /\ phase \in {"publish", "adopt"} /\ phase' = "broken"
      /\ UNCHANGED <<kind, committed, objects, run, answer>>
  BY DEF PublishFails, backing
<1>2. run = None
  BY <1>1, NoCall
<1>3. Task' = None /\ Pending' = NoWrites /\ Buffered' = {} /\ Intents' = 0
  BY <1>1, <1>2 DEF Task, Pending, Buffered, Intents
<1>4. {} \in SUBSET Buffered /\ objects' = objects \cup {}
  BY <1>1
<1>5. QED
  BY <1>1, <1>3, <1>4 DEF NAbort

(* Objects are published ahead of the refs, or the block is given up.       *)
LEMMA BlockMaps ==
  ASSUME HInv, NEW ok \in BOOLEAN, PublishBlock(ok)
  PROVE  NPublish \/ NAbort
<1>1. /\ phase = "publish" /\ puts' = {}
      /\ UNCHANGED <<kind, committed, staged, run, intents, answer>>
      /\ \/ objects' = objects \cup (puts \cup dirty) /\ dirty' = {} /\ phase' = "adopt"
         \/ /\ \E part \in SUBSET (puts \cup dirty) : objects' = objects \cup part
            /\ phase' = "broken"
  BY DEF PublishBlock, Flushed
<1>2. run = None
  BY <1>1, NoCall
<1>3. Task = None /\ Pending = staged /\ Buffered = puts \cup dirty /\ Intents = intents
  BY <1>1, <1>2, AtRest
<1>4. CASE objects' = objects \cup (puts \cup dirty) /\ dirty' = {} /\ phase' = "adopt"
  <2>1. Task' = None /\ Pending' = staged /\ Buffered' = {} /\ Intents' = intents
    BY <1>1, <1>2, <1>4 DEF Task, Pending, Buffered, Intents
  <2>2. /\ Buffered \in SUBSET Buffered /\ objects' = objects \cup Buffered
        /\ Buffered' = Buffered \ Buffered
    BY <1>3, <1>4, <2>1
  <2>3. QED
    BY <1>1, <1>3, <2>1, <2>2 DEF NPublish
<1>5. CASE /\ \E part \in SUBSET (puts \cup dirty) : objects' = objects \cup part
           /\ phase' = "broken"
  <2>1. Task' = None /\ Pending' = NoWrites /\ Buffered' = {} /\ Intents' = 0
    BY <1>1, <1>2, <1>5 DEF Task, Pending, Buffered, Intents
  <2>2. QED
    BY <1>1, <1>3, <1>5, <2>1 DEF NAbort
<1>6. QED
  BY <1>1, <1>4, <1>5

(* Giving up and dying abort the block; a swap between two blocks is not    *)
(* seen.                                                                    *)
LEMMA AbandonMaps ==
  ASSUME HInv, AbortBlock \/ Crash \/ Swap
  PROVE  NAbort \/ NStutter
<1>1. /\ run' = None /\ staged' = NoWrites /\ puts' = {} /\ dirty' = {} /\ phase' = "open"
      /\ UNCHANGED <<kind, committed, objects, answer>>
  BY AbandonKeeps
<1>2. Task' = None /\ Pending' = NoWrites /\ Buffered' = {} /\ Intents' = intents'
  BY <1>1 DEF Task, Pending, Buffered, Intents
<1>3. CASE AbortBlock \/ Crash
  <2>1. intents' = 0
    BY <1>3 DEF AbortBlock, Crash
  <2>2. {} \in SUBSET Buffered /\ objects' = objects \cup {}
    BY <1>1
  <2>3. QED
    BY <1>1, <1>2, <2>1, <2>2 DEF NAbort
<1>4. CASE Swap
  <2>1. run = None /\ phase = "open" /\ env = None /\ intents' = intents
    BY <1>4 DEF Swap
  <2>2. staged = NoWrites /\ puts = {} /\ dirty = {}
    BY <2>1 DEF HInv, PhaseInv, NamesInv
  <2>3. Task = None /\ Pending = NoWrites /\ Buffered = {} /\ Intents = intents
    BY <2>1, <2>2, AtRest
  <2>4. QED
    BY <1>1, <1>2, <2>1, <2>3 DEF NStutter
<1>5. QED
  BY <1>3, <1>4

(* The sibling runs between this module's operations.                       *)
LEMMA SiblingMaps ==
  ASSUME HInv, Sibling
  PROVE  NSibling
<1>1. /\ run = None /\ answer' \in Reply
      /\ UNCHANGED <<kind, committed, objects, dirty, staged, puts, run, phase, intents>>
  BY DEF Sibling, backing, memory
<1>2. QED
  BY <1>1 DEF NSibling, Task, Pending, Buffered, Intents

(* Every step of the host is a step of the native module, or none.          *)
LEMMA HostMaps ==
  ASSUME HInv, [Next]_vars
  PROVE  [Native!Next]_(Native!vars)
<1>1. NBegin \/ NExecute \/ NRefuse \/ NCommit \/ NAbort \/ NPublish \/ NSibling \/ NStutter
  <2>1. CASE \E prog \in Programs[kind] : \/ \E call \in Dispatched : Execute(call, prog)
                                         \/ Initialize(prog) \/ Finalize(prog)
    BY <2>1, StartMaps
  <2>2. CASE Round
    BY <2>2, RoundMaps
  <2>3. CASE Resolve
    <3>1. run # None /\ (Refuse \/ UNCHANGED <<kind, backing, phase, intents, answer>>)
      BY <2>3 DEF Resolve
    <3>2. CASE Refuse
      BY <3>1, <3>2, RefuseMaps
    <3>3. CASE ~ Refuse
      <4>1. /\ run' \in CallRun /\ run'.prog = run.prog
            /\ run'.staged = run.staged /\ run'.puts = run.puts
        BY <2>3, <3>3, ResolveKeeps
      <4>2. UNCHANGED <<kind, committed, objects, dirty, phase, intents, answer>>
        BY <3>1, <3>3 DEF backing
      <4>3. QED
        BY <3>1, <4>1, <4>2, WaitMaps
    <3>4. QED
      BY <3>2, <3>3
  <2>4. CASE ResolveError
    BY <2>4, RefuseMaps DEF ResolveError
  <2>5. CASE PublishBatch
    BY <2>5, BatchMaps
  <2>6. CASE PublishFails
    BY <2>6, FailMaps
  <2>7. CASE AdoptRefs
    BY <2>7, AdoptMaps
  <2>8. CASE \E ok \in BOOLEAN : PublishBlock(ok)
    BY <2>8, BlockMaps
  <2>9. CASE AbortBlock \/ Crash \/ Swap
    BY <2>9, AbandonMaps
  <2>10. CASE Sibling
    BY <2>10, SiblingMaps
  <2>11. CASE UNCHANGED vars
    BY <2>11 DEF vars, NStutter, Task, Pending, Buffered, Intents
  <2>12. QED
    BY <2>1, <2>2, <2>3, <2>4, <2>5, <2>6, <2>7, <2>8, <2>9, <2>10, <2>11 DEF Next
<1>2. QED
  BY <1>1, NativeSteps

(* The replayed, metered guest over its two-step publication implements the *)
(* module the sdk promises.                                                 *)
THEOREM ImplementsNativeHolds == Spec => ImplementsNative
<1>1. Init => Native!Init
  BY DEF Init, Native!Init, Native!NoWrites, Native!Slot, Native!Reply, NoWrites, Slot, Reply
<1>2. HInv /\ [Next]_vars => [Native!Next]_(Native!vars)
  BY HostMaps
<1>3. Spec => Init /\ [][Next]_vars
  BY DEF Spec
<1>4. QED
  BY <1>1, <1>2, <1>3, HInvHolds, PTL DEF ImplementsNative, Native!Spec
==============================================================================
