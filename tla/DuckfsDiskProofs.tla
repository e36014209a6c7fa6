--------------------------- MODULE DuckfsDiskProofs ---------------------------
(***************************************************************************)
(* DuckfsDisk, for any objects and directories and with power losses and   *)
(* process deaths anywhere: the refs file names an object without a        *)
(* directory entry only if a flush that died left the entry unsynced, and  *)
(* never if the machine keeps its power.  With the scratch directories of  *)
(* state sync beside it, every step is one of the disk's or leaves the     *)
(* canonical directory alone, so this still holds; and a retry holds what  *)
(* failed attempts fetched.                                                *)
(***************************************************************************)
EXTENDS DuckfsScratch, TLAPS

(* What a handed-over block may still rely on, and what is flushed when:    *)
(* entries not on the medium lie in a directory that will be fsynced, or    *)
(* have slipped.                                                            *)
Flushing ==
  /\ \A o \in seen : o \in durable \cup slipped \/ (phase = "put" /\ DirOf[o] \in dirty)
  /\ slipped \cap durable = {}
  /\ phase # "put" => dirty = {}
  /\ block.put \subseteq seen
  /\ phase \in {"idle", "sweep"} => block = NoBlock
  /\ phase = "put" => block.next \subseteq seen \cup block.objs \cup slipped
  /\ phase \in {"synced", "renamed"} => block.next \subseteq seen \cup slipped
  /\ phase = "renamed" => named = block.next
  /\ phase = "sweep" => named = onDisk

IInv == TypeOK /\ NamedDurable /\ Flushing

(* The initial store is empty, and so is everything that names objects.     *)
LEMMA InitIInv == Init => IInv
  BY DEF Init, IInv, TypeOK, NamedDurable, Flushing, NoBlock

(* Every step keeps the flushing discipline: a list of dirty directories is *)
(* lost with the page cache, or what it was for slips.                      *)
LEMMA NextIInv ==
  ASSUME IInv, [Next]_vars
  PROVE  IInv'
<1> USE DiskAssumption DEF IInv, TypeOK, NamedDurable, Flushing
<1>1. ASSUME NEW objs \in SUBSET Obj, NEW next \in SUBSET Obj, HandOver(objs, next)
      PROVE  IInv'
  BY <1>1 DEF HandOver
<1>2. ASSUME NEW o \in Obj, Put(o)
      PROVE  IInv'
  BY <1>2 DEF Put
<1>3. CASE SyncDirs
  BY <1>3 DEF SyncDirs, Synced
<1>4. CASE RenameRefs
  BY <1>4 DEF RenameRefs
<1>5. CASE FsyncRefs
  BY <1>5 DEF FsyncRefs, NoBlock
<1>6. ASSUME NEW o \in Obj, Remove(o)
      PROVE  IInv'
  BY <1>6 DEF Remove, NoBlock
<1>7. CASE EndBlock
  BY <1>7 DEF EndBlock, NoBlock
<1>8. ASSUME NEW kept \in SUBSET Obj, NEW file \in {named, onDisk}, PowerLoss(kept, file)
      PROVE  IInv'
  BY <1>8 DEF PowerLoss, NoBlock
<1>9. CASE ProcessCrash
  BY <1>9 DEF ProcessCrash, NoBlock
<1>10. CASE UNCHANGED vars
  BY <1>10 DEF vars
<1>11. QED
  BY <1>1, <1>2, <1>3, <1>4, <1>5, <1>6, <1>7, <1>8, <1>9, <1>10 DEF Next

(* The refs file and the object store never disagree after power losses and *)
(* process deaths, but about what a flush that died had put.                *)
THEOREM PowerLossSafe == Spec => []NoTornWindow
<1>1. Init => IInv
  BY InitIInv
<1>2. IInv /\ [Next]_vars => IInv'
  BY NextIInv
<1>3. IInv => NoTornWindow
  BY DEF IInv, NamedDurable, NoTornWindow
<1>4. QED
  BY <1>1, <1>2, <1>3, PTL DEF Spec
------------------------------------------------------------------------------
(* When only the process may die, entries never go back: it is enough that  *)
(* what a block will name is shown, or still to be put.                     *)
Shown ==
  /\ named \subseteq seen
  /\ phase = "put" => block.put \subseteq seen
  /\ phase = "put" => block.next \subseteq seen \cup block.objs
  /\ phase = "synced" => block.next \subseteq seen

(* Every step but a power loss keeps it.                                    *)
LEMMA NextShown ==
  ASSUME ~PowerLosses, TypeOK, Shown, [Next]_vars
  PROVE  TypeOK' /\ Shown'
<1> USE DEF TypeOK, Shown
<1>1. ASSUME NEW objs \in SUBSET Obj, NEW next \in SUBSET Obj, HandOver(objs, next)
      PROVE  TypeOK' /\ Shown'
  BY <1>1 DEF HandOver
<1>2. ASSUME NEW o \in Obj, Put(o)
      PROVE  TypeOK' /\ Shown'
  BY <1>2, DiskAssumption DEF Put
<1>3. CASE SyncDirs
  BY <1>3, DiskAssumption DEF SyncDirs, Synced
<1>4. CASE RenameRefs
  BY <1>4 DEF RenameRefs
<1>5. CASE FsyncRefs
  BY <1>5 DEF FsyncRefs, NoBlock
<1>6. ASSUME NEW o \in Obj, Remove(o)
      PROVE  TypeOK' /\ Shown'
  BY <1>6 DEF Remove
<1>7. CASE EndBlock
  BY <1>7 DEF EndBlock
<1>8. CASE ProcessCrash
  BY <1>8 DEF ProcessCrash, NoBlock
<1>9. CASE UNCHANGED vars
  BY <1>9 DEF vars
<1>10. QED
  BY <1>1, <1>2, <1>3, <1>4, <1>5, <1>6, <1>7, <1>8, <1>9 DEF Next, PowerLoss

(* The refs file and the object store never disagree after a process crash  *)
(* and the replay that follows, as long as the machine stays up.            *)
THEOREM ProcessCrashSafe ==
  ASSUME ~PowerLosses
  PROVE  Spec => [](named \subseteq seen)
<1>1. Init => TypeOK /\ Shown
  BY DEF Init, TypeOK, Shown, NoBlock
<1>2. (TypeOK /\ Shown) /\ [Next]_vars => (TypeOK /\ Shown)'
  BY NextShown
<1>3. TypeOK /\ Shown => named \subseteq seen
  BY DEF Shown
<1>4. QED
  BY <1>1, <1>2, <1>3, PTL DEF Spec
------------------------------------------------------------------------------
(* Joining touches the canonical directory by the disk's own steps only: a  *)
(* promotion is a block, its failure a process death between two of them.   *)
LEMMA ScratchStep ==
  ASSUME ScratchTypeOK, [ScratchNext]_allVars
  PROVE  [Next]_vars
<1>1. CASE \E a \in Attempt : Prepare(a)
  BY <1>1 DEF Prepare, vars
<1>2. CASE \E d \in Attempt \cup {Canonical} : SeedFrom(d)
  BY <1>2 DEF SeedFrom, vars
<1>3. CASE \E t \in Target : Install(t)
  BY <1>3 DEF Install, vars
<1>4. CASE \E o \in Obj : Land(o)
  BY <1>4 DEF Land, vars
<1>5. CASE GiveUp
  BY <1>5 DEF GiveUp, vars
<1>6. CASE Promote
  <2>1. scratch[live] \in SUBSET Obj /\ want \in SUBSET Obj
    BY <1>6 DEF Promote, Open, ScratchTypeOK
  <2>2. QED
    BY <1>6, <2>1 DEF Promote, Next
<1>7. CASE EndPromote
  BY <1>7 DEF EndPromote, Next
<1>8. CASE PromoteFails
  BY <1>8 DEF PromoteFails, Next
<1>9. CASE Flush \/ Serve
  BY <1>9 DEF Flush, Serve, Next
<1>10. CASE Restart
  BY <1>10 DEF Restart, Next
<1>11. CASE UNCHANGED allVars
  BY <1>11 DEF allVars
<1>12. QED
  BY <1>1, <1>2, <1>3, <1>4, <1>5, <1>6, <1>7, <1>8, <1>9, <1>10, <1>11 DEF ScratchNext

(* An attempt is never its own source, and none waits for a source when     *)
(* there is no attempt.                                                     *)
Seeding == live \notin todo /\ (live = Canonical => todo = {})

JoinInv == ScratchTypeOK /\ Seeding /\ LandedHeld

(* The disk keeps its types, whatever fails.                                *)
LEMMA NextTypeOK ==
  ASSUME TypeOK, [Next]_vars
  PROVE  TypeOK'
BY DiskAssumption
   DEF TypeOK, Next, vars, HandOver, Put, SyncDirs, Synced, RenameRefs, FsyncRefs,
       Remove, EndBlock, ProcessCrash, PowerLoss, NoBlock

(* Every step keeps what was fetched within reach of the next attempt.      *)
LEMMA NextJoinInv ==
  ASSUME TypeOK, JoinInv, [ScratchNext]_allVars
  PROVE  JoinInv'
<1> USE ScratchAssumption DEF JoinInv, ScratchTypeOK, Seeding, LandedHeld
<1>1. ASSUME NEW a \in Attempt, Prepare(a)
      PROVE  JoinInv'
  BY <1>1 DEF Prepare, Stale
<1>2. ASSUME NEW d \in Attempt \cup {Canonical}, SeedFrom(d)
      PROVE  JoinInv'
  <2>1. PICK left \in SUBSET Entries(d) : scratch' = Seed(d, left)
    BY <1>2 DEF SeedFrom
  <2>2. /\ live \in Attempt /\ d # live /\ todo' = todo \ {d}
        /\ UNCHANGED <<live, want, landed, used>>
    BY <1>2 DEF SeedFrom
  <2>3. Entries(d) \subseteq Obj
    BY DEF Entries, TypeOK
  <2>4. scratch' = [a \in Attempt |-> IF a = d THEN left
                      ELSE IF a = live THEN scratch[a] \cup Entries(d) ELSE scratch[a]]
    BY <2>1 DEF Seed
  <2>5. ScratchTypeOK' /\ Seeding'
    BY <2>2, <2>3, <2>4
  <2>6. ASSUME NEW o \in landed
        PROVE  \E a \in Attempt : o \in scratch'[a] /\ (a = live \/ a \in todo \ {d})
    <3>1. PICK a \in Attempt : o \in scratch[a] /\ (a = live \/ a \in todo)
      BY <2>2
    <3>2. CASE a = d
      <4>1. o \in Entries(d)
        BY <3>1, <3>2 DEF Entries
      <4>2. QED
        BY <2>2, <2>4, <4>1
    <3>3. CASE a # d
      BY <2>2, <2>4, <3>1, <3>3
    <3>4. QED
      BY <3>2, <3>3
  <2>7. QED
    BY <2>2, <2>5, <2>6
<1>3. ASSUME NEW t \in Target, Install(t)
      PROVE  JoinInv'
  BY <1>3 DEF Install
<1>4. ASSUME NEW o \in Obj, Land(o)
      PROVE  JoinInv'
  <2>1. live \in Attempt /\ scratch' = [scratch EXCEPT ![live] = @ \cup {o}]
        /\ landed' = landed \cup {o} /\ UNCHANGED <<live, todo, want, used>>
    BY <1>4 DEF Land, Open
  <2>2. \A a \in Attempt : scratch[a] \subseteq scratch'[a] /\ scratch'[a] \subseteq Obj
    BY <2>1
  <2>3. o \in scratch'[live]
    BY <2>1
  <2>4. QED
    BY <2>1, <2>2, <2>3
<1>5. CASE GiveUp
  BY <1>5 DEF GiveUp, Leave
<1>6. CASE Promote
  BY <1>6 DEF Promote, joinVars
<1>7. CASE EndPromote
  BY <1>7 DEF EndPromote, Leave
<1>8. CASE PromoteFails
  BY <1>8 DEF PromoteFails, Leave
<1>9. CASE (Flush \/ Serve) /\ UNCHANGED joinVars
  BY <1>9 DEF joinVars
<1>10. CASE Restart
  BY <1>10 DEF Restart, SweepStale, Leave
<1>11. CASE UNCHANGED allVars
  BY <1>11 DEF allVars, joinVars
<1>12. QED
  BY <1>1, <1>2, <1>3, <1>4, <1>5, <1>6, <1>7, <1>8, <1>9, <1>10, <1>11 DEF ScratchNext

(* With state sync beside the blocks: whatever attempts are made, promoted, *)
(* fail in their promotion or die, and whenever power goes, the refs file   *)
(* names only objects that are there, but for those a flush or a promotion  *)
(* that stopped half way had put and not fsynced.                           *)
THEOREM JoinsPowerLossSafe == ScratchSpec => []NoTornWindow
<1>1. ScratchInit => IInv /\ JoinInv
  BY InitIInv, ScratchAssumption
     DEF ScratchInit, JoinInv, ScratchTypeOK, Seeding, LandedHeld
<1>2. (IInv /\ JoinInv) /\ [ScratchNext]_allVars => (IInv /\ JoinInv)'
  BY ScratchStep, NextIInv, NextJoinInv DEF JoinInv, IInv
<1>3. IInv /\ JoinInv => NoTornWindow
  BY DEF IInv, NamedDurable, NoTornWindow
<1>4. QED
  BY <1>1, <1>2, <1>3, PTL DEF ScratchSpec

(* However attempts fail, the next one is seeded with all they fetched.     *)
THEOREM RetriesKeep == ScratchSpec => []RetryKeeps
<1>1. ScratchInit => TypeOK /\ JoinInv
  BY InitIInv, ScratchAssumption
     DEF IInv, ScratchInit, JoinInv, ScratchTypeOK, Seeding, LandedHeld
<1>2. (TypeOK /\ JoinInv) /\ [ScratchNext]_allVars => (TypeOK /\ JoinInv)'
  BY ScratchStep, NextTypeOK, NextJoinInv DEF JoinInv
<1>3. TypeOK /\ JoinInv => RetryKeeps
  BY DEF JoinInv, LandedHeld, RetryKeeps, Open, Seeding
<1>4. QED
  BY <1>1, <1>2, <1>3, PTL DEF ScratchSpec
==============================================================================
