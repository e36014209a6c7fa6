----------------------------- MODULE DuckfsScratch -----------------------------
(***************************************************************************)
(* The scratch directories of state sync (scratch.rs) beside the canonical *)
(* one of DuckfsDisk: an attempt to join gets a directory of its own, is   *)
(* seeded with what is there, fetches the rest, and is promoted: the       *)
(* canonical store takes what it lacks, is fsynced, and only then its refs *)
(* file is replaced, by the steps a block takes (Put to FsyncRefs).        *)
(*                                                                         *)
(* What an attempt fetches and when it gives up is the node's business:    *)
(* external, and so is its gate, that all the refs reach is held           *)
(* (DuckfsSync).  Object files do not rot here.                            *)
(***************************************************************************)
EXTENDS DuckfsDisk

CONSTANTS
  Attempt,   \* numbers of attempts, each used once by a process
  Canonical, \* no attempt: the canonical directory
  Target     \* bound: what the refs to join may reach

ASSUME ScratchAssumption ==
  /\ Canonical \notin Attempt
  /\ Target \subseteq SUBSET Obj

VARIABLES
  scratch,   \* the objects in an attempt's directory, {} if there is none
  live,      \* the attempt under way, or Canonical
  todo,      \* the directories it has yet to be seeded from
  want,      \* what the refs installed in the live scratch reach
  landed,    \* history: what this process fetched and did not promote
  used       \* the numbers this process has used

joinVars == <<scratch, live, todo, want, landed, used>>
allVars == <<vars, joinVars>>

ScratchTypeOK ==
  /\ scratch \in [Attempt -> SUBSET Obj]
  /\ live \in Attempt \cup {Canonical}
  /\ todo \subseteq Attempt \cup {Canonical}
  /\ want \subseteq Obj /\ landed \subseteq Obj /\ used \subseteq Attempt

ScratchInit ==
  /\ Init
  /\ scratch = [a \in Attempt |-> {}] /\ live = Canonical /\ todo = {}
  /\ want = {} /\ landed = {} /\ used = {}

------------------------------------------------------------------------------
(* SyncScratch::prepare, by a caller that holds no store: what it will be   *)
(* seeded from.  A directory of its own name is a dead process's: the refs  *)
(* go, the objects stay.                                                    *)
Stale(a) == {b \in Attempt \ {a} : scratch[b] # {}}

Prepare(a) ==
  /\ phase = "idle" /\ live = Canonical /\ a \notin used
  /\ live' = a /\ todo' = {Canonical} \cup Stale(a)
  /\ used' = used \cup {a} /\ want' = {}
  /\ UNCHANGED <<vars, scratch, landed>>

Entries(d) == IF d = Canonical THEN seen ELSE scratch[d]

SeedSpends(d, left) ==   \* mutant: a stale directory goes before it is read
  [a \in Attempt |-> IF a = d THEN left
                     ELSE IF a = live /\ d = Canonical THEN scratch[a] \cup seen
                     ELSE scratch[a]]
Seed(d, left) ==
  [a \in Attempt |-> IF a = d THEN left
                     ELSE IF a = live THEN scratch[a] \cup Entries(d) ELSE scratch[a]]

(* merge_objects, the canonical directory first.  A spent one is removed,   *)
(* as far as that succeeds.                                                 *)
SeedFrom(d) ==
  /\ d \in todo /\ (d # Canonical => Canonical \notin todo)
  /\ todo' = todo \ {d}
  /\ \E left \in SUBSET Entries(d) : scratch' = Seed(d, left)
  /\ UNCHANGED <<vars, live, want, landed, used>>

Open == live # Canonical /\ todo = {} /\ phase = "idle"

(* The joiner's Files, opened in the scratch, installs refs and ingests     *)
(* what it lacks of what they reach.                                        *)
Install(t) ==
  /\ Open /\ want' = t
  /\ UNCHANGED <<vars, scratch, live, todo, landed, used>>

Land(o) ==
  /\ Open /\ o \in want \ scratch[live]
  /\ scratch' = [scratch EXCEPT ![live] = @ \cup {o}]
  /\ landed' = landed \cup {o}
  /\ UNCHANGED <<vars, live, todo, want, used>>

Leave == live' = Canonical /\ todo' = {} /\ want' = {}

(* An attempt fails, in prepare or later; its directory stays.              *)
GiveUp ==
  /\ live # Canonical /\ phase = "idle" /\ Leave
  /\ UNCHANGED <<vars, scratch, landed, used>>

------------------------------------------------------------------------------
(* SyncScratch::promote: place what the canonical store lacks, fsync the    *)
(* directories touched, replace the refs file, remove the scratch.  Then    *)
(* nothing is owed to a retry.                                              *)
Promote ==
  /\ Open /\ want # {} /\ want \subseteq scratch[live]
  /\ HandOver(scratch[live], want)
  /\ UNCHANGED joinVars

EndPromote ==
  /\ live # Canonical /\ EndBlock /\ Leave
  /\ \E left \in SUBSET scratch[live] : scratch' = [scratch EXCEPT ![live] = left]
  /\ landed' = {}
  /\ UNCHANGED used

(* It fails half way, and forgets which directories it touched.             *)
PromoteFails ==
  /\ live # Canonical /\ phase \in {"put", "synced", "renamed"} /\ ProcessCrash /\ Leave
  /\ UNCHANGED <<scratch, landed, used>>

------------------------------------------------------------------------------
(* sweep_stale at boot, as far as it succeeds: what survived is at most a   *)
(* seed.  A new process counts its attempts from the start.                 *)
SweepStale ==
  /\ \E left \in SUBSET {p \in Attempt \X Obj : p[2] \in scratch[p[1]]} :
       scratch' = [a \in Attempt |-> {o \in scratch[a] : <<a, o>> \in left}]
  /\ landed' = {} /\ used' = {} /\ Leave

Restart ==
  /\ \/ ProcessCrash
     \/ \E kept \in SUBSET Obj, file \in {named, onDisk} : PowerLoss(kept, file)
  /\ SweepStale

(* The node's own blocks, while no attempt is under way; the flush is one.  *)
Flush == (\E o \in Obj : Put(o)) \/ SyncDirs \/ RenameRefs \/ FsyncRefs

Serve ==
  /\ live = Canonical
  /\ \/ \E objs, next \in SUBSET Obj : HandOver(objs, next)
     \/ \E o \in Obj : Remove(o)
     \/ EndBlock

ScratchNext ==
  \/ \E a \in Attempt : Prepare(a)
  \/ \E d \in Attempt \cup {Canonical} : SeedFrom(d)
  \/ \E t \in Target : Install(t)
  \/ \E o \in Obj : Land(o)
  \/ GiveUp \/ Promote \/ EndPromote \/ PromoteFails
  \/ (Flush \/ Serve) /\ UNCHANGED joinVars
  \/ Restart

ScratchSpec == ScratchInit /\ [][ScratchNext]_allVars

------------------------------------------------------------------------------
(* Properties.                                                              *)

(* scratch.rs:19: "keeping the object fetch incremental ... a retry never   *)
(* refetches what a failed attempt already landed."  However attempts fail, *)
(* in the middle of their seeding or of their promotion too, and whatever a *)
(* block sweeps in between, the next one holds what all of them fetched.    *)
RetryKeeps == Open => landed \subseteq scratch[live]

(* Its inductive form: what is owed lies in the live directory or in one it *)
(* is still to be seeded from.                                              *)
LandedHeld ==
  \A o \in landed : \E a \in Attempt :
    o \in scratch[a] /\ (live = Canonical \/ a = live \/ a \in todo)
==============================================================================
