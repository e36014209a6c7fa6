------------------------------- MODULE DuckfsSync -------------------------------
(***************************************************************************)
(* State sync of the duckfs core: a node installs a peer's refs image,     *)
(* then asks for the objects the image reaches and it does not hold, round *)
(* after round, until a verified walk finds nothing missing (fs.rs:985-    *)
(* 1133, gc.rs:78-300).  Children of a missing object are unknown until it *)
(* arrives; a reply is capped in ids and in bytes; peers lack objects or   *)
(* hold corrupt copies, move on to newer images and sweep; replies get     *)
(* lost or come late; chunks on the joiner's disk rot.                     *)
(*                                                                         *)
(* The driver of the rounds is a host's, outside the repository: install,  *)
(* then { missing_objects, GetObjects, ingest } (fs.rs:1087-1091).         *)
(***************************************************************************)
EXTENDS Naturals, Sequences, FiniteSets

CONSTANTS
  Obj,       \* objects
  Order,     \* their ids in sorted order, a sequence
  Kids,      \* the edges of the object graph: what an object's body names
  Chunk,     \* the leaves: bodies nobody decodes
  Cost,      \* bytes an object takes in a reply
  Image,     \* refs images in block order: the roots each one names
  Peer,      \* who serves
  Lost,      \* Lost[p]: objects a peer has lost for good
  Spoilt,    \* Spoilt[p]: objects of which a peer's copy is corrupt
  Limit,     \* ids in a request, at most MAX_SYNC_IDS
  ReplyCap,  \* MAX_SYNC_REPLY_BYTES
  None,
  MaxRot,    \* bound: chunks that rot on the joiner
  MaxCrash,  \* bound: restarts of the joiner
  MaxForge   \* bound: answers with wrong bytes in them

ASSUME SyncAssumption ==
  /\ IsFiniteSet(Obj) /\ Chunk \subseteq Obj
  /\ Order \in Seq(Obj) /\ \A o \in Obj : \E i \in 1..Len(Order) : Order[i] = o
  /\ Kids \in [Obj -> SUBSET Obj] /\ \A o \in Chunk : Kids[o] = {}
  /\ Cost \in [Obj -> Nat] /\ Image \in Seq(SUBSET Obj) /\ Image # <<>> /\ None \notin Nat
  /\ Lost \in [Peer -> SUBSET Obj] /\ Spoilt \in [Peer -> SUBSET Obj]
  /\ Limit \in Nat \ {0} /\ ReplyCap \in Nat /\ MaxRot \in Nat /\ MaxCrash \in Nat /\ MaxForge \in Nat

VARIABLES
  at,      \* at[p]: the image peer p has committed
  refs,    \* the joiner's committed refs: an image, 0 for genesis
  saved,   \* its refs file
  pend,    \* its block overlay: the refs it was forked from, or None
  store,   \* its odb: each object "absent", "good" or "bad"
  talk,    \* talk[p]: the round with peer p
  ready,   \* the verified walk found nothing missing since refs were installed
  rots, crashes, forges

vars == <<at, refs, saved, pend, store, talk, ready, rots, crashes, forges>>

Idle == [objs |-> {}, forged |-> {}]
Roots(i) == IF i = 0 THEN {} ELSE Image[i]

(* What is reached from some roots, descending into the objects of `seen`.  *)
Grown(objs, seen) == UNION {{o} \cup (IF o \in seen THEN Kids[o] ELSE {}) : o \in objs}
Walk(roots, seen) ==
  LET step[n \in 0..Cardinality(Obj)] ==
        IF n = 0 THEN roots ELSE Grown(step[n - 1], seen)
  IN step[Cardinality(Obj)]

Reach(i) == Walk(Roots(i), Obj)

Init ==
  /\ at \in [Peer -> {1}]
  /\ refs = 0 /\ saved = 0 /\ pend = None
  /\ store = [o \in Obj |-> "absent"]
  /\ talk = [p \in Peer |-> Idle]
  /\ ready = FALSE /\ rots = 0 /\ crashes = 0 /\ forges = 0

------------------------------------------------------------------------------
(* The joiner's walks.                                                      *)
Present == {o \in Obj : store[o] # "absent"}
Good == {o \in Obj : store[o] = "good"}

(* collect: fetch refuses a corrupt object it has to decode                 *)
Undecodable == (Walk(Roots(refs), Present) \cap Present) \ (Good \cup Chunk)

(* missing_objects: a presence walk, sorted and truncated                   *)
Missing == Walk(Roots(refs), Present) \ Present
Prefix(ids) == SubSeq(ids, 1, IF Len(ids) < Limit THEN Len(ids) ELSE Limit)
Sorted(objs) == SelectSeq(Order, LAMBDA o : o \in objs)
MissingObjects == Prefix(Sorted(Missing))

(* serve_sync: in request order; the first present object is always served, *)
(* but one whose copy is corrupt fails the whole request                    *)
Held(p) == Reach(at[p]) \ Lost[p]
Fails(p, ids) == \E i \in 1..Len(ids) : ids[i] \in Held(p) \cap Spoilt[p]
ServedCapped(p, ids) ==   \* mutant: the cap holds for the first object too
  LET take[i \in 0..Len(ids)] ==
        IF i = 0 THEN [objs |-> {}, spent |-> 0]
        ELSE LET t == take[i - 1] IN
             IF ids[i] \in Held(p) /\ t.spent + Cost[ids[i]] <= ReplyCap
             THEN [objs |-> t.objs \cup {ids[i]}, spent |-> t.spent + Cost[ids[i]]] ELSE t
  IN IF Fails(p, ids) THEN {} ELSE take[Len(ids)].objs
Served(p, ids) ==
  LET take[i \in 0..Len(ids)] ==
        IF i = 0 THEN [objs |-> {}, spent |-> 0]
        ELSE LET t == take[i - 1] IN
             IF ids[i] \in Held(p) /\ (t.objs = {} \/ t.spent + Cost[ids[i]] <= ReplyCap)
             THEN [objs |-> t.objs \cup {ids[i]}, spent |-> t.spent + Cost[ids[i]]] ELSE t
  IN IF Fails(p, ids) THEN {} ELSE take[Len(ids)].objs

------------------------------------------------------------------------------
(* A peer commits the next block and sweeps what its refs let go of.        *)
Advance(p) ==
  /\ at[p] < Len(Image)
  /\ at' = [at EXCEPT ![p] = @ + 1]
  /\ UNCHANGED <<refs, saved, pend, store, talk, ready, rots, crashes, forges>>

(* install_refs of an image that matches the expected root; any other bytes *)
(* are refused and change nothing.  A node too far behind to execute blocks *)
(* does the same, with whatever block it has open.                          *)
Install(p) ==
  /\ at[p] > refs
  /\ refs' = at[p] /\ pend' = None /\ ready' = FALSE
  /\ UNCHANGED <<at, saved, store, talk, rots, crashes, forges>>

(* A round: ask a peer for the missing prefix and be answered from what it  *)
(* holds; a peer may put wrong bytes under a name it was asked for ...      *)
Ask(p) ==
  /\ ~ready /\ talk[p] = Idle
  /\ Undecodable = {} /\ Missing # {}
  /\ \E ids \in {MissingObjects} : \E forged \in {{}} \cup {{ids[i]} : i \in 1..Len(ids)} :
       /\ forges' = forges + Cardinality(forged) /\ forges' <= MaxForge
       /\ talk' = [talk EXCEPT ![p] = [objs |-> Served(p, ids) \ forged, forged |-> forged]]
  /\ UNCHANGED <<at, refs, saved, pend, store, ready, rots, crashes>>

(* ... the answer is ingested: verify the id, then put.  A name that exists *)
(* is left alone (disk.rs:105).                                             *)
Ingested(m) == [o \in Obj |-> IF store[o] = "absent" /\ o \in m.objs THEN "good" ELSE store[o]]
Ingest(p) ==
  /\ talk[p] # Idle
  /\ store' = Ingested(talk[p])
  /\ talk' = [talk EXCEPT ![p] = Idle]
  /\ UNCHANGED <<at, refs, saved, pend, ready, rots, crashes, forges>>

(* ... or it is lost.                                                       *)
Lose(p) ==
  /\ talk[p] # Idle
  /\ talk' = [talk EXCEPT ![p] = Idle]
  /\ UNCHANGED <<at, refs, saved, pend, store, ready, rots, crashes, forges>>

(* possession_complete: the walk again, re-hashing chunks; a corrupt one is *)
(* removed and counts as missing (disk.rs:168-198).                         *)
CheckTrusting ==   \* mutant: counts files instead of re-hashing them
  /\ ready' = (Missing = {}) /\ UNCHANGED store
Check ==
  LET walk == Walk(Roots(refs), Present) IN
  /\ ready' = (walk \subseteq Good)
  /\ store' = [o \in Obj |-> IF o \in walk /\ store[o] = "bad" THEN "absent" ELSE store[o]]
PossessionComplete ==
  /\ ~ready /\ refs # 0 /\ Missing = {} /\ Undecodable = {}
  /\ Check
  /\ UNCHANGED <<at, refs, saved, pend, talk, rots, crashes, forges>>

------------------------------------------------------------------------------
(* The joiner as a node: it executes blocks once it is ready, commits them  *)
(* and sweeps; a chunk may rot, the process may die.                        *)
NextBlock == refs < Len(Image)
Execute ==
  /\ ready /\ pend = None /\ NextBlock
  /\ pend' = refs
  /\ UNCHANGED <<at, refs, saved, store, talk, ready, rots, crashes, forges>>

CommitBlock ==
  /\ pend # None
  /\ store' = [o \in Obj |-> IF store[o] = "absent" /\ o \in Reach(pend + 1) \ Reach(pend)
                             THEN "good" ELSE store[o]]
  /\ refs' = pend + 1 /\ saved' = pend + 1 /\ pend' = None
  /\ UNCHANGED <<at, talk, ready, rots, crashes, forges>>

AbortBlock ==
  /\ pend # None /\ pend' = None
  /\ UNCHANGED <<at, refs, saved, store, talk, ready, rots, crashes, forges>>

(* gc: mark errors on a missing object, and then nothing is removed         *)
MarkedPartly == TRUE   \* mutant: sweeps on a mark that skipped what is missing
Marked == Missing = {} /\ Undecodable = {}
Gc ==
  /\ Marked
  /\ store' = [o \in Obj |-> IF o \in Walk(Roots(refs), Present) THEN store[o] ELSE "absent"]
  /\ UNCHANGED <<at, refs, saved, pend, talk, ready, rots, crashes, forges>>

Rot(o) ==
  /\ rots < MaxRot /\ o \in Chunk /\ store[o] = "good"
  /\ store' = [store EXCEPT ![o] = "bad"] /\ rots' = rots + 1
  /\ UNCHANGED <<at, refs, saved, pend, talk, ready, crashes, forges>>

Crash ==
  /\ crashes < MaxCrash /\ crashes' = crashes + 1
  /\ refs' = saved /\ pend' = None /\ ready' = FALSE
  /\ talk' = [p \in Peer |-> Idle]
  /\ UNCHANGED <<at, saved, store, rots, forges>>

Next ==
  \/ \E p \in Peer :
       Advance(p) \/ Install(p) \/ Ask(p) \/ Ingest(p) \/ Lose(p)
  \/ PossessionComplete \/ Execute \/ CommitBlock \/ AbortBlock \/ Gc
  \/ \E o \in Chunk : Rot(o)
  \/ Crash

(* The chain goes on; the driver keeps asking every peer, installs a newer  *)
(* image when there is one and checks when nothing is missing; a link that  *)
(* is tried for ever works infinitely often.                                *)
Fairness ==
  /\ \A p \in Peer : /\ WF_vars(Advance(p)) /\ WF_vars(~ready /\ Install(p))
                     /\ WF_vars(Ask(p)) /\ SF_vars(Ingest(p))
  /\ WF_vars(PossessionComplete)

Spec == Init /\ [][Next]_vars /\ Fairness

------------------------------------------------------------------------------
(* Properties *)

(* A node goes ready only with every byte its refs reach, re-hashed: a      *)
(* corrupt chunk or one the last round left out is never waved through.     *)
ReadyPossesses == [][ready' /\ ~ready => \A o \in Reach(refs') : store'[o] = "good"]_vars

(* What a node holds of the state it committed stays until a newer image is *)
(* installed: no sweep takes an intact object it still needs, during a sync *)
(* or after.                                                                *)
SweepsSpare ==
  [][refs' = refs => \A o \in Reach(refs) : store[o] = "good" => store'[o] # "absent"]_vars

(* Through lost, late, truncated and wrong answers, peers that each lack    *)
(* something, new images, rot and restarts, the joiner ends up in           *)
(* possession of a whole image.                                             *)
Converges == <>[]ready
==============================================================================
