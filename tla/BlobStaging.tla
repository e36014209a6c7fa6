------------------------------ MODULE BlobStaging ------------------------------
(***************************************************************************)
(* Streaming staging of the blob store (kernel/blobstore/src/staging.rs):  *)
(* writers append to files of the staging directory, verify the file and   *)
(* rename it to its content address, while a sweeper removes the partials  *)
(* nobody touched for a while.  A slot (StagedBlob) is named by the digest *)
(* it expects and held by one writer; an ingest (IngestBlob) has a file    *)
(* name of its own and learns its digest when it is sealed.                *)
(*                                                                         *)
(* A directory entry and an open file differ: a writer keeps its inode     *)
(* when the entry is removed.  The system calls of one operation are       *)
(* separate steps; only the claim registry is under the store's mutex.     *)
(*                                                                         *)
(* A file holds so many units of one payload, in order, or something else  *)
(* (good = FALSE).  The whole payload d hashes to d and nothing else does. *)
(***************************************************************************)
EXTENDS Naturals, FiniteSets

CONSTANTS
  Digest,       \* digests, each the name of one payload
  Size,         \* units of every payload
  Writer,       \* tasks that may hold a slot
  Ingest,       \* tasks that may hold an ingest; each names its own file
  Inode,        \* files
  NoFile,       \* no directory entry, no open file
  LateAppend    \* may a caller append to an ingest it has sealed

ASSUME StagingAssumption ==
  /\ Size \in Nat \ {0}
  /\ NoFile \notin Inode /\ Digest \cap Ingest = {}
  /\ {NoFile, "other"} \cap (Digest \cup Ingest) = {}
  /\ LateAppend \in BOOLEAN

VARIABLES
  dir,      \* <root>/staging: name -> file
  blob,     \* <root>: digest -> published file
  data,     \* what each file holds
  stale,    \* files whose mtime is older than the resume window
  claims,   \* BlobStore::staging
  slot,     \* slot[w], the StagedBlob of a writer
  ingest,   \* ingest[i], the IngestBlob of an ingest task
  sweep     \* the sweep in progress: its snapshot of live names, its place

vars == <<dir, blob, data, stale, claims, slot, ingest, sweep>>

Name == Digest \cup Ingest

Content == [of : Digest \cup {NoFile}, len : 0..Size + 1, good : BOOLEAN]
Holds(c, d) == c.of = d /\ c.len = Size /\ c.good

(* late is history: the claim came after the snapshot of a running sweep.   *)
NoSlot == [at |-> "idle", of |-> NoFile, fd |-> NoFile, want |-> 0, written |-> 0,
           late |-> FALSE]
NoIngest == [at |-> "idle", fd |-> NoFile, sealed |-> NoFile]
NoSweep == [on |-> FALSE, live |-> {}, seen |-> {}, doomed |-> NoFile]

SlotStates == {"idle", "claimed", "open", "verified", "leaving"}

Slots == [at : SlotStates, of : Digest \cup {NoFile}, fd : Inode \cup {NoFile},
          want : 0..Size + 1, written : 0..Size + 1, late : BOOLEAN]
Ingests == [at : {"idle", "open"}, fd : Inode \cup {NoFile},
            sealed : Digest \cup {NoFile, "other"}]

TypeOK ==
  /\ dir \in [Name -> Inode \cup {NoFile}]
  /\ blob \in [Digest -> Inode \cup {NoFile}]
  /\ data \in [Inode -> Content] /\ stale \subseteq Inode /\ claims \subseteq Digest
  /\ slot \in [Writer -> Slots] /\ ingest \in [Ingest -> Ingests]
  /\ sweep \in [on : BOOLEAN, live : SUBSET Digest, seen : SUBSET Name,
                doomed : Name \cup {NoFile}]

Init ==
  /\ dir = [n \in Name |-> NoFile] /\ blob = [d \in Digest |-> NoFile]
  /\ data = [f \in Inode |-> [of |-> NoFile, len |-> 0, good |-> TRUE]]
  /\ stale = {} /\ claims = {}
  /\ slot = [w \in Writer |-> NoSlot] /\ ingest = [i \in Ingest |-> NoIngest]
  /\ sweep = NoSweep

------------------------------------------------------------------------------
(* Files *)

Used == {dir[n] : n \in Name} \cup {blob[d] : d \in Digest}
          \cup {slot[w].fd : w \in Writer} \cup {ingest[i].fd : i \in Ingest}
Free == Inode \ Used

Fresh(f) == stale \ {f}

(* What appending one unit leaves; a unit that does not belong spoils it.   *)
Grown(c, right) ==
  IF c.len > Size THEN [c EXCEPT !.good = FALSE]
  ELSE [c EXCEPT !.len = @ + 1, !.good = @ /\ right]

------------------------------------------------------------------------------
(* Slots: BlobHandle::stage and StagedBlob *)

Late(d) == sweep.on /\ d \notin sweep.live

StageUnclaimed(w, d, want) ==   \* mutant: no refusal of a second opener
  /\ slot[w].at = "idle"
  /\ claims' = claims \cup {d}
  /\ slot' = [slot EXCEPT ![w] = [NoSlot EXCEPT !.at = "claimed", !.of = d, !.want = want,
                                            !.late = Late(d)]]
  /\ UNCHANGED <<dir, blob, data, stale, ingest, sweep>>

(* The claim, under the mutex; a held digest is refused.                    *)
Stage(w, d, want) ==
  /\ slot[w].at = "idle" /\ d \notin claims
  /\ claims' = claims \cup {d}
  /\ slot' = [slot EXCEPT ![w] = [NoSlot EXCEPT !.at = "claimed", !.of = d, !.want = want,
                                            !.late = Late(d)]]
  /\ UNCHANGED <<dir, blob, data, stale, ingest, sweep>>

(* Opening creates the file or resumes it; opening alone leaves its mtime.  *)
(* A file longer than the declared length is truncated.                     *)
OpenSlot(w) ==
  /\ slot[w].at = "claimed"
  /\ LET d == slot[w].of IN
     IF dir[d] = NoFile
     THEN \E f \in Free :
            /\ dir' = [dir EXCEPT ![d] = f]
            /\ data' = [data EXCEPT ![f] = [of |-> d, len |-> 0, good |-> TRUE]]
            /\ stale' = Fresh(f)
            /\ slot' = [slot EXCEPT ![w].at = "open", ![w].fd = f]
     ELSE LET f == dir[d] IN
          /\ slot' = [slot EXCEPT ![w].at = "open", ![w].fd = f,
                        ![w].written = IF data[f].len > slot[w].want THEN 0 ELSE data[f].len]
          /\ IF data[f].len > slot[w].want
             THEN /\ data' = [data EXCEPT ![f] = [of |-> d, len |-> 0, good |-> TRUE]]
                  /\ stale' = Fresh(f)
             ELSE UNCHANGED <<data, stale>>
          /\ UNCHANGED dir
  /\ UNCHANGED <<blob, claims, ingest, sweep>>

(* append: a unit of the payload or of something else; the write may fail   *)
(* after the bytes landed, and then written does not move.                  *)
AppendSlot(w, right, counted) ==
  /\ slot[w].at = "open" /\ slot[w].written < slot[w].want
  /\ LET f == slot[w].fd IN
     data' = [data EXCEPT ![f] = Grown(@, right)] /\ stale' = Fresh(f)
  /\ slot' = [slot EXCEPT ![w].written = IF counted THEN @ + 1 ELSE @]
  /\ UNCHANGED <<dir, blob, claims, ingest, sweep>>

VerifyStream(w) ==   \* mutant: trusts the count of its own appends
  /\ slot[w].at = "open" /\ slot[w].written = slot[w].want /\ slot[w].want = Size
  /\ slot' = [slot EXCEPT ![w].at = "verified"]
  /\ UNCHANGED <<dir, blob, data, stale, claims, ingest, sweep>>

(* finish, first half: the right count, and then the FILE is hashed.        *)
Verify(w) ==
  /\ slot[w].at = "open" /\ slot[w].written = slot[w].want
  /\ data[slot[w].fd].len = slot[w].want /\ Holds(data[slot[w].fd], slot[w].of)
  /\ slot' = [slot EXCEPT ![w].at = "verified"]
  /\ UNCHANGED <<dir, blob, data, stale, claims, ingest, sweep>>

(* finish of bytes that do not verify, and abort: the entry goes.           *)
Discard(w) ==
  /\ slot[w].at = "open"
  /\ dir' = [dir EXCEPT ![slot[w].of] = NoFile]
  /\ slot' = [slot EXCEPT ![w].at = "leaving"]
  /\ UNCHANGED <<blob, data, stale, claims, ingest, sweep>>

(* finish, second half: the rename, which fails when the entry is gone.     *)
Publish(w) ==
  /\ slot[w].at = "verified"
  /\ LET d == slot[w].of IN
     /\ blob' = [blob EXCEPT ![d] = IF dir[d] = NoFile THEN @ ELSE dir[d]]
     /\ dir' = [dir EXCEPT ![d] = NoFile]
  /\ slot' = [slot EXCEPT ![w].at = "leaving"]
  /\ UNCHANGED <<data, stale, claims, ingest, sweep>>

(* A short finish, an I/O error, or a task that died: the partial stays for *)
(* a resume.                                                                *)
Leave(w) ==
  /\ slot[w].at \in {"claimed", "open", "verified"}
  /\ slot' = [slot EXCEPT ![w].at = "leaving"]
  /\ UNCHANGED <<dir, blob, data, stale, claims, ingest, sweep>>

(* Dropping the claim, last of all.                                         *)
Release(w) ==
  /\ slot[w].at = "leaving"
  /\ claims' = claims \ {slot[w].of}
  /\ slot' = [slot EXCEPT ![w] = NoSlot]
  /\ UNCHANGED <<dir, blob, data, stale, ingest, sweep>>

------------------------------------------------------------------------------
(* Ingests *)

IngestOpen(i) ==
  /\ ingest[i].at = "idle" /\ dir[i] = NoFile
  /\ \E f \in Free, d \in Digest :
       /\ dir' = [dir EXCEPT ![i] = f]
       /\ data' = [data EXCEPT ![f] = [of |-> d, len |-> 0, good |-> TRUE]]
       /\ stale' = Fresh(f)
       /\ ingest' = [ingest EXCEPT ![i] = [NoIngest EXCEPT !.at = "open", !.fd = f]]
  /\ UNCHANGED <<blob, claims, slot, sweep>>

IngestAppend(i, right) ==
  /\ ingest[i].at = "open"
  /\ ingest[i].sealed # NoFile => LateAppend
  /\ LET f == ingest[i].fd IN
     data' = [data EXCEPT ![f] = Grown(@, right)] /\ stale' = Fresh(f)
  /\ UNCHANGED <<dir, blob, claims, slot, ingest, sweep>>

(* seal names what arrived; bytes of no payload of Digest have some other   *)
(* name.  It may be called again.                                           *)
Seal(i) ==
  /\ ingest[i].at = "open"
  /\ LET c == data[ingest[i].fd] IN
     ingest' = [ingest EXCEPT ![i].sealed = IF Holds(c, c.of) THEN c.of ELSE "other"]
  /\ UNCHANGED <<dir, blob, data, stale, claims, slot, sweep>>

(* publish renames to the sealed name, without a look at the bytes.  The    *)
(* name is taken from the ingest whether or not the rename succeeds.        *)
IngestPublish(i) ==
  /\ ingest[i].at = "open" /\ ingest[i].sealed # NoFile
  /\ LET d == ingest[i].sealed IN
     blob' = [e \in Digest |-> IF e = d /\ dir[i] # NoFile THEN dir[i] ELSE blob[e]]
  /\ dir' = [dir EXCEPT ![i] = NoFile]
  /\ ingest' = [ingest EXCEPT ![i] = NoIngest]
  /\ UNCHANGED <<data, stale, claims, slot, sweep>>

(* publish gives up its file before it can fail: the partial stays.         *)
IngestPublishFails(i) ==
  /\ ingest[i].at = "open" /\ ingest[i].sealed # NoFile
  /\ ingest' = [ingest EXCEPT ![i] = NoIngest]
  /\ UNCHANGED <<dir, blob, data, stale, claims, slot, sweep>>

(* Drop removes the file of an upload that died.                            *)
IngestDrop(i) ==
  /\ ingest[i].at = "open"
  /\ dir' = [dir EXCEPT ![i] = NoFile]
  /\ ingest' = [ingest EXCEPT ![i] = NoIngest]
  /\ UNCHANGED <<blob, data, stale, claims, slot, sweep>>

------------------------------------------------------------------------------
(* The sweeper and time *)

(* The resume window passes; a sweep takes far less than the window.        *)
Age(f) ==
  /\ ~sweep.on
  /\ f \in {dir[n] : n \in Name} \ (stale \cup {NoFile})
  /\ stale' = stale \cup {f}
  /\ UNCHANGED <<dir, blob, data, claims, slot, ingest, sweep>>

SweepBeginBlind ==   \* mutant: takes the boot sweep's empty set of live names
  /\ ~sweep.on
  /\ sweep' = [NoSweep EXCEPT !.on = TRUE]
  /\ UNCHANGED <<dir, blob, data, stale, claims, slot, ingest>>

(* sweep_staging reads the live names once, before the directory.           *)
SweepBegin ==
  /\ ~sweep.on
  /\ sweep' = [NoSweep EXCEPT !.on = TRUE, !.live = claims]
  /\ UNCHANGED <<dir, blob, data, stale, claims, slot, ingest>>

(* One entry: its metadata decides, and its removal is a later call.        *)
SweepStat(n) ==
  /\ sweep.on /\ sweep.doomed = NoFile /\ n \notin sweep.seen
  /\ dir[n] # NoFile
  /\ sweep' = [sweep EXCEPT !.seen = @ \cup {n},
                 !.doomed = IF n \notin sweep.live /\ dir[n] \in stale THEN n ELSE NoFile]
  /\ UNCHANGED <<dir, blob, data, stale, claims, slot, ingest>>

SweepRemove ==
  /\ sweep.doomed # NoFile
  /\ dir' = [dir EXCEPT ![sweep.doomed] = NoFile]
  /\ sweep' = [sweep EXCEPT !.doomed = NoFile]
  /\ UNCHANGED <<blob, data, stale, claims, slot, ingest>>

SweepEnd ==
  /\ sweep.on /\ sweep.doomed = NoFile
  /\ sweep' = NoSweep
  /\ UNCHANGED <<dir, blob, data, stale, claims, slot, ingest>>

(* The process dies and opens the store again: memory is gone, and the boot *)
(* sweep removes what is past the window.                                   *)
Restart ==
  /\ claims' = {} /\ slot' = [w \in Writer |-> NoSlot]
  /\ ingest' = [i \in Ingest |-> NoIngest] /\ sweep' = NoSweep
  /\ dir' = [n \in Name |-> IF dir[n] \in stale THEN NoFile ELSE dir[n]]
  /\ UNCHANGED <<blob, data, stale>>

Next ==
  \/ \E w \in Writer, d \in Digest, want \in {Size, Size + 1} : Stage(w, d, want)
  \/ \E w \in Writer :
       \/ OpenSlot(w)
       \/ \E right, counted \in BOOLEAN : AppendSlot(w, right, counted)
       \/ Verify(w) \/ Discard(w) \/ Publish(w) \/ Leave(w) \/ Release(w)
  \/ \E i \in Ingest :
       \/ IngestOpen(i)
       \/ \E right \in BOOLEAN : IngestAppend(i, right)
       \/ Seal(i) \/ IngestPublish(i) \/ IngestPublishFails(i) \/ IngestDrop(i)
  \/ \E f \in Inode : Age(f)
  \/ SweepBegin \/ \E n \in Name : SweepStat(n)
  \/ SweepRemove \/ SweepEnd
  \/ Restart

Spec == Init /\ [][Next]_vars

------------------------------------------------------------------------------
(* Properties *)

(* "a crashed or lying transfer can never leave a file whose name           *)
(* misdescribes its content" (staging.rs:8-9): a published file holds its  *)
(* payload now and for good, whoever resumed, truncated or swept before.    *)
NamesDescribe == \A d \in Digest : blob[d] # NoFile => Holds(data[blob[d]], d)

(* A slot is exclusive from the claim to the rename: no two tasks have one  *)
(* file open, and a file being verified is nobody's to change.              *)
OneWriter ==
  \A v, w \in Writer :
    v # w /\ slot[v].fd # NoFile => slot[v].fd # slot[w].fd

(* "a partial a writer holds is never the sweep's, whatever its mtime"      *)
(* (staging.rs:159) for the partials held when the sweep asked which are:   *)
(* the entry of an open slot stays its writer's file, through sweeps that   *)
(* begin later, whatever ages, resumes and publishes meanwhile.  A slot     *)
(* claimed after the snapshot of a sweep can lose its entry to that sweep,  *)
(* and nothing worse: no other file ever takes its place.                   *)
HeldSlotKept ==
  \A w \in Writer : slot[w].at \in {"open", "verified"} =>
    \/ dir[slot[w].of] = slot[w].fd
    \/ slot[w].late /\ dir[slot[w].of] = NoFile
==============================================================================
