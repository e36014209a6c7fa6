---------------------------- MODULE BlobstoreProofs ----------------------------
(***************************************************************************)
(* The blobstore.  Staging, for any tasks, digests and files: a file has   *)
(* one writer, a published name describes its bytes, and the entry of a    *)
(* held slot stays, whatever is claimed and swept when.  The tiers, for    *)
(* any payloads, lengths and budgets: TiersSound, without an assumption.   *)
(***************************************************************************)
EXTENDS BlobStaging, BlobCache, WellFoundedInduction, TLAPS


(* A writer's state, and the claim it holds alone until it is released.     *)
Claims ==
  /\ \A w \in Writer :
       /\ slot[w].at # "idle" => slot[w].of \in claims
       /\ slot[w].at \in {"open", "verified"} => slot[w].fd \in Inode
       /\ slot[w].at \in {"idle", "claimed"} => slot[w].fd = NoFile
  /\ \A v, w \in Writer :
       v # w /\ slot[v].at # "idle" /\ slot[w].at # "idle" => slot[v].of # slot[w].of
  /\ \A i \in Ingest :
       /\ ingest[i].at = "open" => ingest[i].fd \in Inode
       /\ ingest[i].at = "idle" => ingest[i] = NoIngest

(* A file has one name at most, and published files have no other.          *)
Names ==
  /\ \A m, n \in Name : m # n /\ dir[m] # NoFile => dir[m] # dir[n]
  /\ \A n \in Name, d \in Digest : dir[n] # NoFile => dir[n] # blob[d]

(* An open file is reached by its own name or none, has one task, and is    *)
(* not published while that task may change it.                             *)
Files ==
  /\ \A w \in Writer :
       /\ slot[w].at \in {"open", "verified"} => dir[slot[w].of] \in {slot[w].fd, NoFile}
       /\ slot[w].fd # NoFile =>
            /\ \A n \in Name : dir[n] = slot[w].fd => n = slot[w].of
            /\ \A i \in Ingest : ingest[i].fd # slot[w].fd
       /\ slot[w].at \in {"open", "verified"} => \A d \in Digest : blob[d] # slot[w].fd
  /\ \A i \in Ingest : ingest[i].at = "open" =>
       /\ dir[i] \in {ingest[i].fd, NoFile}
       /\ \A n \in Name : dir[n] = ingest[i].fd => n = i
       /\ \A j \in Ingest : j # i => ingest[j].fd # ingest[i].fd
       /\ \A d \in Digest : blob[d] # ingest[i].fd

(* What was verified or sealed is what the file holds.                      *)
Checked ==
  /\ \A w \in Writer : slot[w].at = "verified" => Holds(data[slot[w].fd], slot[w].of)
  /\ \A i \in Ingest, d \in Digest : ingest[i].sealed = d => Holds(data[ingest[i].fd], d)

IInv == TypeOK /\ Claims /\ Names /\ Files /\ OneWriter /\ Checked /\ NamesDescribe

------------------------------------------------------------------------------
(* The empty store.                                                         *)
LEMMA InitIInv == Init => IInv
  BY StagingAssumption DEF Init, IInv, TypeOK, Claims, Names, Files, OneWriter, Checked,
     NamesDescribe, Content, NoSlot, NoIngest, NoSweep, SlotStates, Name, Slots, Ingests

(* What an append leaves is a content.                                      *)
LEMMA GrownType ==
  ASSUME NEW c \in Content, NEW right \in BOOLEAN
  PROVE  Grown(c, right) \in Content
<1>1. (c.good /\ right) \in BOOLEAN
  OBVIOUS
<1>2. CASE c.len > Size
  BY <1>2 DEF Grown, Content
<1>3. CASE ~(c.len > Size)
  <2>1. c.len + 1 \in 0..Size + 1
    BY <1>3, StagingAssumption DEF Content
  <2>2. Grown(c, right) = [of |-> c.of, len |-> c.len + 1, good |-> c.good /\ right]
    BY <1>3 DEF Grown, Content
  <2>3. QED
    BY <1>1, <2>1, <2>2 DEF Content
<1>4. QED
  BY <1>2, <1>3

(* The claim of a digest nobody holds. *)
LEMMA StageIInv ==
  ASSUME IInv, NEW w \in Writer, NEW d \in Digest, NEW want \in {Size, Size + 1}, Stage(w, d, want)
  PROVE  IInv'
<1> USE StagingAssumption DEF IInv, Stage
<1>1. TypeOK'
  <2>1. slot'[w] = [at |-> "claimed", of |-> d, fd |-> NoFile, want |-> want, written |-> 0,
                     late |-> Late(d)]
    BY DEF TypeOK, NoSlot
  <2>2. want \in 0..Size + 1 /\ 0 \in 0..Size + 1 /\ Late(d) \in BOOLEAN
    <3>1. want \in 0..Size + 1 /\ 0 \in 0..Size + 1
      OBVIOUS
    <3>2. Late(d) \in BOOLEAN
      <4>1. sweep.on \in BOOLEAN
        BY DEF TypeOK
      <4>2. QED
        BY <4>1 DEF Late
    <3>3. QED
      BY <3>1, <3>2
  <2>3. slot'[w] \in Slots
    <3>1. [at |-> "claimed", of |-> d, fd |-> NoFile, want |-> want, written |-> 0,
            late |-> Late(d)] \in Slots
      BY <2>2, Zenon DEF Slots, SlotStates
    <3>2. QED
      BY <2>1, <3>1
  <2>4. QED
    BY <2>3 DEF TypeOK, Claims, Name, NoSweep
<1>2. Claims'
  BY DEF TypeOK, Claims, NoSlot, NoIngest, Slots, Ingests
<1>3. Names'
  BY DEF TypeOK, Claims, Names, Files, Name
<1>4. Files'
  BY DEF TypeOK, Claims, Names, Files, Name, NoSlot, NoIngest, OneWriter
<1>5. OneWriter'
  BY DEF TypeOK, Claims, Names, Files, Name, NoSlot, OneWriter
<1>6. Checked'
  BY DEF TypeOK, Claims, Names, Files, Checked, NoSlot, NoIngest, Holds, OneWriter
<1>7. NamesDescribe'
  BY DEF TypeOK, Claims, Names, Files, Checked, NamesDescribe, Holds
<1>8. QED
  BY <1>1, <1>2, <1>3, <1>4, <1>5, <1>6, <1>7

(* An append changes one file, which nobody else has open and nothing names as
   published. *)
LEMMA AppendIInv ==
  ASSUME IInv, NEW w \in Writer, NEW right \in BOOLEAN, NEW counted \in BOOLEAN,
         AppendSlot(w, right, counted)
  PROVE  IInv'
<1> USE StagingAssumption DEF IInv, AppendSlot
<1>1. TypeOK'
  <2>1. slot'[w] \in Slots
    BY DEF TypeOK, Slots, NoSlot, SlotStates
  <2>2. data' \in [Inode -> Content]
    BY GrownType DEF TypeOK, Claims
  <2>3. QED
    BY <2>1, <2>2 DEF TypeOK, Claims, Name, NoSweep, Fresh
<1>2. Claims'
  BY DEF TypeOK, Claims, NoSlot, NoIngest, Slots, Ingests
<1>3. Names'
  BY DEF TypeOK, Claims, Names, Files, Name
<1>4. Files'
  BY DEF TypeOK, Claims, Names, Files, Name, NoSlot, NoIngest, OneWriter
<1>5. OneWriter'
  BY DEF TypeOK, Claims, Names, Files, Name, NoSlot, OneWriter
<1>6. Checked'
  BY DEF TypeOK, Claims, Names, Files, Checked, NoSlot, NoIngest, Holds, OneWriter
<1>7. NamesDescribe'
  BY DEF TypeOK, Claims, Names, Files, Checked, NamesDescribe, Holds
<1>8. QED
  BY <1>1, <1>2, <1>3, <1>4, <1>5, <1>6, <1>7

(* A verified file stays as it is: its writer only renames it. *)
LEMMA VerifyIInv ==
  ASSUME IInv, NEW w \in Writer, Verify(w)
  PROVE  IInv'
<1> USE StagingAssumption DEF IInv, Verify
<1>1. TypeOK'
  <2>1. slot'[w] \in Slots
    BY DEF TypeOK, Slots, NoSlot, SlotStates
  <2>2. QED
    BY <2>1 DEF TypeOK, Claims, Name, NoSweep
<1>2. Claims'
  BY DEF TypeOK, Claims, NoSlot, NoIngest, Slots, Ingests
<1>3. Names'
  BY DEF TypeOK, Claims, Names, Files, Name
<1>4. Files'
  BY DEF TypeOK, Claims, Names, Files, Name, NoSlot, NoIngest, OneWriter
<1>5. OneWriter'
  BY DEF TypeOK, Claims, Names, Files, Name, NoSlot, OneWriter
<1>6. Checked'
  BY DEF TypeOK, Claims, Names, Files, Checked, NoSlot, NoIngest, Holds, OneWriter
<1>7. NamesDescribe'
  BY DEF TypeOK, Claims, Names, Files, Checked, NamesDescribe, Holds
<1>8. QED
  BY <1>1, <1>2, <1>3, <1>4, <1>5, <1>6, <1>7

(* The entry goes, the claim is still held. *)
LEMMA DiscardIInv ==
  ASSUME IInv, NEW w \in Writer, Discard(w)
  PROVE  IInv'
<1> USE StagingAssumption DEF IInv, Discard
<1>1. TypeOK'
  <2>1. slot'[w] \in Slots
    BY DEF TypeOK, Slots, NoSlot, SlotStates
  <2>2. QED
    BY <2>1 DEF TypeOK, Claims, Name, NoSweep
<1>2. Claims'
  BY DEF TypeOK, Claims, NoSlot, NoIngest, Slots, Ingests
<1>3. Names'
  BY DEF TypeOK, Claims, Names, Files, Name
<1>4. Files'
  BY DEF TypeOK, Claims, Names, Files, Name, NoSlot, NoIngest, OneWriter
<1>5. OneWriter'
  BY DEF TypeOK, Claims, Names, Files, Name, NoSlot, OneWriter
<1>6. Checked'
  BY DEF TypeOK, Claims, Names, Files, Checked, NoSlot, NoIngest, Holds, OneWriter
<1>7. NamesDescribe'
  BY DEF TypeOK, Claims, Names, Files, Checked, NamesDescribe, Holds
<1>8. QED
  BY <1>1, <1>2, <1>3, <1>4, <1>5, <1>6, <1>7

(* The rename: what was verified gets the name. *)
LEMMA PublishIInv ==
  ASSUME IInv, NEW w \in Writer, Publish(w)
  PROVE  IInv'
<1> USE StagingAssumption DEF IInv, Publish
<1>1. TypeOK'
  <2>1. slot'[w] \in Slots
    BY DEF TypeOK, Slots, NoSlot, SlotStates
  <2>2. QED
    BY <2>1 DEF TypeOK, Claims, Name, NoSweep
<1>2. Claims'
  BY DEF TypeOK, Claims, NoSlot, NoIngest, Slots, Ingests
<1>3. Names'
  BY DEF TypeOK, Claims, Names, Files, Name
<1>4. Files'
  BY DEF TypeOK, Claims, Names, Files, Name, NoSlot, NoIngest, OneWriter
<1>5. OneWriter'
  BY DEF TypeOK, Claims, Names, Files, Name, NoSlot, OneWriter
<1>6. Checked'
  BY DEF TypeOK, Claims, Names, Files, Checked, NoSlot, NoIngest, Holds, OneWriter
<1>7. NamesDescribe'
  BY DEF TypeOK, Claims, Names, Files, Checked, NamesDescribe, Holds
<1>8. QED
  BY <1>1, <1>2, <1>3, <1>4, <1>5, <1>6, <1>7

(* The partial stays under its name. *)
LEMMA LeaveIInv ==
  ASSUME IInv, NEW w \in Writer, Leave(w)
  PROVE  IInv'
<1> USE StagingAssumption DEF IInv, Leave
<1>1. TypeOK'
  <2>1. slot'[w] \in Slots
    BY DEF TypeOK, Slots, NoSlot, SlotStates
  <2>2. QED
    BY <2>1 DEF TypeOK, Claims, Name, NoSweep
<1>2. Claims'
  BY DEF TypeOK, Claims, NoSlot, NoIngest, Slots, Ingests
<1>3. Names'
  BY DEF TypeOK, Claims, Names, Files, Name
<1>4. Files'
  BY DEF TypeOK, Claims, Names, Files, Name, NoSlot, NoIngest, OneWriter
<1>5. OneWriter'
  BY DEF TypeOK, Claims, Names, Files, Name, NoSlot, OneWriter
<1>6. Checked'
  BY DEF TypeOK, Claims, Names, Files, Checked, NoSlot, NoIngest, Holds, OneWriter
<1>7. NamesDescribe'
  BY DEF TypeOK, Claims, Names, Files, Checked, NamesDescribe, Holds
<1>8. QED
  BY <1>1, <1>2, <1>3, <1>4, <1>5, <1>6, <1>7

(* The last thing a writer does. *)
LEMMA ReleaseIInv ==
  ASSUME IInv, NEW w \in Writer, Release(w)
  PROVE  IInv'
<1> USE StagingAssumption DEF IInv, Release
<1>1. TypeOK'
  <2>1. slot'[w] \in Slots
    BY DEF TypeOK, Slots, NoSlot, SlotStates
  <2>2. QED
    BY <2>1 DEF TypeOK, Claims, Name, NoSweep
<1>2. Claims'
  BY DEF TypeOK, Claims, NoSlot, NoIngest, Slots, Ingests
<1>3. Names'
  BY DEF TypeOK, Claims, Names, Files, Name
<1>4. Files'
  BY DEF TypeOK, Claims, Names, Files, Name, NoSlot, NoIngest, OneWriter
<1>5. OneWriter'
  BY DEF TypeOK, Claims, Names, Files, Name, NoSlot, OneWriter
<1>6. Checked'
  BY DEF TypeOK, Claims, Names, Files, Checked, NoSlot, NoIngest, Holds, OneWriter
<1>7. NamesDescribe'
  BY DEF TypeOK, Claims, Names, Files, Checked, NamesDescribe, Holds
<1>8. QED
  BY <1>1, <1>2, <1>3, <1>4, <1>5, <1>6, <1>7

(* Only what is not sealed is appended to. *)
LEMMA IngestAppendIInv ==
  ASSUME IInv, ~LateAppend, NEW i \in Ingest, NEW right \in BOOLEAN,
         IngestAppend(i, right)
  PROVE  IInv'
<1> USE StagingAssumption DEF IInv, IngestAppend
<1>1. TypeOK'
  <2>1. data' \in [Inode -> Content]
    BY GrownType DEF TypeOK, Claims
  <2>2. QED
    BY <2>1 DEF TypeOK, Claims, Name, NoSweep, Fresh
<1>2. Claims'
  BY DEF TypeOK, Claims, NoSlot, NoIngest, Slots, Ingests
<1>3. Names'
  BY DEF TypeOK, Claims, Names, Files, Name
<1>4. Files'
  BY DEF TypeOK, Claims, Names, Files, Name, NoSlot, NoIngest, OneWriter
<1>5. OneWriter'
  BY DEF TypeOK, Claims, Names, Files, Name, NoSlot, OneWriter
<1>6. Checked'
  BY DEF TypeOK, Claims, Names, Files, Checked, NoSlot, NoIngest, Holds, OneWriter
<1>7. NamesDescribe'
  BY DEF TypeOK, Claims, Names, Files, Checked, NamesDescribe, Holds
<1>8. QED
  BY <1>1, <1>2, <1>3, <1>4, <1>5, <1>6, <1>7

(* The name is read off the bytes. *)
LEMMA SealIInv ==
  ASSUME IInv, NEW i \in Ingest, Seal(i)
  PROVE  IInv'
<1> USE StagingAssumption DEF IInv, Seal
<1>1. TypeOK'
  <2>1. ingest'[i] \in Ingests
    BY DEF TypeOK, Claims, Ingests, NoIngest, Content
  <2>2. QED
    BY <2>1 DEF TypeOK, Claims, Name, NoSweep
<1>2. Claims'
  BY DEF TypeOK, Claims, NoSlot, NoIngest, Slots, Ingests
<1>3. Names'
  BY DEF TypeOK, Claims, Names, Files, Name
<1>4. Files'
  BY DEF TypeOK, Claims, Names, Files, Name, NoSlot, NoIngest, OneWriter
<1>5. OneWriter'
  BY DEF TypeOK, Claims, Names, Files, Name, NoSlot, OneWriter
<1>6. Checked'
  BY DEF TypeOK, Claims, Names, Files, Checked, NoSlot, NoIngest, Holds, OneWriter
<1>7. NamesDescribe'
  BY DEF TypeOK, Claims, Names, Files, Checked, NamesDescribe, Holds
<1>8. QED
  BY <1>1, <1>2, <1>3, <1>4, <1>5, <1>6, <1>7

(* The rename under the sealed name. *)
LEMMA IngestPublishIInv ==
  ASSUME IInv, NEW i \in Ingest, IngestPublish(i)
  PROVE  IInv'
<1> USE StagingAssumption DEF IInv, IngestPublish
<1>1. TypeOK'
  <2>1. ingest'[i] \in Ingests
    BY DEF TypeOK, Claims, Ingests, NoIngest, Content
  <2>2. QED
    BY <2>1 DEF TypeOK, Claims, Name, NoSweep
<1>2. Claims'
  BY DEF TypeOK, Claims, NoSlot, NoIngest, Slots, Ingests
<1>3. Names'
  BY DEF TypeOK, Claims, Names, Files, Name
<1>4. Files'
  BY DEF TypeOK, Claims, Names, Files, Name, NoSlot, NoIngest, OneWriter
<1>5. OneWriter'
  BY DEF TypeOK, Claims, Names, Files, Name, NoSlot, OneWriter
<1>6. Checked'
  BY DEF TypeOK, Claims, Names, Files, Checked, NoSlot, NoIngest, Holds, OneWriter
<1>7. NamesDescribe'
  BY DEF TypeOK, Claims, Names, Files, Checked, NamesDescribe, Holds
<1>8. QED
  BY <1>1, <1>2, <1>3, <1>4, <1>5, <1>6, <1>7

(* The partial stays without a task. *)
LEMMA IngestPublishFailsIInv ==
  ASSUME IInv, NEW i \in Ingest, IngestPublishFails(i)
  PROVE  IInv'
<1> USE StagingAssumption DEF IInv, IngestPublishFails
<1>1. TypeOK'
  <2>1. ingest'[i] \in Ingests
    BY DEF TypeOK, Claims, Ingests, NoIngest, Content
  <2>2. QED
    BY <2>1 DEF TypeOK, Claims, Name, NoSweep
<1>2. Claims'
  BY DEF TypeOK, Claims, NoSlot, NoIngest, Slots, Ingests
<1>3. Names'
  BY DEF TypeOK, Claims, Names, Files, Name
<1>4. Files'
  BY DEF TypeOK, Claims, Names, Files, Name, NoSlot, NoIngest, OneWriter
<1>5. OneWriter'
  BY DEF TypeOK, Claims, Names, Files, Name, NoSlot, OneWriter
<1>6. Checked'
  BY DEF TypeOK, Claims, Names, Files, Checked, NoSlot, NoIngest, Holds, OneWriter
<1>7. NamesDescribe'
  BY DEF TypeOK, Claims, Names, Files, Checked, NamesDescribe, Holds
<1>8. QED
  BY <1>1, <1>2, <1>3, <1>4, <1>5, <1>6, <1>7

(* The entry goes. *)
LEMMA IngestDropIInv ==
  ASSUME IInv, NEW i \in Ingest, IngestDrop(i)
  PROVE  IInv'
<1> USE StagingAssumption DEF IInv, IngestDrop
<1>1. TypeOK'
  <2>1. ingest'[i] \in Ingests
    BY DEF TypeOK, Claims, Ingests, NoIngest, Content
  <2>2. QED
    BY <2>1 DEF TypeOK, Claims, Name, NoSweep
<1>2. Claims'
  BY DEF TypeOK, Claims, NoSlot, NoIngest, Slots, Ingests
<1>3. Names'
  BY DEF TypeOK, Claims, Names, Files, Name
<1>4. Files'
  BY DEF TypeOK, Claims, Names, Files, Name, NoSlot, NoIngest, OneWriter
<1>5. OneWriter'
  BY DEF TypeOK, Claims, Names, Files, Name, NoSlot, OneWriter
<1>6. Checked'
  BY DEF TypeOK, Claims, Names, Files, Checked, NoSlot, NoIngest, Holds, OneWriter
<1>7. NamesDescribe'
  BY DEF TypeOK, Claims, Names, Files, Checked, NamesDescribe, Holds
<1>8. QED
  BY <1>1, <1>2, <1>3, <1>4, <1>5, <1>6, <1>7

(* A free file is nobody's. *)
LEMMA FreeFile ==
  ASSUME NEW f \in Free
  PROVE  /\ f \in Inode /\ f # NoFile
         /\ \A n \in Name : dir[n] # f
         /\ \A d \in Digest : blob[d] # f
         /\ \A w \in Writer : slot[w].fd # f
         /\ \A i \in Ingest : ingest[i].fd # f
  BY StagingAssumption DEF Free, Used

(* Opening a new file. *)
LEMMA OpenNewIInv ==
  ASSUME IInv, NEW w \in Writer, OpenSlot(w), dir[slot[w].of] = NoFile
  PROVE  IInv'
<1> USE StagingAssumption DEF IInv
<1>0. PICK f \in Free :
        /\ slot[w].at = "claimed"
        /\ dir' = [dir EXCEPT ![slot[w].of] = f]
        /\ data' = [data EXCEPT ![f] = [of |-> slot[w].of, len |-> 0, good |-> TRUE]]
        /\ stale' = Fresh(f)
        /\ slot' = [slot EXCEPT ![w].at = "open", ![w].fd = f]
        /\ UNCHANGED <<blob, claims, ingest, sweep>>
  BY DEF OpenSlot
<1>a. slot[w].of \in Digest
  BY <1>0 DEF TypeOK, Claims
<1> USE <1>0, <1>a, FreeFile
<1>1. TypeOK'
  <2>1. slot'[w] \in Slots
    BY DEF TypeOK, Slots, SlotStates
  <2>2. data'[f] \in Content
    BY DEF TypeOK, Content
  <2>3. QED
    BY <2>1, <2>2 DEF TypeOK, Name, Fresh
<1>2. Claims'
  BY DEF TypeOK, Claims, Slots
<1>3. Names'
  BY DEF TypeOK, Names, Name
<1>4. Files'
  BY DEF TypeOK, Claims, Files, Name
<1>5. OneWriter'
  BY DEF TypeOK, OneWriter
<1>6. Checked'
  BY DEF TypeOK, Claims, Checked, NoIngest, Holds
<1>7. NamesDescribe'
  BY DEF TypeOK, NamesDescribe, Holds
<1>8. QED
  BY <1>1, <1>2, <1>3, <1>4, <1>5, <1>6, <1>7

(* Resuming a partial, which is the writer's alone and not published. *)
LEMMA OpenOldIInv ==
  ASSUME IInv, NEW w \in Writer, OpenSlot(w), dir[slot[w].of] # NoFile
  PROVE  IInv'
<1> USE StagingAssumption DEF IInv
<1> DEFINE d == slot[w].of
           f == dir[d]
<1>a. /\ slot[w].at = "claimed" /\ d \in Digest /\ d \in Name /\ f \in Inode
      /\ UNCHANGED <<dir, blob, claims, ingest, sweep>>
  BY DEF OpenSlot, TypeOK, Claims, Name
<1>b. /\ \A v \in Writer : slot[v].fd # f
      /\ \A i \in Ingest : ingest[i].fd # f
      /\ \A e \in Digest : blob[e] # f
  BY <1>a DEF TypeOK, Claims, Files, Names, Name, NoIngest, Ingests
<1>c. PICK n \in 0..Size + 1 :
        slot' = [slot EXCEPT ![w].at = "open", ![w].fd = f, ![w].written = n]
  <2> DEFINE m == IF data[f].len > slot[w].want THEN 0 ELSE data[f].len
  <2>1. m \in 0..Size + 1
    BY <1>a DEF TypeOK, Content
  <2>2. slot' = [slot EXCEPT ![w].at = "open", ![w].fd = f, ![w].written = m]
    BY DEF OpenSlot
  <2>3. QED
    BY <2>1, <2>2
<1>d. /\ data' \in [Inode -> Content] /\ stale' \subseteq Inode
      /\ \A g \in Inode : g # f => data'[g] = data[g]
  <2>1. [of |-> d, len |-> 0, good |-> TRUE] \in Content
    BY <1>a DEF Content
  <2>2. QED
    BY <1>a, <2>1 DEF OpenSlot, TypeOK, Fresh
<1>e. Files'
  <2>1. /\ slot'[w].fd = f /\ slot'[w].of = d /\ f # NoFile
        /\ \A v \in Writer : v # w => slot'[v] = slot[v]
    BY <1>a, <1>c DEF TypeOK, Slots
  <2>2. \A m \in Name : dir[m] = f => m = d
    BY <1>a, <2>1 DEF Names
  <2>3. UNCHANGED <<dir, blob, ingest>>
    BY <1>a
  <2>4. dir[d] = f
    OBVIOUS
  <2> HIDE DEF d, f
  <2>5. /\ dir'[slot'[w].of] = slot'[w].fd
        /\ \A m \in Name : dir'[m] = slot'[w].fd => m = slot'[w].of
        /\ \A i \in Ingest : ingest'[i].fd # slot'[w].fd
        /\ \A e \in Digest : blob'[e] # slot'[w].fd
    BY <1>b, <2>1, <2>2, <2>3, <2>4
  <2>6. QED
    BY <2>1, <2>3, <2>5 DEF Files
<1>f. Checked'
  <2>1. ASSUME NEW v \in Writer, slot'[v].at = "verified"
        PROVE  slot'[v] = slot[v] /\ slot[v].fd \in Inode /\ slot[v].fd # f
    <3>1. slot'[w].at = "open" /\ \A u \in Writer : u # w => slot'[u] = slot[u]
      BY <1>c DEF TypeOK, Slots
    <3>2. v # w
      BY <2>1, <3>1
    <3>3. QED
      BY <1>b, <2>1, <3>1, <3>2 DEF Claims
  <2>2. ASSUME NEW i \in Ingest, NEW e \in Digest, ingest[i].sealed = e
        PROVE  ingest[i].fd \in Inode /\ ingest[i].fd # f
    <3>1. ingest[i] # NoIngest /\ ingest[i].at \in {"idle", "open"}
      BY <2>2 DEF TypeOK, NoIngest, Ingests
    <3>2. QED
      BY <1>b, <3>1 DEF Claims
  <2>3. UNCHANGED ingest /\ \A g \in Inode : g # f => data'[g] = data[g]
    BY <1>a, <1>d
  <2> HIDE DEF f
  <2>4. \A v \in Writer : slot'[v].at = "verified" => Holds(data'[slot'[v].fd], slot'[v].of)
    BY <2>1, <2>3 DEF Checked
  <2>5. \A i \in Ingest, e \in Digest : ingest'[i].sealed = e => Holds(data'[ingest'[i].fd], e)
    BY <2>2, <2>3 DEF Checked
  <2>6. QED
    BY <2>4, <2>5 DEF Checked
<1> USE <1>a, <1>b, <1>c, <1>d
<1> HIDE DEF d, f
<1>1. TypeOK'
  <2>1. slot'[w] \in Slots
    BY DEF TypeOK, Slots, SlotStates
  <2>2. QED
    BY <2>1 DEF TypeOK, Name
<1>2. Claims'
  BY DEF TypeOK, Claims, Slots, d
<1>3. Names'
  BY DEF TypeOK, Names, Name
<1>4. Files'
  BY <1>e
<1>5. OneWriter'
  BY DEF TypeOK, OneWriter
<1>6. Checked'
  BY <1>f
<1>7. NamesDescribe'
  BY DEF TypeOK, NamesDescribe, Holds
<1>8. QED
  BY <1>1, <1>2, <1>3, <1>4, <1>5, <1>6, <1>7

(* The file of an ingest is new. *)
LEMMA IngestOpenIInv ==
  ASSUME IInv, NEW i \in Ingest, IngestOpen(i)
  PROVE  IInv'
<1> USE StagingAssumption DEF IInv
<1>0. PICK f \in Free, d \in Digest :
        /\ ingest[i].at = "idle" /\ dir[i] = NoFile
        /\ dir' = [dir EXCEPT ![i] = f]
        /\ data' = [data EXCEPT ![f] = [of |-> d, len |-> 0, good |-> TRUE]]
        /\ stale' = Fresh(f)
        /\ ingest' = [ingest EXCEPT ![i] = [NoIngest EXCEPT !.at = "open", !.fd = f]]
        /\ UNCHANGED <<blob, claims, slot, sweep>>
  BY DEF IngestOpen
<1> USE <1>0, FreeFile
<1>1. TypeOK'
  <2>1. ingest'[i] = [at |-> "open", fd |-> f, sealed |-> NoFile]
    BY DEF TypeOK, NoIngest
  <2>2. ingest'[i] \in Ingests
    <3>1. [at |-> "open", fd |-> f, sealed |-> NoFile] \in Ingests
      BY Zenon DEF Ingests
    <3>2. QED
      BY <2>1, <3>1
  <2>3. data'[f] \in Content
    BY DEF TypeOK, Content
  <2>4. QED
    BY <2>2, <2>3 DEF TypeOK, Name, Fresh
<1>2. Claims'
  BY DEF TypeOK, Claims, NoIngest
<1>3. Names'
  BY DEF TypeOK, Names, Name
<1>4. Files'
  BY DEF TypeOK, Claims, Files, Name, NoIngest
<1>5. OneWriter'
  BY DEF TypeOK, OneWriter
<1>6. Checked'
  BY DEF TypeOK, Claims, Checked, NoIngest, Holds
<1>7. NamesDescribe'
  BY DEF TypeOK, NamesDescribe, Holds
<1>8. QED
  BY <1>1, <1>2, <1>3, <1>4, <1>5, <1>6, <1>7

(* The sweeper and a restart remove entries and open files, and change no bytes:
   nothing the invariant says needs an entry to be there. *)
LEMMA SweepRemoveIInv ==
  ASSUME IInv, SweepRemove
  PROVE  IInv'
<1> USE StagingAssumption DEF IInv, SweepRemove
<1>1. TypeOK' /\ Claims'
  BY DEF TypeOK, Claims, Name
<1>2. Names'
  BY DEF TypeOK, Names, Name
<1>3. Files'
  BY DEF TypeOK, Claims, Files, Name
<1>4. OneWriter' /\ Checked' /\ NamesDescribe'
  BY DEF OneWriter, Checked, NamesDescribe
<1>5. QED
  BY <1>1, <1>2, <1>3, <1>4

(* A restart closes every file and leaves the directory.                    *)
LEMMA RestartIInv ==
  ASSUME IInv, Restart
  PROVE  IInv'
<1> USE StagingAssumption DEF IInv, Restart
<1>1. TypeOK'
  <2>1. NoSlot \in Slots
    BY DEF NoSlot, Slots, SlotStates
  <2>2. NoIngest \in Ingests /\ sweep' = [on |-> FALSE, live |-> {}, seen |-> {}, doomed |-> NoFile]
    BY DEF NoIngest, Ingests, NoSweep
  <2>3. QED
    BY <2>1, <2>2 DEF TypeOK, Name
<1>2. Claims'
  BY DEF Claims, NoSlot, NoIngest
<1>3. Names'
  BY DEF TypeOK, Names, Name
<1>4. Files'
  BY DEF Files, NoSlot, NoIngest
<1>5. OneWriter' /\ Checked' /\ NamesDescribe'
  BY DEF OneWriter, Checked, NamesDescribe, NoSlot, NoIngest
<1>6. QED
  BY <1>1, <1>2, <1>3, <1>4, <1>5

(* Steps that leave the files, the writers and the names alone. *)
LEMMA QuietIInv ==
  ASSUME IInv, UNCHANGED <<dir, blob, data, claims, slot, ingest>>, TypeOK'
  PROVE  IInv'
  BY DEF IInv, Claims, Names, Files, OneWriter, Checked, NamesDescribe

(* Time, and the sweeper up to an unlink. *)
LEMMA SweepIInv ==
  ASSUME IInv, \/ \E f \in Inode : Age(f)
               \/ SweepBegin \/ SweepEnd
               \/ \E n \in Name : SweepStat(n)
  PROVE  IInv'
<1>1. ASSUME NEW f \in Inode, Age(f) PROVE IInv'
  BY <1>1, QuietIInv DEF Age, IInv, TypeOK
<1>2. CASE SweepBegin
  <2>1. sweep' = [on |-> TRUE, live |-> claims, seen |-> {}, doomed |-> NoFile]
    BY <1>2 DEF SweepBegin, NoSweep
  <2>2. sweep' \in [on : BOOLEAN, live : SUBSET Digest, seen : SUBSET Name,
                    doomed : Name \cup {NoFile}]
    BY <2>1 DEF IInv, TypeOK
  <2>3. QED
    BY <1>2, <2>2, QuietIInv DEF SweepBegin, IInv, TypeOK
<1>3. CASE SweepEnd
  BY <1>3, QuietIInv DEF SweepEnd, IInv, TypeOK, NoSweep
<1>4. ASSUME NEW n \in Name, SweepStat(n) PROVE IInv'
  BY <1>4, QuietIInv DEF SweepStat, IInv, TypeOK
<1>5. QED
  BY <1>1, <1>2, <1>3, <1>4

(* Every step, as long as nobody appends to what is sealed. *)
LEMMA NextIInv ==
  ASSUME ~LateAppend, IInv, [Next]_vars
  PROVE  IInv'
<1>1. ASSUME NEW w \in Writer, NEW d \in Digest, NEW want \in {Size, Size + 1}, Stage(w, d, want)
      PROVE  IInv'
  BY <1>1, StageIInv
<1>2. ASSUME NEW w \in Writer, OpenSlot(w) PROVE IInv'
  BY <1>2, OpenNewIInv, OpenOldIInv
<1>3. ASSUME NEW w \in Writer, NEW right \in BOOLEAN, NEW counted \in BOOLEAN,
             AppendSlot(w, right, counted)
      PROVE  IInv'
  BY <1>3, AppendIInv
<1>4. ASSUME NEW w \in Writer, Verify(w) \/ Discard(w) \/ Publish(w) \/ Leave(w) \/ Release(w)
      PROVE  IInv'
  BY <1>4, VerifyIInv, DiscardIInv, PublishIInv, LeaveIInv, ReleaseIInv
<1>5. ASSUME NEW i \in Ingest, NEW right \in BOOLEAN, IngestAppend(i, right) PROVE IInv'
  BY <1>5, IngestAppendIInv
<1>6. ASSUME NEW i \in Ingest, \/ IngestOpen(i) \/ Seal(i) \/ IngestPublish(i)
                               \/ IngestPublishFails(i) \/ IngestDrop(i)
      PROVE  IInv'
  BY <1>6, IngestOpenIInv, SealIInv, IngestPublishIInv, IngestPublishFailsIInv, IngestDropIInv
<1>7. CASE UNCHANGED vars
  BY <1>7, QuietIInv DEF vars, IInv, TypeOK
<1>8. QED
  BY <1>1, <1>2, <1>3, <1>4, <1>5, <1>6, <1>7, SweepIInv, SweepRemoveIInv, RestartIInv DEF Next

------------------------------------------------------------------------------
(* "a crashed or lying transfer can never leave a file whose name           *)
(* misdescribes its content" (staging.rs:8-9): with callers that stop       *)
(* appending once they seal, in any interleaving with the sweeper and with  *)
(* claims made during a sweep, a published file holds the payload of its    *)
(* name.                                                                    *)
THEOREM NamesDescribeHolds ==
  ASSUME ~LateAppend
  PROVE  Spec => []NamesDescribe
<1>1. Init => IInv
  BY InitIInv
<1>2. IInv /\ [Next]_vars => IInv'
  BY NextIInv
<1>3. IInv => NamesDescribe
  BY DEF IInv
<1>4. QED
  BY <1>1, <1>2, <1>3, PTL DEF Spec

(* Two tasks never have one slot's file open, from the claim to the rename. *)
THEOREM OneWriterHolds ==
  ASSUME ~LateAppend
  PROVE  Spec => []OneWriter
<1>1. Init => IInv
  BY InitIInv
<1>2. IInv /\ [Next]_vars => IInv'
  BY NextIInv
<1>3. IInv => OneWriter
  BY DEF IInv
<1>4. QED
  BY <1>1, <1>2, <1>3, PTL DEF Spec


------------------------------------------------------------------------------
(* What a writer holds and the sweeper                                      *)

Shapes ==
  /\ DOMAIN dir = Name /\ DOMAIN sweep = {"on", "live", "seen", "doomed"}
  /\ DOMAIN slot = Writer
  /\ \A w \in Writer : DOMAIN slot[w] = {"at", "of", "fd", "want", "written", "late"}

(* A task at work on a slot holds its claim, alone.                         *)
Claimed ==
  /\ \A w \in Writer : slot[w].at # "idle" => slot[w].of \in claims \cap Digest
  /\ \A v, w \in Writer :
       v # w /\ slot[v].at # "idle" /\ slot[w].at # "idle" => slot[v].of # slot[w].of

(* A slot held while a sweep runs was claimed when it began or is late, and *)
(* an entry about to be removed was not claimed then.                       *)
SweepKnows ==
  /\ sweep.on => \A w \in Writer :
       slot[w].at # "idle" /\ ~slot[w].late => slot[w].of \in sweep.live
  /\ sweep.doomed # NoFile => sweep.on /\ sweep.doomed \notin sweep.live

HeldInv == Shapes /\ Claimed /\ SweepKnows /\ HeldSlotKept

(* Every step keeps it.                                                     *)
LEMMA NextHeldInv ==
  ASSUME HeldInv, [Next]_vars
  PROVE  HeldInv'
<1> USE StagingAssumption DEF HeldInv, Shapes, Claimed, SweepKnows, HeldSlotKept, Name
<1>1. ASSUME NEW w \in Writer, NEW d \in Digest, NEW want \in {Size, Size + 1}, Stage(w, d, want)
      PROVE  HeldInv'
  <2>1. /\ slot'[w].at = "claimed" /\ slot'[w].of = d /\ DOMAIN slot' = Writer
        /\ DOMAIN slot'[w] = {"at", "of", "fd", "want", "written", "late"}
        /\ \A v \in Writer \ {w} : slot'[v] = slot[v]
        /\ claims' = claims \cup {d} /\ UNCHANGED <<dir, sweep>> /\ d \notin claims
    BY <1>1 DEF Stage, NoSlot
  <2>2. sweep.on /\ ~slot'[w].late => d \in sweep.live
    <3>1. slot'[w].late = Late(d)
      BY <1>1 DEF Stage, NoSlot
    <3>2. QED
      BY <3>1 DEF Late
  <2>3. QED
    BY <2>1, <2>2
<1>2. ASSUME NEW w \in Writer, OpenSlot(w)
      PROVE  HeldInv'
  <2> DEFINE d == slot[w].of
  <2>1. slot[w].at = "claimed" /\ d \in Digest /\ UNCHANGED <<claims, sweep>>
    BY <1>2 DEF OpenSlot
  <2> DEFINE Opened(f) ==
               /\ DOMAIN slot' = Writer /\ DOMAIN slot'[w] = DOMAIN slot[w]
               /\ \A v \in Writer \ {w} : slot'[v] = slot[v]
               /\ slot'[w].at = "open" /\ slot'[w].of = d /\ slot'[w].fd = f
               /\ slot'[w].late = slot[w].late
               /\ DOMAIN dir' = Name /\ dir'[d] = f
               /\ \A m \in Name \ {d} : dir'[m] = dir[m]
  <2>2. CASE dir[d] = NoFile
    <3>1. PICK f \in Free : /\ dir' = [dir EXCEPT ![d] = f]
                            /\ slot' = [slot EXCEPT ![w].at = "open", ![w].fd = f]
      BY <1>2, <2>2 DEF OpenSlot
    <3>2. Opened(f)
      BY <2>1, <3>1
    <3>3. QED
      BY <2>1, <3>2
  <2>3. CASE dir[d] # NoFile
    <3> DEFINE n == IF data[dir[d]].len > slot[w].want THEN 0 ELSE data[dir[d]].len
    <3>1. /\ slot' = [slot EXCEPT ![w].at = "open", ![w].fd = dir[d], ![w].written = n]
          /\ dir' = dir
      BY <1>2, <2>3 DEF OpenSlot
    <3> HIDE DEF n
    <3>2. Opened(dir[d])
      BY <2>1, <3>1
    <3>3. QED
      BY <2>1, <3>2
  <2>4. QED
    BY <2>2, <2>3
<1>3. ASSUME NEW w \in Writer, NEW right \in BOOLEAN, NEW counted \in BOOLEAN,
             AppendSlot(w, right, counted)
      PROVE  HeldInv'
  BY <1>3 DEF AppendSlot
<1>4. ASSUME NEW w \in Writer, Verify(w) \/ Leave(w)
      PROVE  HeldInv'
  BY <1>4 DEF Verify, Leave
<1>5. ASSUME NEW w \in Writer, Discard(w)
      PROVE  HeldInv'
  BY <1>5 DEF Discard
<1>6. ASSUME NEW w \in Writer, Publish(w)
      PROVE  HeldInv'
  BY <1>6 DEF Publish
<1>7. ASSUME NEW w \in Writer, Release(w)
      PROVE  HeldInv'
  BY <1>7 DEF Release, NoSlot
<1>8. ASSUME NEW i \in Ingest, IngestOpen(i) \/ IngestPublish(i) \/ IngestDrop(i)
      PROVE  HeldInv'
  <2>1. UNCHANGED <<slot, claims, sweep>> /\ DOMAIN dir' = DOMAIN dir
    BY <1>8 DEF IngestOpen, IngestPublish, IngestDrop
  <2>2. \A n \in Digest : n # i
    BY StagingAssumption
  <2>3. \A n \in Digest : dir'[n] = dir[n]
    BY <1>8, <2>2 DEF IngestOpen, IngestPublish, IngestDrop
  <2>4. QED
    BY <2>1, <2>3
<1>9. ASSUME NEW i \in Ingest,
             (\E right \in BOOLEAN : IngestAppend(i, right)) \/ Seal(i) \/ IngestPublishFails(i)
      PROVE  HeldInv'
  BY <1>9 DEF IngestAppend, Seal, IngestPublishFails
<1>10. ASSUME NEW f \in Inode, Age(f)
       PROVE  HeldInv'
  BY <1>10 DEF Age
<1>11. CASE SweepBegin
  BY <1>11 DEF SweepBegin, NoSweep
<1>12. ASSUME NEW n \in Name, SweepStat(n)
       PROVE  HeldInv'
  BY <1>12 DEF SweepStat
<1>13. CASE SweepRemove
  <2>1. /\ UNCHANGED <<slot, claims>> /\ DOMAIN dir' = Name
        /\ \A n \in Name \ {sweep.doomed} : dir'[n] = dir[n]
        /\ DOMAIN sweep' = DOMAIN sweep /\ sweep'.on = sweep.on
        /\ sweep'.live = sweep.live /\ sweep'.doomed = NoFile
    BY <1>13 DEF SweepRemove
  <2>2. \A w \in Writer : slot[w].at # "idle" /\ ~slot[w].late => slot[w].of # sweep.doomed
    BY <1>13 DEF SweepRemove
  <2>3. \A n \in Name : dir'[n] \in {dir[n], NoFile}
    BY <1>13 DEF SweepRemove
  <2>4. QED
    BY <2>1, <2>2, <2>3
<1>14. CASE SweepEnd
  BY <1>14 DEF SweepEnd, NoSweep
<1>15. CASE Restart
  BY <1>15 DEF Restart, NoSlot, NoSweep
<1>16. CASE UNCHANGED vars
  BY <1>16 DEF vars
<1> HIDE DEF HeldInv
<1>17. QED
  BY <1>1, <1>2, <1>3, <1>4, <1>5, <1>6, <1>7, <1>8, <1>9, <1>10, <1>11, <1>12, <1>13,
     <1>14, <1>15, <1>16 DEF Next

(* "A partial a writer holds is never the sweep's" (staging.rs:159) if it   *)
(* was claimed before the sweep took its snapshot; the entry of one claimed *)
(* after that may go, but never becomes another file.                       *)
THEOREM HeldSlotKeptHolds == Spec => []HeldSlotKept
<1>1. Init => HeldInv
  BY StagingAssumption
     DEF Init, HeldInv, Shapes, Claimed, SweepKnows, HeldSlotKept, NoSlot, NoSweep
<1>2. HeldInv /\ [Next]_vars => HeldInv'
  BY NextHeldInv
<1>3. HeldInv => HeldSlotKept
  BY DEF HeldInv
<1>4. QED
  BY <1>1, <1>2, <1>3, PTL DEF Spec

------------------------------------------------------------------------------
(* The tiers: the memory cache over the files.                              *)


(* Induction as a fact about one set of numbers.                            *)
LEMMA NatSet ==
  ASSUME NEW S, 0 \in S, \A n \in Nat : n \in S => n + 1 \in S
  PROVE  Nat \subseteq S
<1> DEFINE T == Nat \ S
<1>1. SUFFICES ASSUME T # {} PROVE FALSE
  OBVIOUS
<1>2. PICK x \in T : \A y \in T : ~ (<<y, x>> \in OpToRel(<, Nat))
  BY <1>1, WFMin, NatLessThanWellFounded
<1>3. x \in Nat /\ x # 0
  OBVIOUS
<1>4. x - 1 \in Nat /\ x - 1 < x /\ (x - 1) + 1 = x
  BY <1>3
<1>5. x - 1 \in T
  BY <1>3, <1>4
<1>6. QED
  BY <1>2, <1>4, <1>5 DEF OpToRel

------------------------------------------------------------------------------
(* Sums over a queue *)

Queues == Seq(Payload)

IsSums(f, q, n) ==
  f = [i \in 0..n |-> IF i = 0 THEN 0 ELSE f[i - 1] + SizeOf[q[i]]]

(* The running sums of a queue exist, as far as wanted.                     *)
LEMMA SumsExist ==
  ASSUME NEW q
  PROVE  \A n \in Nat : \E f : IsSums(f, q, n)
<1> DEFINE S == {n \in Nat : \E f : IsSums(f, q, n)}
<1>1. 0 \in S
  <2> DEFINE g == [i \in 0..0 |-> 0]
  <2>1. IsSums(g, q, 0)
    BY DEF IsSums
  <2>2. QED
    BY <2>1
<1>2. ASSUME NEW n \in Nat, n \in S
      PROVE  n + 1 \in S
  <2>1. PICK f : IsSums(f, q, n)
    BY <1>2
  <2> DEFINE g == [i \in 0..n + 1 |-> IF i = n + 1 THEN f[n] + SizeOf[q[n + 1]] ELSE f[i]]
  <2>2. ASSUME NEW i \in 0..n + 1
        PROVE  g[i] = IF i = 0 THEN 0 ELSE g[i - 1] + SizeOf[q[i]]
    BY <2>1 DEF IsSums
  <2>3. IsSums(g, q, n + 1)
    BY <2>2 DEF IsSums
  <2>4. QED
    BY <2>3
<1>3. QED
  BY <1>1, <1>2, NatSet

(* What Total computes: the last of running sums, all of them numbers.      *)
LEMMA TotalSums ==
  ASSUME NEW q \in Queues
  PROVE  \E f \in [0..Len(q) -> Nat] :
           /\ f[0] = 0
           /\ \A i \in 1..Len(q) : f[i] = f[i - 1] + SizeOf[q[i]]
           /\ Total(q) = f[Len(q)]
<1> DEFINE f == CHOOSE f : IsSums(f, q, Len(q))
<1>1. Len(q) \in Nat /\ \A i \in 1..Len(q) : SizeOf[q[i]] \in Nat
  BY CacheAssumption DEF Queues
<1>2. IsSums(f, q, Len(q))
  BY <1>1, SumsExist
<1>3. Total(q) = f[Len(q)]
  BY DEF Total, IsSums
<1> HIDE DEF f
<1>4. f[0] = 0 /\ \A i \in 1..Len(q) : f[i] = f[i - 1] + SizeOf[q[i]]
  BY <1>1, <1>2 DEF IsSums
<1>5. DOMAIN f = 0..Len(q) /\ f = [i \in 0..Len(q) |-> f[i]]
  BY <1>2 DEF IsSums
<1> DEFINE S == {n \in Nat : n \in 0..Len(q) => f[n] \in Nat}
<1>6. ASSUME NEW n \in Nat, n \in S
      PROVE  n + 1 \in S
  BY <1>1, <1>4, <1>6
<1>7. Nat \subseteq S
  <2>1. 0 \in S
    BY <1>4
  <2> HIDE DEF S
  <2>2. QED
    BY <2>1, <1>6, NatSet
<1>8. f \in [0..Len(q) -> Nat]
  BY <1>5, <1>7, <1>1
<1>9. QED
  BY <1>3, <1>4, <1>8

(* Whatever runs like the sums of a queue ends in its total.                *)
LEMMA TotalBy ==
  ASSUME NEW q \in Queues, NEW g,
         g[0] = 0, \A i \in 1..Len(q) : g[i] = g[i - 1] + SizeOf[q[i]]
  PROVE  Total(q) = g[Len(q)]
<1>1. PICK f \in [0..Len(q) -> Nat] :
        /\ f[0] = 0
        /\ \A i \in 1..Len(q) : f[i] = f[i - 1] + SizeOf[q[i]]
        /\ Total(q) = f[Len(q)]
  BY TotalSums
<1>2. Len(q) \in Nat
  BY DEF Queues
<1> DEFINE S == {n \in Nat : n \in 0..Len(q) => g[n] = f[n]}
<1>3. ASSUME NEW n \in Nat, n \in S
      PROVE  n + 1 \in S
  <2>1. CASE n + 1 \in 0..Len(q)
    <3>1. n + 1 \in 1..Len(q) /\ n \in 0..Len(q) /\ (n + 1) - 1 = n
      BY <2>1, <1>2
    <3>2. QED
      BY <3>1, <1>1, <1>3
  <2>2. QED
    BY <2>1
<1>4. Nat \subseteq S
  <2>1. 0 \in S
    BY <1>1
  <2> HIDE DEF S
  <2>2. QED
    BY <2>1, <1>3, NatSet
<1>5. QED
  BY <1>1, <1>2, <1>4

(* Nothing weighs nothing, and every queue a number.                        *)
LEMMA TotalNat ==
  /\ Total(<<>>) = 0
  /\ \A q \in Queues : Total(q) \in Nat
<1>1. <<>> \in Queues /\ Len(<<>>) = 0
  BY DEF Queues
<1>2. Total(<<>>) = 0
  BY <1>1, TotalSums
<1>3. ASSUME NEW q \in Queues PROVE Total(q) \in Nat
  <2>1. Len(q) \in 0..Len(q)
    BY DEF Queues
  <2>2. QED
    BY <2>1, TotalSums
<1>4. QED
  BY <1>2, <1>3

(* A digest at the end adds its length.                                     *)
LEMMA TotalAppend ==
  ASSUME NEW q \in Queues, NEW d \in Payload
  PROVE  Append(q, d) \in Queues /\ Total(Append(q, d)) = Total(q) + SizeOf[d]
<1> DEFINE p == Append(q, d)
<1>1. PICK f \in [0..Len(q) -> Nat] :
        /\ f[0] = 0
        /\ \A i \in 1..Len(q) : f[i] = f[i - 1] + SizeOf[q[i]]
        /\ Total(q) = f[Len(q)]
  BY TotalSums
<1>2. /\ Len(q) \in Nat /\ p \in Queues /\ Len(p) = Len(q) + 1
      /\ \A i \in 1..Len(q) : p[i] = q[i]
      /\ p[Len(q) + 1] = d
  BY DEF Queues
<1> DEFINE g == [i \in 0..Len(q) + 1 |-> IF i = Len(q) + 1 THEN f[Len(q)] + SizeOf[d] ELSE f[i]]
<1> HIDE DEF p
<1>3. g[0] = 0 /\ \A i \in 1..Len(p) : g[i] = g[i - 1] + SizeOf[p[i]]
  BY <1>1, <1>2
<1>4. g[Len(p)] = Total(q) + SizeOf[d]
  BY <1>1, <1>2
<1> HIDE DEF g
<1>5. Total(p) = g[Len(p)]
  BY <1>2, <1>3, TotalBy
<1>6. QED
  BY <1>2, <1>4, <1>5 DEF p

(* A queue weighs what its parts do.                                        *)
LEMMA TotalConcat ==
  ASSUME NEW a \in Queues, NEW b \in Queues
  PROVE  a \o b \in Queues /\ Total(a \o b) = Total(a) + Total(b)
<1> DEFINE p == a \o b
<1>1. PICK f \in [0..Len(a) -> Nat] :
        /\ f[0] = 0
        /\ \A i \in 1..Len(a) : f[i] = f[i - 1] + SizeOf[a[i]]
        /\ Total(a) = f[Len(a)]
  BY TotalSums
<1>2. PICK h \in [0..Len(b) -> Nat] :
        /\ h[0] = 0
        /\ \A i \in 1..Len(b) : h[i] = h[i - 1] + SizeOf[b[i]]
        /\ Total(b) = h[Len(b)]
  BY TotalSums
<1>3. /\ Len(a) \in Nat /\ Len(b) \in Nat
      /\ p \in Queues /\ Len(p) = Len(a) + Len(b)
      /\ \A i \in 1..Len(a) : p[i] = a[i]
      /\ \A i \in 1..Len(b) : p[Len(a) + i] = b[i]
  BY DEF Queues
<1> DEFINE g == [i \in 0..Len(a) + Len(b) |->
                   IF i <= Len(a) THEN f[i] ELSE f[Len(a)] + h[i - Len(a)]]
<1> HIDE DEF p
<1>4. g[0] = 0
  BY <1>1, <1>3
<1>5. ASSUME NEW i \in 1..Len(p)
      PROVE  g[i] = g[i - 1] + SizeOf[p[i]]
  <2>1. CASE i <= Len(a)
    <3>1. i \in 1..Len(a) /\ i \in 0..Len(a) + Len(b) /\ i - 1 \in 0..Len(a) + Len(b) /\ i - 1 <= Len(a)
      BY <2>1, <1>3
    <3>2. QED
      BY <3>1, <2>1, <1>1, <1>3
  <2>2. CASE ~ (i <= Len(a))
    <3> DEFINE j == i - Len(a)
    <3>1. /\ j \in 1..Len(b) /\ i = Len(a) + j /\ (i - 1) - Len(a) = j - 1 /\ i - Len(a) = j
          /\ j \in 0..Len(b) /\ j - 1 \in 0..Len(b) /\ Len(a) \in 0..Len(a)
          /\ i \in 0..Len(a) + Len(b) /\ i - 1 \in 0..Len(a) + Len(b)
          /\ i - 1 <= Len(a) => i - 1 = Len(a) /\ j = 1
      BY <2>2, <1>3
    <3> HIDE DEF j
    <3>2. p[i] = b[j] /\ SizeOf[b[j]] \in Nat
      <4>1. p[Len(a) + j] = b[j]
        BY <3>1, <1>3
      <4>2. b[j] \in Payload
        BY <3>1 DEF Queues
      <4>3. QED
        BY <4>1, <4>2, <3>1, CacheAssumption
    <3>3. g[i] = f[Len(a)] + h[j]
      BY <3>1, <2>2
    <3>4. g[i - 1] = f[Len(a)] + h[j - 1]
      <4>1. CASE i - 1 <= Len(a)
        BY <3>1, <4>1, <1>1, <1>2, <1>3
      <4>2. CASE ~ (i - 1 <= Len(a))
        BY <3>1, <4>2
      <4>3. QED
        BY <4>1, <4>2
    <3>5. /\ h[j] = h[j - 1] + SizeOf[b[j]]
          /\ h[j - 1] \in Nat /\ f[Len(a)] \in Nat
      <4> HIDE DEF g
      <4>1. QED
        BY <3>1, <1>1, <1>2, <1>3
    <3> HIDE DEF g
    <3>6. QED
      BY <3>2, <3>3, <3>4, <3>5
  <2>3. QED
    BY <2>1, <2>2
<1>6. g[Len(p)] = Total(a) + Total(b)
  BY <1>1, <1>2, <1>3
<1> HIDE DEF g
<1>7. Total(p) = g[Len(p)]
  BY <1>3, <1>4, <1>5, TotalBy
<1>8. QED
  BY <1>3, <1>6, <1>7 DEF p

(* A queue as a function on its positions.                                  *)
LEMMA QueueAt ==
  ASSUME NEW q \in Queues
  PROVE  /\ Len(q) \in Nat /\ DOMAIN q = 1..Len(q)
         /\ \A k \in 1..Len(q) : q[k] \in Payload
  BY DEF Queues

(* Two queues in a row are a queue of their joint length.                   *)
LEMMA ConcatLen ==
  ASSUME NEW a \in Queues, NEW b \in Queues
  PROVE  a \o b \in Queues /\ Len(a \o b) = Len(a) + Len(b)
  BY DEF Queues

(* What stands where in two queues in a row.                                *)
LEMMA ConcatAt ==
  ASSUME NEW a \in Queues, NEW b \in Queues
  PROVE  /\ \A k \in 1..Len(a) : (a \o b)[k] = a[k]
         /\ \A k \in Len(a) + 1..Len(a) + Len(b) : (a \o b)[k] = b[k - Len(a)]
  BY DEF Queues

(* Queues that agree on every position are the same.                        *)
LEMMA SameQueue ==
  ASSUME NEW a \in Queues, NEW b \in Queues,
         Len(a) = Len(b), \A k \in 1..Len(b) : a[k] = b[k]
  PROVE  a = b
  BY DEF Queues

(* A queue cut in two: its parts, their weights, and what an order without  *)
(* repetitions makes of them.                                               *)
LEMMA Cut ==
  ASSUME NEW q \in Queues, NEW n \in 0..Len(q)
  PROVE  LET out == SubSeq(q, 1, n)
             rest == Dropped(q, n) IN
         /\ out \in Queues /\ rest \in Queues
         /\ Total(q) = Total(out) + Total(rest)
         /\ ToSet(q) = ToSet(out) \cup ToSet(rest)
         /\ IsInjective(q) => IsInjective(rest) /\ ToSet(out) \cap ToSet(rest) = {}
<1> DEFINE out == SubSeq(q, 1, n)
           rest == Dropped(q, n)
<1>1. n \in Nat /\ Len(q) \in Nat /\ n <= Len(q) /\ \A k \in 1..Len(q) : q[k] \in Payload
  BY DEF Queues
<1>2. /\ out \in Queues /\ Len(out) = n /\ DOMAIN out = 1..n
      /\ \A k \in 1..n : out[k] = q[k]
  BY <1>1 DEF Queues
<1>3. /\ rest \in Queues /\ Len(rest) = Len(q) - n /\ DOMAIN rest = 1..Len(q) - n
      /\ \A k \in 1..Len(q) - n : rest[k] = q[n + k]
  BY <1>1 DEF Queues, Dropped
<1>4. DOMAIN q = 1..Len(q)
  BY DEF Queues
<1> HIDE DEF out, rest
<1>5. q = out \o rest
  <2>0. out \o rest \in Queues /\ Len(out \o rest) = Len(out) + Len(rest)
    BY <1>2, <1>3, ConcatLen
  <2>1. Len(out \o rest) = Len(q)
    BY <2>0, <1>1, <1>2, <1>3
  <2>2. ASSUME NEW k \in 1..Len(q) PROVE (out \o rest)[k] = q[k]
    <3>1. CASE k <= n
      BY <3>1, <1>1, <1>2, <1>3, ConcatAt
    <3>2. CASE ~ (k <= n)
      <4>1. k - n \in 1..Len(q) - n /\ n + (k - n) = k
        BY <3>2, <1>1
      <4>2. k \in Len(out) + 1..Len(out) + Len(rest)
        BY <3>2, <1>1, <1>2, <1>3
      <4>3. (out \o rest)[k] = rest[k - Len(out)]
        BY <4>2, <1>2, <1>3, ConcatAt
      <4>4. rest[k - Len(out)] = rest[k - n]
        BY <1>2
      <4>5. rest[k - n] = q[n + (k - n)]
        BY <4>1, <1>3
      <4>6. QED
        BY <4>1, <4>3, <4>4, <4>5
    <3>3. QED
      BY <3>1, <3>2
  <2>3. QED
    BY <2>0, <2>1, <2>2, SameQueue
<1>6. Total(q) = Total(out) + Total(rest)
  BY <1>2, <1>3, <1>5, TotalConcat
<1>7. \A k \in 1..Len(q) : k \in 1..n \/ (k - n \in 1..Len(q) - n /\ n + (k - n) = k)
  BY <1>1
<1>8. /\ \A k \in 1..n : k \in 1..Len(q)
      /\ \A k \in 1..Len(q) - n : n + k \in 1..Len(q) /\ n + k \notin 1..n
  BY <1>1
<1>9. ToSet(q) = ToSet(out) \cup ToSet(rest)
  <2>1. ASSUME NEW x \in ToSet(q)
        PROVE  x \in ToSet(out) \/ x \in ToSet(rest)
    <3>1. PICK k \in 1..Len(q) : x = q[k]
      BY <1>4 DEF ToSet
    <3>2. CASE k \in 1..n
      BY <3>1, <3>2, <1>2 DEF ToSet
    <3>3. CASE k - n \in 1..Len(q) - n /\ n + (k - n) = k
      <4>1. rest[k - n] = x
        BY <3>1, <3>3, <1>3
      <4>2. QED
        BY <4>1, <3>3, <1>3 DEF ToSet
    <3>4. QED
      BY <3>2, <3>3, <1>7
  <2>2. \A x : x \in ToSet(out) \/ x \in ToSet(rest) => x \in ToSet(q)
    BY <1>2, <1>3, <1>4, <1>8 DEF ToSet
  <2>3. QED
    BY <2>1, <2>2
<1>10. ASSUME IsInjective(q)
       PROVE  IsInjective(rest) /\ ToSet(out) \cap ToSet(rest) = {}
  <2>1. \A k, m \in 1..Len(q) : q[k] = q[m] => k = m
    BY <1>10, <1>4 DEF IsInjective
  <2>2. ASSUME NEW k \in DOMAIN rest, NEW m \in DOMAIN rest, rest[k] = rest[m]
        PROVE  k = m
    <3>1. n + k = n + m
      BY <2>1, <2>2, <1>3, <1>8
    <3>2. QED
      BY <3>1, <1>1, <1>3
  <2>3. ASSUME NEW k \in 1..n, NEW m \in 1..Len(q) - n
        PROVE  out[k] # rest[m]
    BY <2>1, <1>2, <1>3, <1>8
  <2>4. ToSet(out) \cap ToSet(rest) = {}
    BY <2>3, <1>2, <1>3 DEF ToSet
  <2>5. QED
    BY <2>2, <2>4 DEF IsInjective
<1>11. QED
  BY <1>2, <1>3, <1>6, <1>9, <1>10 DEF out, rest

(* One digest taken out of the middle.                                      *)
LEMMA Removed ==
  ASSUME NEW q \in Queues, NEW i \in DOMAIN q, IsInjective(q)
  PROVE  LET p == RemoveAt(q, i) IN
         /\ p \in Queues /\ IsInjective(p)
         /\ Total(q) = Total(p) + SizeOf[q[i]]
         /\ ToSet(p) = ToSet(q) \ {q[i]}
<1> DEFINE a == SubSeq(q, 1, i - 1)
           b == Dropped(q, i)
           p == RemoveAt(q, i)
<1>1. /\ DOMAIN q = 1..Len(q) /\ Len(q) \in Nat /\ i \in Nat /\ 1 <= i /\ i <= Len(q)
      /\ \A k \in 1..Len(q) : q[k] \in Payload
  BY DEF Queues
<1>2. p = a \o b
  BY DEF RemoveAt, Dropped
<1>3. a \in Queues /\ Len(a) = i - 1 /\ \A k \in 1..i - 1 : a[k] = q[k]
  BY <1>1 DEF Queues
<1>4. b \in Queues /\ Len(b) = Len(q) - i /\ \A k \in 1..Len(q) - i : b[k] = q[i + k]
  BY <1>1 DEF Queues, Dropped
<1>5. SubSeq(q, 1, i) = Append(a, q[i])
  <2>1. /\ SubSeq(q, 1, i) \in Queues /\ Append(a, q[i]) \in Queues
        /\ Len(SubSeq(q, 1, i)) = i /\ Len(Append(a, q[i])) = i
    BY <1>1, <1>3 DEF Queues
  <2>2. ASSUME NEW k \in 1..i PROVE SubSeq(q, 1, i)[k] = Append(a, q[i])[k]
    BY <1>1, <1>3 DEF Queues
  <2>3. QED
    BY <2>1, <2>2, SameQueue
<1>6. Total(q) = Total(a) + SizeOf[q[i]] + Total(b)
  <2>1. Total(q) = Total(SubSeq(q, 1, i)) + Total(b)
    BY <1>1, Cut
  <2>2. Total(SubSeq(q, 1, i)) = Total(a) + SizeOf[q[i]]
    BY <1>1, <1>3, <1>5, TotalAppend
  <2>3. QED
    BY <2>1, <2>2
<1> HIDE DEF a, b, p
<1>7. p \in Queues /\ Total(p) = Total(a) + Total(b)
  BY <1>2, <1>3, <1>4, TotalConcat
<1>8. Total(a) \in Nat /\ Total(b) \in Nat /\ SizeOf[q[i]] \in Nat
  BY <1>1, <1>3, <1>4, TotalNat, CacheAssumption
<1>9. DOMAIN p = 1..Len(q) - 1
  <2>0. Len(p) = Len(a) + Len(b)
    BY <1>2, <1>3, <1>4, ConcatLen
  <2>1. Len(p) = (i - 1) + (Len(q) - i)
    BY <2>0, <1>3, <1>4
  <2>2. QED
    BY <2>1, <1>1, <1>7, QueueAt
<1>10. /\ \A k \in 1..i - 1 : p[k] = q[k]
       /\ \A k \in i..Len(q) - 1 : p[k] = q[k + 1]
  <2>1. ASSUME NEW k \in 1..i - 1 PROVE p[k] = q[k]
    BY <1>1, <1>2, <1>3, <1>4 DEF Queues
  <2>2. ASSUME NEW k \in i..Len(q) - 1 PROVE p[k] = q[k + 1]
    <3>1. k - (i - 1) \in 1..Len(q) - i /\ i + (k - (i - 1)) = k + 1
      BY <1>1
    <3>2. p[k] = b[k - (i - 1)]
      BY <1>1, <1>2, <1>3, <1>4 DEF Queues
    <3>3. QED
      BY <3>1, <3>2, <1>4
  <2>3. QED
    BY <2>1, <2>2
<1> DEFINE j(k) == IF k < i THEN k ELSE k + 1
<1>11. \A k \in 1..Len(q) - 1 : p[k] = q[j(k)] /\ j(k) \in 1..Len(q) \ {i}
  BY <1>1, <1>10
<1>12. \A k, m \in 1..Len(q) - 1 : j(k) = j(m) => k = m
  BY <1>1
<1>13. \A k \in 1..Len(q) \ {i} : \E m \in 1..Len(q) - 1 : j(m) = k
  <2>1. ASSUME NEW k \in 1..Len(q) \ {i} PROVE \E m \in 1..Len(q) - 1 : j(m) = k
    <3>1. CASE k < i
      <4>1. k \in 1..Len(q) - 1 /\ j(k) = k
        BY <3>1, <1>1
      <4>2. QED
        BY <4>1
    <3>2. CASE ~ (k < i)
      <4>1. k - 1 \in 1..Len(q) - 1 /\ j(k - 1) = k
        BY <3>2, <1>1
      <4>2. QED
        BY <4>1
    <3>3. QED
      BY <3>1, <3>2
  <2>2. QED
    BY <2>1
<1> HIDE DEF j
<1>14. \A k, m \in 1..Len(q) : q[k] = q[m] => k = m
  BY <1>1 DEF IsInjective
<1>15. IsInjective(p)
  BY <1>9, <1>11, <1>12, <1>14 DEF IsInjective
<1>16. ToSet(p) = ToSet(q) \ {q[i]}
  <2>1. \A x \in ToSet(p) : x \in ToSet(q) /\ x # q[i]
    BY <1>1, <1>9, <1>11, <1>14 DEF ToSet
  <2>2. ASSUME NEW x \in ToSet(q), x # q[i]
        PROVE  x \in ToSet(p)
    <3>1. PICK k \in 1..Len(q) : x = q[k]
      BY <1>1 DEF ToSet
    <3>2. k \in 1..Len(q) \ {i}
      BY <2>2, <3>1
    <3>3. PICK m \in 1..Len(q) - 1 : j(m) = k
      BY <3>2, <1>13
    <3>4. p[m] = x
      BY <3>1, <3>3, <1>11
    <3>5. QED
      BY <3>4, <1>9 DEF ToSet
  <2>3. QED
    BY <2>1, <2>2
<1>17. QED
  BY <1>6, <1>7, <1>8, <1>15, <1>16 DEF p

------------------------------------------------------------------------------
(* The invariant *)

TiersTypes ==
  /\ chunks \subseteq Payload /\ order \in Queues /\ bytes \in Nat
  /\ file \in [Payload -> {"none", "good", "bad"}]
  /\ due \subseteq Payload /\ owed \subseteq Payload /\ exposed \subseteq owed
  /\ check \in {Idle} \cup [at : {"missed", "drop"}, of : Payload]

(* What is owed and may be evicted is on disk, unless it is exposed.        *)
QueuedOnDisk == \A d \in ToSet(order) \cap (owed \ exposed) : file[d] = "good"

(* A presence check that goes on after its miss is about a digest nobody    *)
(* is owed, or one renamed into place since the miss, which is exposed.     *)
ChecksUnowed == check # Idle => check.of \notin chunks \cup (owed \ exposed)

TiersInv == TiersTypes /\ Accounted /\ OwedHeld /\ QueuedOnDisk /\ ChecksUnowed

(* An empty store satisfies it.                                             *)
LEMMA InitTiersInv == TiersInit => TiersInv
<1> SUFFICES ASSUME TiersInit PROVE TiersInv
  OBVIOUS
<1>1. <<>> \in Queues /\ ToSet(<<>>) = {} /\ IsInjective(<<>>)
  BY DEF Queues, ToSet, IsInjective
<1>2. QED
  BY <1>1, TotalNat, CacheAssumption
     DEF TiersInit, TiersInv, TiersTypes, Accounted, OwedHeld, QueuedOnDisk, ChecksUnowed

(* The eviction loop stops, and stops within the budget or with nothing.    *)
LEMMA EvictionsStop ==
  ASSUME NEW q \in Queues, NEW total \in Nat
  PROVE  LET n == Evictions(q, total) IN
         /\ n \in 0..Len(q)
         /\ total <= Budget + Total(SubSeq(q, 1, n)) \/ n = Len(q)
<1> DEFINE Fits(n) == total <= Budget + Total(SubSeq(q, 1, n)) \/ n = Len(q)
           S == {n \in Nat : (\E m \in 0..n : m \in 0..Len(q) /\ Fits(m))
                             => \E m \in 0..Len(q) : Fits(m) /\ \A k \in 0..m - 1 : ~ Fits(k)}
<1>1. Len(q) \in Nat
  BY QueueAt
<1> HIDE DEF Fits
<1>2. 0 \in S
  <2>1. \A m \in 0..0 : \A k \in 0..m - 1 : FALSE
    OBVIOUS
  <2>2. QED
    BY <2>1
<1>3. ASSUME NEW n \in Nat, n \in S
      PROVE  n + 1 \in S
  <2>1. CASE \E m \in 0..n : m \in 0..Len(q) /\ Fits(m)
    BY <2>1, <1>3
  <2>2. CASE ~ \E m \in 0..n : m \in 0..Len(q) /\ Fits(m)
    <3>1. ASSUME n + 1 \in 0..Len(q), Fits(n + 1)
          PROVE  \A k \in 0..(n + 1) - 1 : ~ Fits(k)
      BY <2>2, <3>1, <1>1
    <3>2. \A m \in 0..n + 1 : m \in 0..n \/ m = n + 1
      OBVIOUS
    <3>3. QED
      BY <2>2, <3>1, <3>2
  <2>3. QED
    BY <2>1, <2>2
<1>4. Nat \subseteq S
  <2> HIDE DEF S
  <2>1. QED
    BY <1>2, <1>3, NatSet
<1>5. Fits(Len(q)) /\ Len(q) \in 0..Len(q)
  BY <1>1 DEF Fits
<1>6. PICK n \in 0..Len(q) : Fits(n) /\ \A k \in 0..n - 1 : ~ Fits(k)
  BY <1>1, <1>4, <1>5
<1>7. \A k \in 0..n - 1 : total > Budget + Total(SubSeq(q, 1, k))
  <2>1. ASSUME NEW k \in 0..n - 1
        PROVE  total > Budget + Total(SubSeq(q, 1, k))
    <3>1. k \in 0..Len(q) /\ ~ (total <= Budget + Total(SubSeq(q, 1, k)))
      BY <1>1, <1>6 DEF Fits
    <3>2. Total(SubSeq(q, 1, k)) \in Nat
      BY <3>1, Cut, TotalNat
    <3>3. QED
      BY <3>1, <3>2, CacheAssumption
  <2>2. QED
    BY <2>1
<1>8. QED
  BY <1>6, <1>7 DEF Evictions, Fits

(* Caching a payload that is on disk, with or without evictions.            *)
LEMMA CacheKeeps ==
  ASSUME TiersInv, NEW d \in Payload, Cache(d)
  PROVE  /\ chunks' \subseteq Payload /\ order' \in Queues /\ bytes' \in Nat
         /\ Accounted'
         /\ chunks \cup {d} \subseteq chunks' \cup ToSet(order) \cup {d}
         /\ ToSet(order') \subseteq ToSet(order) \cup {d}
<1>1. CASE d \in chunks
  BY <1>1 DEF Cache, TiersInv, TiersTypes, Accounted
<1>2. CASE d \notin chunks
  <2> DEFINE q == Append(order, d)
             n == Evictions(q, bytes + SizeOf[d])
             out == SubSeq(q, 1, n)
             rest == Dropped(q, n)
  <2>1. /\ order \in Queues /\ bytes \in Nat /\ SizeOf[d] \in Nat
        /\ bytes = Total(order) /\ IsInjective(order)
        /\ ToSet(order) \subseteq chunks /\ chunks \subseteq Payload
    BY CacheAssumption DEF TiersInv, TiersTypes, Accounted
  <2>2. q \in Queues /\ Total(q) = bytes + SizeOf[d]
    BY <2>1, TotalAppend
  <2>3. ToSet(q) = ToSet(order) \cup {d} /\ IsInjective(q)
    <3>1. /\ Len(q) = Len(order) + 1 /\ q[Len(order) + 1] = d
          /\ \A k \in 1..Len(order) : q[k] = order[k]
          /\ Len(order) \in Nat
      BY <2>1 DEF Queues
    <3>2. DOMAIN q = 1..Len(order) + 1 /\ DOMAIN order = 1..Len(order)
      BY <2>1, <2>2, <3>1, QueueAt
    <3> HIDE DEF q
    <3>3. \A k \in 1..Len(order) : q[k] # d
      BY <3>1, <3>2, <2>1, <1>2 DEF ToSet
    <3>4. \A k \in 1..Len(order) + 1 : k \in 1..Len(order) \/ k = Len(order) + 1
      BY <3>1
    <3>5. IsInjective(q)
      BY <3>1, <3>2, <3>3, <3>4, <2>1 DEF IsInjective
    <3>6. ToSet(q) = ToSet(order) \cup {d}
      <4>1. Len(order) + 1 \in 1..Len(order) + 1 /\ 1..Len(order) \subseteq 1..Len(order) + 1
        BY <3>1
      <4>2. \A x \in ToSet(q) : x \in ToSet(order) \cup {d}
        BY <3>1, <3>2, <3>4 DEF ToSet
      <4>3. \A x \in ToSet(order) \cup {d} : x \in ToSet(q)
        BY <3>1, <3>2, <4>1 DEF ToSet
      <4>4. QED
        BY <4>2, <4>3
    <3>7. QED
      BY <3>5, <3>6
  <2> HIDE DEF q
  <2>4. /\ n \in 0..Len(q)
        /\ bytes + SizeOf[d] <= Budget + Total(out) \/ n = Len(q)
    <3>1. bytes + SizeOf[d] \in Nat
      BY <2>1
    <3>2. QED
      BY <2>2, <3>1, EvictionsStop
  <2>5. /\ order' = rest /\ chunks' = (chunks \cup {d}) \ ToSet(out)
        /\ bytes' = (bytes + SizeOf[d]) - Total(out)
    BY <1>2 DEF Cache, q
  <2> HIDE DEF n
  <2>6. /\ out \in Queues /\ rest \in Queues
        /\ Total(q) = Total(out) + Total(rest)
        /\ ToSet(q) = ToSet(out) \cup ToSet(rest)
        /\ IsInjective(rest) /\ ToSet(out) \cap ToSet(rest) = {}
    BY <2>2, <2>3, <2>4, Cut
  <2>7. n = Len(q) => Total(rest) = 0
    <3>1. ASSUME n = Len(q) PROVE rest = <<>>
      BY <3>1, <2>2 DEF Dropped, Queues
    <3>2. QED
      BY <3>1, TotalNat
  <2>8. Total(out) \in Nat /\ Total(rest) \in Nat
    BY <2>6, TotalNat
  <2>9. bytes' = Total(order') /\ bytes' \in Nat /\ bytes' <= Budget
    BY <2>1, <2>2, <2>4, <2>5, <2>6, <2>7, <2>8, CacheAssumption
  <2> HIDE DEF out, rest
  <2>10. ToSet(order') \subseteq chunks'
    BY <2>1, <2>3, <2>5, <2>6
  <2>11. Accounted'
    BY <2>5, <2>6, <2>9, <2>10 DEF Accounted
  <2>12. QED
    BY <2>1, <2>3, <2>5, <2>6, <2>9, <2>11
<1>3. QED
  BY <1>1, <1>2

(* Putting or reading a payload that ends up on disk.                       *)
LEMMA CachedKeeps ==
  ASSUME TiersInv, NEW d \in Payload, Unlocked,
         Cache(d) \/ UNCHANGED <<chunks, order, bytes>>,
         file' \in [Payload -> {"none", "good", "bad"}],
         \A e \in Payload : file'[e] = file[e] \/ file'[e] = "good",
         file'[d] = "good", owed' \subseteq owed \cup {d},
         exposed \ {d} \subseteq exposed', exposed' \subseteq owed',
         UNCHANGED <<due, check>>
  PROVE  TiersInv'
<1>1. /\ chunks' \subseteq Payload /\ order' \in Queues /\ bytes' \in Nat
      /\ Accounted'
      /\ chunks \cup {d} \subseteq chunks' \cup ToSet(order) \cup {d}
      /\ ToSet(order') \subseteq ToSet(order) \cup {d}
  <2>1. CASE Cache(d)
    BY <2>1, CacheKeeps
  <2>2. CASE UNCHANGED <<chunks, order, bytes>>
    BY <2>2 DEF TiersInv, TiersTypes, Accounted
  <2>3. QED
    BY <2>1, <2>2
<1>2. owed' \subseteq Payload /\ owed \subseteq Payload
  BY DEF TiersInv, TiersTypes
<1>3. QueuedOnDisk'
  BY <1>1, <1>2 DEF TiersInv, QueuedOnDisk
<1>4. OwedHeld'
  BY <1>1, <1>2 DEF TiersInv, QueuedOnDisk, OwedHeld
<1>5. ChecksUnowed'
  BY CacheAssumption DEF TiersInv, TiersTypes, ChecksUnowed, Unlocked, Idle
<1>6. TiersTypes'
  BY <1>1, <1>2 DEF TiersInv, TiersTypes
<1>7. QED
  BY <1>1, <1>3, <1>4, <1>5, <1>6 DEF TiersInv

(* Every operation, failure and restart keeps it.                           *)
LEMMA NextTiersInv ==
  ASSUME TiersInv, [TiersNext]_tiersVars
  PROVE  TiersInv'
<1> USE DEF TiersInv
<1>1. ASSUME NEW d \in Payload, Put(d) PROVE TiersInv'
  <2>1. /\ file' \in [Payload -> {"none", "good", "bad"}] /\ file'[d] = "good"
        /\ \A e \in Payload : file'[e] = file[e] \/ file'[e] = "good"
    BY <1>1 DEF Put, TiersTypes
  <2>2. /\ Unlocked
        /\ Cache(d) \/ UNCHANGED <<chunks, order, bytes>>
        /\ owed' \subseteq owed \cup {d} /\ UNCHANGED <<due, check>>
        /\ exposed \ {d} \subseteq exposed' /\ exposed' \subseteq owed'
    BY <1>1 DEF Put, TiersTypes
  <2>3. QED
    BY <2>1, <2>2, CachedKeeps
<1>2. ASSUME NEW d \in Payload, Get(d) PROVE TiersInv'
  <2>1. /\ file' \in [Payload -> {"none", "good", "bad"}] /\ file'[d] = "good"
        /\ \A e \in Payload : file'[e] = file[e] \/ file'[e] = "good"
    BY <1>2 DEF Get, TiersTypes
  <2>2. /\ Unlocked /\ Cache(d)
        /\ owed' \subseteq owed \cup {d} /\ UNCHANGED <<due, check>>
        /\ exposed \ {d} \subseteq exposed' /\ exposed' \subseteq owed'
    BY <1>2 DEF Get, TiersTypes
  <2>3. QED
    BY <2>1, <2>2, CachedKeeps
<1>3. ASSUME NEW d \in Payload, PutUnwritten(d) PROVE TiersInv'
  <2>1. /\ exposed' \subseteq exposed \cup {d} /\ exposed \ {d} \subseteq exposed'
        /\ d \in exposed' \/ (d \in ToSet(order) => file[d] = "good")
    BY <1>3 DEF PutUnwritten, ExposedByPut, Unbacked
  <2>2. /\ chunks' = chunks \cup {d} /\ owed' = owed \cup {d}
        /\ UNCHANGED <<order, bytes, file, due, check>> /\ check = Idle
    BY <1>3, CacheAssumption DEF PutUnwritten, Unlocked, TiersTypes, Idle
  <2>3. Accounted'
    BY <2>2 DEF Accounted
  <2>4. OwedHeld' /\ QueuedOnDisk'
    BY <2>1, <2>2 DEF OwedHeld, QueuedOnDisk
  <2>5. QED
    BY <2>1, <2>2, <2>3, <2>4 DEF TiersTypes, ChecksUnowed
<1>4. ASSUME NEW d \in Payload, VerifyMiss(d) PROVE TiersInv'
  BY <1>4 DEF VerifyMiss, TiersTypes, Accounted, OwedHeld, QueuedOnDisk, ChecksUnowed
<1>5. CASE VerifyStat
  BY <1>5, CacheAssumption
     DEF VerifyStat, TiersTypes, Accounted, OwedHeld, QueuedOnDisk, ChecksUnowed, Idle
<1>6. CASE VerifyDrop
  BY <1>6, CacheAssumption
     DEF VerifyDrop, TiersTypes, Accounted, OwedHeld, QueuedOnDisk, ChecksUnowed, Idle
<1>7. ASSUME NEW d \in Payload, NEW unlinked \in BOOLEAN, Forget(d, unlinked)
      PROVE  TiersInv'
  <2>1. /\ order' \in Queues /\ bytes' \in Nat /\ bytes' = Total(order') /\ bytes' <= Budget
        /\ IsInjective(order') /\ ToSet(order') = ToSet(order) \ {d}
    <3>1. CASE d \in chunks /\ d \in ToSet(order)
      <4> DEFINE i == CHOOSE i \in DOMAIN order : order[i] = d
      <4>1. i \in DOMAIN order /\ order[i] = d
        BY <3>1 DEF ToSet
      <4>2. order' = RemoveAt(order, i) /\ bytes' = bytes - SizeOf[d]
        BY <1>7, <3>1 DEF Forget
      <4> HIDE DEF i
      <4>3. /\ order' \in Queues /\ IsInjective(order')
            /\ Total(order) = Total(order') + SizeOf[d]
            /\ ToSet(order') = ToSet(order) \ {d}
        BY <4>1, <4>2, Removed DEF TiersTypes, Accounted
      <4>4. Total(order') \in Nat /\ SizeOf[d] \in Nat
        BY <4>3, TotalNat, CacheAssumption
      <4>5. QED
        BY <4>2, <4>3, <4>4, CacheAssumption DEF TiersTypes, Accounted
    <3>2. CASE ~ (d \in chunks /\ d \in ToSet(order))
      BY <1>7, <3>2 DEF Forget, TiersTypes, Accounted
    <3>3. QED
      BY <3>1, <3>2
  <2>2. /\ chunks' = chunks \ {d} /\ owed' = owed \ {d} /\ UNCHANGED <<due, check>>
        /\ exposed' = exposed \ {d}
        /\ file' \in [Payload -> {"none", "good", "bad"}]
        /\ \A e \in Payload \ {d} : file'[e] = file[e]
        /\ check = Idle
    BY <1>7, CacheAssumption DEF Forget, Unlocked, TiersTypes, Idle
  <2>3. Accounted'
    BY <2>1, <2>2 DEF Accounted
  <2>4. QED
    BY <2>1, <2>2, <2>3 DEF TiersTypes, OwedHeld, QueuedOnDisk, ChecksUnowed
<1>8. ASSUME NEW d \in Payload, PublishBegin(d) PROVE TiersInv'
  BY <1>8, CacheAssumption
     DEF PublishBegin, Unlocked, TiersTypes, Accounted, OwedHeld, QueuedOnDisk, ChecksUnowed, Idle
<1>9. ASSUME NEW d \in Payload, PublishRename(d) PROVE TiersInv'
  <2>1. /\ check.of = d => exposed' = exposed \cup {d}
        /\ check.of # d => exposed' = exposed \ {d}
        /\ owed' = owed \cup {d} /\ file' = [file EXCEPT ![d] = "good"]
        /\ due' = due \ {d} /\ UNCHANGED <<chunks, order, bytes, check>>
    BY <1>9 DEF PublishRename
  <2>2. TiersTypes' /\ Accounted'
    BY <2>1 DEF TiersTypes, Accounted
  <2>3. OwedHeld' /\ QueuedOnDisk' /\ ChecksUnowed'
    BY <2>1 DEF TiersTypes, OwedHeld, QueuedOnDisk, ChecksUnowed
  <2>4. QED
    BY <2>2, <2>3
<1>10. ASSUME NEW d \in Payload, NEW left \in {"none", "bad"}, Rot(d, left)
       PROVE  TiersInv'
  BY <1>10 DEF Rot, TiersTypes, Accounted, OwedHeld, QueuedOnDisk, ChecksUnowed
<1>11. CASE TiersRestart
  <2>1. <<>> \in Queues /\ ToSet(<<>>) = {} /\ IsInjective(<<>>)
    BY DEF Queues, ToSet, IsInjective
  <2>2. QED
    BY <1>11, <2>1, TotalNat, CacheAssumption
       DEF TiersRestart, TiersTypes, Accounted, OwedHeld, QueuedOnDisk, ChecksUnowed
<1>12. CASE UNCHANGED tiersVars
  BY <1>12 DEF tiersVars, TiersTypes, Accounted, OwedHeld, QueuedOnDisk, ChecksUnowed
<1>13. QED
  BY <1>1, <1>2, <1>3, <1>4, <1>5, <1>6, <1>7, <1>8, <1>9, <1>10, <1>11, <1>12 DEF TiersNext

(* What may be evicted is resident, counted once and within the budget, and *)
(* what the store accepted it still has, in memory or on disk, but for what *)
(* was put over a damaged queued file or renamed under its own check.       *)
THEOREM TiersSoundHolds == TiersSpec => []TiersSound
<1>1. TiersInit => TiersInv
  BY InitTiersInv
<1>2. TiersInv /\ [TiersNext]_tiersVars => TiersInv'
  BY NextTiersInv
<1>3. TiersInv => TiersSound
  BY DEF TiersInv, TiersSound
<1>4. QED
  BY <1>1, <1>2, <1>3, PTL DEF TiersSpec
================================================================================
