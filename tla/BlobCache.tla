------------------------------- MODULE BlobCache -------------------------------
(***************************************************************************)
(* The two tiers of the persistent blob store (kernel/blobstore/src/lib.rs *)
(* with a root): a map in memory, part of it a bounded cache of what the   *)
(* disk has, and one file per digest.  Operations run under the store's    *)
(* mutex.  publish_staged takes it to read the root and renames after it   *)
(* let go, so the rename may fall between the file system calls of         *)
(* has_verified_chunk.                                                     *)
(***************************************************************************)
EXTENDS Naturals, Sequences, SequencesExt

CONSTANTS
  Payload,       \* content addresses
  None,          \* no digest
  SizeOf,        \* byte length of each payload
  Large,         \* LARGE_BLOB_CACHE_BYTES
  Budget         \* CACHE_BUDGET_BYTES

ASSUME CacheAssumption ==
  /\ SizeOf \in [Payload -> Nat \ {0}] /\ None \notin Payload
  /\ Large \in Nat /\ Budget \in Nat /\ Large <= Budget

VARIABLES
  chunks,   \* digests resident in memory
  order,    \* cache_order: the resident digests that may be evicted
  bytes,    \* cache_bytes
  file,     \* file[d]: "none", "good" or "bad"
  due,      \* staged files about to be renamed, the root already read
  check,    \* has_verified_chunk between its calls, holding the mutex
  owed,     \* history: accepted, and since then neither forgotten nor lost
            \* by the disk or a restart
  exposed   \* history: the owed digests accepted in one of the two ways that
            \* leave the only good copy where the store may take it

tiersVars == <<chunks, order, bytes, file, due, check, owed, exposed>>

Idle == [at |-> "idle", of |-> None]

TiersInit ==
  /\ chunks = {} /\ order = <<>> /\ bytes = 0
  /\ file = [d \in Payload |-> "none"]
  /\ due = {} /\ check = Idle /\ owed = {} /\ exposed = {}

------------------------------------------------------------------------------
(* The memory tier *)

Total(q) ==
  LET sum[i \in 0..Len(q)] == IF i = 0 THEN 0 ELSE sum[i - 1] + SizeOf[q[i]]
  IN sum[Len(q)]
Dropped(q, n) == SubSeq(q, n + 1, Len(q))

(* The eviction loop: the oldest entries go until the count fits or none is *)
(* left.                                                                    *)
Evictions(q, total) ==
  CHOOSE n \in 0..Len(q) :
    /\ total <= Budget + Total(SubSeq(q, 1, n)) \/ n = Len(q)
    /\ \A m \in 0..n - 1 : total > Budget + Total(SubSeq(q, 1, m))

Cache(d) ==
  IF d \in chunks THEN UNCHANGED <<chunks, order, bytes>>
  ELSE LET q == Append(order, d)
           n == Evictions(q, bytes + SizeOf[d])
           out == SubSeq(q, 1, n) IN
       /\ order' = Dropped(q, n)
       /\ chunks' = (chunks \cup {d}) \ ToSet(out)
       /\ bytes' = (bytes + SizeOf[d]) - Total(out)

Unlocked == check.at = "idle"

------------------------------------------------------------------------------
(* Operations *)

(* put_chunk, written through: small payloads enter the cache.              *)
Put(d) ==
  /\ Unlocked
  /\ file' = [file EXCEPT ![d] = "good"]
  /\ IF SizeOf[d] > Large THEN UNCHANGED <<chunks, order, bytes>> ELSE Cache(d)
  /\ owed' = owed \cup {d} /\ exposed' = exposed \ {d}
  /\ UNCHANGED <<due, check>>

(* A damaged or missing file whose digest still waits in the queue.         *)
Unbacked(d) == d \in ToSet(order) /\ file[d] # "good"

(* Once its write failed, such a payload is in memory alone and may still   *)
(* be evicted; any other is pinned there.                                   *)
ExposedByPut(d) == IF Unbacked(d) THEN exposed \cup {d} ELSE exposed \ {d}

PutUnwrittenCached(d) ==   \* mutant: a memory-only payload enters the cache
  /\ Unlocked
  /\ Cache(d)
  /\ owed' = owed \cup {d} /\ exposed' = ExposedByPut(d)
  /\ UNCHANGED <<file, due, check>>

(* put_chunk whose write failed: the map is the store for this payload.     *)
PutUnwritten(d) ==
  /\ Unlocked
  /\ chunks' = chunks \cup {d}
  /\ owed' = owed \cup {d} /\ exposed' = ExposedByPut(d)
  /\ UNCHANGED <<order, bytes, file, due, check>>

(* get_chunk that misses memory and finds a file that verifies.             *)
Get(d) ==
  /\ Unlocked /\ d \notin chunks
  /\ file[d] = "good" /\ SizeOf[d] <= Large
  /\ Cache(d)
  /\ UNCHANGED <<file, due, check, owed, exposed>>

VerifyMissAny(d) ==   \* mutant: a file that verifies counts as a miss too
  /\ Unlocked /\ d \notin chunks
  /\ check' = [at |-> "missed", of |-> d]
  /\ UNCHANGED <<chunks, order, bytes, file, due, owed, exposed>>

(* has_verified_chunk, first call: no chunk, and the file read back is      *)
(* absent or does not hash to its name.                                     *)
VerifyMiss(d) ==
  /\ Unlocked /\ d \notin chunks /\ file[d] # "good"
  /\ check' = [at |-> "missed", of |-> d]
  /\ UNCHANGED <<chunks, order, bytes, file, due, owed, exposed>>

(* Second call, a stat: if there is a file, the one read was corrupt.       *)
VerifyStat ==
  /\ check.at = "missed"
  /\ check' = IF file[check.of] = "none" THEN Idle ELSE [check EXCEPT !.at = "drop"]
  /\ UNCHANGED <<chunks, order, bytes, file, due, owed, exposed>>

(* Third call: forget unlinks it.                                           *)
VerifyDrop ==
  /\ check.at = "drop"
  /\ file' = [file EXCEPT ![check.of] = "none"]
  /\ check' = Idle
  /\ UNCHANGED <<chunks, order, bytes, due, owed, exposed>>

(* forget by the plane that put it: out of the map and, if it waits there,  *)
(* out of the queue; a failed unlink leaves the file.                       *)
Forget(d, unlinked) ==
  /\ Unlocked
  /\ chunks' = chunks \ {d}
  /\ IF d \in chunks /\ d \in ToSet(order)
     THEN LET i == CHOOSE i \in DOMAIN order : order[i] = d IN
          /\ order' = RemoveAt(order, i)
          /\ bytes' = bytes - SizeOf[d]
     ELSE UNCHANGED <<order, bytes>>
  /\ file' = IF unlinked THEN [file EXCEPT ![d] = "none"] ELSE file
  /\ owed' = owed \ {d} /\ exposed' = exposed \ {d}
  /\ UNCHANGED <<due, check>>

(* publish_staged of a verified staging file: the root, under the mutex ... *)
PublishBegin(d) ==
  /\ Unlocked /\ d \notin due
  /\ due' = due \cup {d}
  /\ UNCHANGED <<chunks, order, bytes, file, check, owed, exposed>>

(* ... and the rename, outside it: also between a miss and the unlink of a  *)
(* presence check of the same digest, which then takes the new file.        *)
PublishRename(d) ==
  /\ d \in due
  /\ due' = due \ {d}
  /\ file' = [file EXCEPT ![d] = "good"]
  /\ owed' = owed \cup {d}
  /\ exposed' = IF check.of = d THEN exposed \cup {d} ELSE exposed \ {d}
  /\ UNCHANGED <<chunks, order, bytes, check>>

------------------------------------------------------------------------------
(* The environment *)

(* A file is lost, or its bytes no longer hash to its name.                 *)
Rot(d, left) ==
  /\ file[d] = "good"
  /\ file' = [file EXCEPT ![d] = left]
  /\ owed' = owed \ {d} /\ exposed' = exposed \ {d}
  /\ UNCHANGED <<chunks, order, bytes, due, check>>

TiersRestart ==
  /\ chunks' = {} /\ order' = <<>> /\ bytes' = 0 /\ due' = {} /\ check' = Idle
  /\ owed' = {d \in owed : file[d] = "good"} /\ exposed' = {}
  /\ UNCHANGED file

TiersNext ==
  \/ \E d \in Payload :
       \/ Put(d) \/ PutUnwritten(d) \/ Get(d)
       \/ VerifyMiss(d)
       \/ \E unlinked \in BOOLEAN : Forget(d, unlinked)
       \/ PublishBegin(d) \/ PublishRename(d)
       \/ \E left \in {"none", "bad"} : Rot(d, left)
  \/ VerifyStat \/ VerifyDrop
  \/ TiersRestart

TiersSpec == TiersInit /\ [][TiersNext]_tiersVars

------------------------------------------------------------------------------
(* Properties *)

(* The cache's bookkeeping survives every mix of puts that reach the disk   *)
(* and puts that do not, gets, forgets and evictions: what may be evicted   *)
(* is resident, once, and counted, and the count is within the budget.      *)
Accounted ==
  /\ bytes = Total(order) /\ bytes <= Budget
  /\ IsInjective(order) /\ ToSet(order) \subseteq chunks

(* What the store accepted and was not told to forget it still has: no      *)
(* eviction and no presence check that drops a corrupt file takes the only  *)
(* good copy, but of a payload put while its damaged file could not be      *)
(* rewritten and its digest waited in the queue (lib.rs:151), or renamed    *)
(* into place under a check of its own digest (lib.rs:268).  Those two the  *)
(* store can lose, until they are put again; lib.rs:171 says of every       *)
(* queued payload that it lives on disk, so that "eviction can never lose   *)
(* data", and only the others bear it out.                                  *)
OwedHeld == \A d \in owed \ exposed : d \in chunks \/ file[d] = "good"

(* The queue of what may go is exact, and what went, but for the exposed,   *)
(* can be read from disk (BlobStore::cache, forget, has_verified_chunk).    *)
TiersSound == Accounted /\ OwedHeld
==============================================================================
