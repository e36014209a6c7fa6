----------------------------- MODULE MCBlobstore -----------------------------
(***************************************************************************)
(* Instances of the blob store's two halves for TLC.  They meet where a    *)
(* staging file is renamed to its digest: BlobStaging takes the road to    *)
(* that rename apart, BlobCache what it means to the tiers (PublishBegin,  *)
(* PublishRename).  A behaviour is one of either half, the other at rest.  *)
(*                                                                         *)
(* Writers are interchangeable, and so are files, which the view tells     *)
(* apart by how they are reached; one that nothing reaches is new when it  *)
(* is used again.  Among the payloads of the tiers pc is too large for the *)
(* cache, not all of pa, pb and pd fit it at once, and pa and pd are alike.*)
(***************************************************************************)
EXTENDS BlobStaging, BlobCache, TLC

CONSTANTS pa, pb, pc, pd

MCSizeOf == (pa :> 1) @@ (pb :> 2) @@ (pc :> 4) @@ (pd :> 1)

MCSymmetry == Permutations(Writer) \cup Permutations({pa, pd})

(* What the file at each place holds, and at which places it is.            *)
Places ==
  Name \X {"dir"} \cup Digest \X {"blob"} \cup Writer \X {"slot"} \cup Ingest \X {"ingest"}
FileAt ==
  [p \in Places |->
    CASE p[2] = "dir" -> dir[p[1]] [] p[2] = "blob" -> blob[p[1]]
      [] p[2] = "slot" -> slot[p[1]].fd [] p[2] = "ingest" -> ingest[p[1]].fd]

MCView ==
  LET at == FileAt IN
  <<[p \in Places |->
      IF at[p] = NoFile THEN NoFile
      ELSE <<data[at[p]], at[p] \in stale, {q \in Places : at[q] = at[p]}>>],
    claims, [w \in Writer |-> [slot[w] EXCEPT !.fd = NoFile]],
    [i \in Ingest |-> [ingest[i] EXCEPT !.fd = NoFile]], sweep, tiersVars>>

BlobsInit == Init /\ TiersInit

BlobsNext ==
  \/ TiersInit /\ Next /\ UNCHANGED tiersVars
  \/ Init /\ TiersNext /\ UNCHANGED vars

BlobsSpec == BlobsInit /\ [][BlobsNext]_<<vars, tiersVars>>
==============================================================================
