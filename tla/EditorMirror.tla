---------------------------- MODULE EditorMirror ----------------------------
(***************************************************************************)
(* A document lives on one side of the wire and the other side mirrors it  *)
(* (crates/view-wire: editor_document.rs, editor_transaction.rs).  Every   *)
(* edit crosses as a commit, patches between two references; a mirror that *)
(* is not at a commit's reference asks for the document, which comes in    *)
(* chunks under the id of the request.  The changed span, the patched      *)
(* text, the sender, the assembler and the receiver are the repository's;  *)
(* the two loops that own them are external.                               *)
(*                                                                         *)
(* A text is a sequence of bytes; Joined2 holds the pairs of bytes that a  *)
(* position never parts: CR LF, LF CR and the bytes of one character.  A   *)
(* caret is an offset at which a position can stand.                       *)
(***************************************************************************)
EXTENDS Naturals, FiniteSets, SequencesExt

CONSTANTS
  Byte,         \* what a text is made of
  Texts,        \* the documents an edit may make
  Joined2,      \* pairs of bytes no boundary falls between
  Chunk,        \* MAX_EDITOR_CHUNK_BYTES
  MaxRevision,  \* a bound on edits and caret moves
  MaxRequests,  \* a bound on ids, past what edits and faults can use up
  Faults,       \* a bound on losses, restarts and early timeouts together
  NoMirror, NoTransfer

ASSUME EditorBounds ==
  /\ Texts \subseteq Seq(Byte)
  /\ Chunk \in Nat \ {0} /\ {MaxRevision, MaxRequests, Faults} \subseteq Nat

VARIABLES
  texts,      \* the owner's texts by text revision, the last one current
  revision,   \* the owner's revision: every edit and every caret move
  caret,      \* the owner's caret
  sender,     \* the owner's transfer: NoTransfer or [id, target, stage]
  wire,       \* owner to mirror, in order: commits and transfer messages
  mirror,     \* NoMirror or [ref, text]
  receiver,   \* the mirror's transfer: NoTransfer or [id, target, bytes, next, begun]
  request,    \* mirror to owner: NoTransfer or [id, target]
  serial,     \* the last id the mirror's side made
  faults

mirrorVars ==
  <<texts, revision, caret, sender, wire, mirror, receiver, request, serial, faults>>

------------------------------------------------------------------------------
(* Offsets and patches.                                                     *)

Boundary(text, at) ==
  at \in 0..Len(text) /\ (0 < at /\ at < Len(text) => <<text[at], text[at + 1]>> \notin Joined2)

\* Clamping moves a caret back to a boundary.
Clamped(text, at) == Max({o \in 0..Min({at, Len(text)}) : Boundary(text, o)})

\* Bytes that agree from either end, the end of the second run not crossing
\* the first; then back to where both texts have a boundary.
CommonStart(before, after) ==
  Max({n \in 0..Min({Len(before), Len(after)}) : SubSeq(before, 1, n) = SubSeq(after, 1, n)})

SpanStart(before, after) ==
  Max({n \in 0..CommonStart(before, after) : Boundary(before, n) /\ Boundary(after, n)})

Suffix(text, n) == SubSeq(text, Len(text) - n + 1, Len(text))

CommonEnd(before, after, start) ==
  Max({n \in 0..(Min({Len(before), Len(after)}) - start) : Suffix(before, n) = Suffix(after, n)})

SpanEnd(before, after, start) ==
  Max({n \in 0..CommonEnd(before, after, start) :
         Boundary(before, Len(before) - n) /\ Boundary(after, Len(after) - n)})

\* At most one patch: [from, to, with], offsets in the text before.
ChangedSpan(before, after) ==
  LET start == SpanStart(before, after)
      tail == SpanEnd(before, after, start)
  IN IF before = after THEN <<>>
     ELSE <<[from |-> start, to |-> Len(before) - tail,
             with |-> SubSeq(after, start + 1, Len(after) - tail)]>>

\* The patches in order: what is written so far and where in the text it ends.
Patched(text, patches) ==
  LET done[i \in 0..Len(patches)] ==
        IF i = 0 THEN [out |-> <<>>, at |-> 0]
        ELSE [out |-> done[i - 1].out \o SubSeq(text, done[i - 1].at + 1, patches[i].from) \o patches[i].with,
              at |-> patches[i].to]
  IN done[Len(patches)]

PatchedText(text, patches) ==
  Patched(text, patches).out \o SubSeq(text, Patched(text, patches).at + 1, Len(text))

\* The whole batch is checked before a byte of it counts.
PatchFits(text, patches, at) ==
  /\ \A i \in DOMAIN patches :
       /\ patches[i].from <= patches[i].to
       /\ i > 1 => patches[i - 1].to <= patches[i].from
       /\ Boundary(text, patches[i].from) /\ Boundary(text, patches[i].to)
  /\ Clamped(PatchedText(text, patches), at) = at

------------------------------------------------------------------------------
(* References and messages.                                                 *)

Reference(textRevision, rev, at, text) ==
  [textRevision |-> textRevision, revision |-> rev, cursor |-> at, byteLen |-> Len(text)]

Current == Reference(Len(texts), revision, caret, Last(texts))

ValidText(ref, text) == Len(text) = ref.byteLen /\ Clamped(text, ref.cursor) = ref.cursor

Commit(before, after, patches) ==
  [type |-> "commit", before |-> before, after |-> after, patches |-> patches]
Begin(id, target) == [type |-> "begin", id |-> id, target |-> target]
ChunkAt(id, index, bytes) == [type |-> "chunk", id |-> id, index |-> index, bytes |-> bytes]
Complete(id) == [type |-> "complete", id |-> id]
Abort(id) == [type |-> "abort", id |-> id]

Transmit(message) == wire' = Append(wire, message)

------------------------------------------------------------------------------
(* The owner.                                                               *)

MirrorInit ==
  /\ \E text \in Texts : texts = <<text>> /\ mirror \in {NoMirror, [ref |-> Reference(1, 0, 0, text), text |-> text]}
  /\ revision = 0 /\ caret = 0
  /\ sender = NoTransfer /\ wire = <<>>
  /\ receiver = NoTransfer /\ request = NoTransfer
  /\ serial = 0 /\ faults = 0

\* An edit leaves the caret at a boundary of the text it makes.
Edit(text, at) ==
  /\ revision < MaxRevision /\ text # Last(texts) /\ Boundary(text, at)
  /\ texts' = Append(texts, text) /\ revision' = revision + 1 /\ caret' = at
  /\ Transmit(Commit(Current, Reference(Len(texts) + 1, revision + 1, at, text),
                     ChangedSpan(Last(texts), text)))
  /\ UNCHANGED <<sender, mirror, receiver, request, serial, faults>>

MoveCaret(at) ==
  /\ revision < MaxRevision /\ at # caret /\ Boundary(Last(texts), at)
  /\ revision' = revision + 1 /\ caret' = at
  /\ Transmit(Commit(Current, Reference(Len(texts), revision + 1, at, Last(texts)), <<>>))
  /\ UNCHANGED <<texts, sender, mirror, receiver, request, serial, faults>>

\* A request starts a sender of its own, whatever an older one was doing.
TakeRequest ==
  /\ request # NoTransfer
  /\ sender' = [id |-> request.id, target |-> request.target, stage |-> "begin", index |-> 0]
  /\ request' = NoTransfer
  /\ UNCHANGED <<texts, revision, caret, wire, mirror, receiver, serial, faults>>

NextMessageAnyway ==   \* mutant: sends on from whatever text is there now
  LET start == sender.index * Chunk
      text == Last(texts) IN
  CASE sender.stage = "begin" -> Begin(sender.id, sender.target)
    [] sender.stage = "chunk" /\ start >= Len(text) -> Complete(sender.id)
    [] OTHER -> ChunkAt(sender.id, sender.index, SubSeq(text, start + 1, Min({start + Chunk, Len(text)})))

\* One message per call: a source that is no longer the target aborts.
NextMessage ==
  LET start == sender.index * Chunk
      text == Last(texts) IN
  CASE sender.target # Current -> Abort(sender.id)
    [] sender.target = Current /\ sender.stage = "begin" -> Begin(sender.id, sender.target)
    [] sender.target = Current /\ sender.stage = "chunk" /\ start >= Len(text) -> Complete(sender.id)
    [] OTHER -> ChunkAt(sender.id, sender.index, SubSeq(text, start + 1, Min({start + Chunk, Len(text)})))

NextFrame ==
  /\ sender # NoTransfer
  /\ Transmit(NextMessage)
  /\ sender' = CASE NextMessage.type = "begin" -> [sender EXCEPT !.stage = "chunk"]
                 [] NextMessage.type = "chunk" -> [sender EXCEPT !.index = @ + 1]
                 [] OTHER -> NoTransfer
  /\ UNCHANGED <<texts, revision, caret, mirror, receiver, request, serial, faults>>

------------------------------------------------------------------------------
(* The mirror.                                                              *)

Arrive == wire # <<>> /\ wire' = Tail(wire) /\ UNCHANGED <<texts, revision, caret, sender, request, serial>>

\* A commit moves a mirror that stands at its reference and is otherwise
\* left to the repair.
ReceiveCommit ==
  /\ Arrive /\ Head(wire).type = "commit"
  /\ LET m == Head(wire) IN
       IF /\ mirror # NoMirror /\ mirror.ref = m.before
          /\ PatchFits(mirror.text, m.patches, m.after.cursor)
          /\ ValidText(m.after, PatchedText(mirror.text, m.patches))
       THEN mirror' = [ref |-> m.after, text |-> PatchedText(mirror.text, m.patches)]
       ELSE UNCHANGED mirror
  /\ UNCHANGED <<receiver, faults>>

\* The assembler takes the next chunk, of the length the target leaves for it.
TakesChunk(m) ==
  /\ receiver.begun /\ m.index = receiver.next
  /\ Len(receiver.bytes) < receiver.target.byteLen
  /\ Len(m.bytes) = Min({receiver.target.byteLen - Len(receiver.bytes), Chunk})

AssembledFloor ==   \* mutant: a last chunk that is not full is not counted
  /\ receiver.begun
  /\ Len(receiver.bytes) = receiver.target.byteLen
  /\ receiver.next = receiver.target.byteLen \div Chunk
  /\ ValidText(receiver.target, receiver.bytes)

Assembled ==
  /\ receiver.begun
  /\ Len(receiver.bytes) = receiver.target.byteLen
  /\ receiver.next = (receiver.target.byteLen + Chunk - 1) \div Chunk
  /\ ValidText(receiver.target, receiver.bytes)

\* What an active receiver makes of a message: more progress, or its end.
Received(m) ==
  CASE m.type = "begin" /\ m.target = receiver.target /\ ~receiver.begun ->
         [receiver EXCEPT !.begun = TRUE]
    [] m.type = "chunk" /\ TakesChunk(m) ->
         [receiver EXCEPT !.bytes = @ \o m.bytes, !.next = @ + 1]
    [] OTHER -> NoTransfer

\* Another id's message leaves the receiver as it is.
ReceiveTransfer ==
  /\ Arrive /\ Head(wire).type # "commit"
  /\ IF receiver # NoTransfer /\ Head(wire).id = receiver.id
     THEN /\ receiver' = Received(Head(wire))
          /\ IF Head(wire).type = "complete" /\ Assembled
             THEN mirror' = [ref |-> receiver.target, text |-> receiver.bytes]
             ELSE UNCHANGED mirror
     ELSE UNCHANGED <<receiver, mirror>>
  /\ UNCHANGED faults

InStep == mirror # NoMirror /\ mirror.ref = Current

\* A mirror that has taken what came and is not at the owner's reference asks
\* for it, under a new id.
Request ==
  /\ receiver = NoTransfer /\ wire = <<>> /\ serial < MaxRequests
  /\ ~InStep
  /\ serial' = serial + 1
  /\ receiver' = [id |-> serial + 1, target |-> Current, bytes |-> <<>>, next |-> 0, begun |-> FALSE]
  /\ request' = [id |-> serial + 1, target |-> Current]
  /\ UNCHANGED <<texts, revision, caret, sender, wire, mirror, faults>>

\* Nothing is left that could answer the receiver.
Unanswered ==
  /\ request = NoTransfer
  /\ sender = NoTransfer
  /\ \A i \in DOMAIN wire : wire[i].type = "commit"

Timeout ==
  /\ receiver # NoTransfer /\ Unanswered
  /\ receiver' = NoTransfer
  /\ UNCHANGED <<texts, revision, caret, sender, wire, mirror, request, serial, faults>>

------------------------------------------------------------------------------
(* Faults: a message lost, an early timeout, a new instance of the mirror's *)
(* side.                                                                    *)

Fault == faults < Faults /\ faults' = faults + 1 /\ UNCHANGED <<texts, revision, caret, sender, serial>>

LoseMessage == Fault /\ wire # <<>> /\ wire' = Tail(wire) /\ UNCHANGED <<mirror, receiver, request>>
LoseRequest == Fault /\ request # NoTransfer /\ request' = NoTransfer /\ UNCHANGED <<wire, mirror, receiver>>
GiveUp == Fault /\ receiver # NoTransfer /\ receiver' = NoTransfer /\ UNCHANGED <<wire, mirror, request>>

MirrorRestart ==
  /\ Fault
  /\ mirror' = NoMirror /\ receiver' = NoTransfer
  /\ UNCHANGED <<wire, request>>

MirrorSteps == TakeRequest \/ NextFrame \/ ReceiveCommit \/ ReceiveTransfer \/ Request \/ Timeout

MirrorNext ==
  \/ \E text \in Texts : \E at \in 0..Len(text) : Edit(text, at)
  \/ \E at \in 0..Len(Last(texts)) : MoveCaret(at)
  \/ MirrorSteps
  \/ LoseMessage \/ LoseRequest \/ GiveUp \/ MirrorRestart

\* Both loops run at every tick; nobody owes an edit or a fault.
MirrorFairness == WF_mirrorVars(MirrorSteps)

MirrorSpec == MirrorInit /\ [][MirrorNext]_mirrorVars /\ MirrorFairness

------------------------------------------------------------------------------

\* The mirror's text is the one its reference names, never bytes of two
\* revisions, and a commit on the wire turns the text it starts from into the
\* one it leads to, at positions both sides can select (changed span, patched
\* text, sender and receiver together).
MirrorExact ==
  /\ mirror # NoMirror => mirror.text = texts[mirror.ref.textRevision]
  /\ \A i \in DOMAIN wire : wire[i].type = "commit" =>
       LET m == wire[i]
           before == texts[m.before.textRevision] IN
       /\ PatchFits(before, m.patches, m.after.cursor)
       /\ PatchedText(before, m.patches) = texts[m.after.textRevision]

\* Once edits and faults end the mirror stands at the owner's document: every
\* interrupted, lost or mistimed transfer is asked for again and completes.
CatchesUp == <>[]InStep
=============================================================================
