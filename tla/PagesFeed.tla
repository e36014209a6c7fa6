------------------------------ MODULE PagesFeed ------------------------------
(***************************************************************************)
(* The read model of pages over its feed, and a reader paging through a    *)
(* document while the feed goes on.                                        *)
(*                                                                         *)
(* Canonical pages is a module outside the repository; it is here as the   *)
(* source of the feed: the guards state what error.rs and the wire say it  *)
(* refuses, and the ghosts what it holds.  The index is followed from      *)
(* genesis, so its rows are also the tree those rules speak of.            *)
(***************************************************************************)
EXTENDS PagesIndex

CONSTANTS
  Kind,      \* inline marks, numbers
  Texts,     \* Texts[focus]: what a block is updated to; a character is a word
  Fresh,     \* the text of a new block
  Focus,     \* which operations a feed carries: "tree", "records", "text"
  MaxOps     \* bound: MaxOps[focus], operations in the feed

ASSUME FeedAssumption ==
  /\ Focus \subseteq {"tree", "records", "text"}
  /\ \A f \in Focus : MaxOps[f] \in Nat
  /\ Kind \subseteq Nat

VARIABLES
  focus,   \* what this feed is about
  fed,     \* operations folded so far
  ix,      \* the index database, one field per key space
  coll,    \* canonical: the page that holds records, if any
  want,    \* want[r]: the document canonical pages holds for record r
  past,    \* the managed requests accepted so far
  style,   \* style[b]: the kinds on each character of b, by its author's edits
  sel,     \* sel[t]: the selection of thread t as canonical pages rebases it
  walk     \* a reader paging through one page

canonical == <<coll, want, past, style, sel>>
vars == <<focus, fed, ix, canonical, walk>>

Idle == [st |-> "idle"]

Init ==
  /\ focus \in Focus /\ fed = 0 /\ ix = NoIndex
  /\ coll = None /\ want = [r \in Id |-> None] /\ past = {}
  /\ style = [b \in Id |-> <<>>] /\ sel = [t \in Thread |-> None]
  /\ walk = Idle

------------------------------------------------------------------------------
(* What canonical pages accepts.  A refused operation is in no feed.        *)

Live(b) == ix.rows[b] # None
IsPage(b) == Live(b) /\ ix.rows[b].kind = "page"
Managed(b) == coll # None /\ b \in Subtree(ix, coll)
Anchors(p) == {None} \cup ToSet(ix.rows[p].kids)

Block(b, kind, text, marks) == [id |-> b, kind |-> kind, text |-> text, marks |-> marks]

(* DuplicateBlock: the ids of a new body are new                            *)
Bodies(ids) ==
  {<<>>} \cup {<<Block(b, k, Fresh, <<>>)>> : b \in ids, k \in {"page", "text"}}
         \cup {<<Block(p[1], "text", Fresh, <<>>), Block(p[2], "text", Fresh, <<>>)>> :
                 p \in {q \in ids \X ids : q[1] # q[2]}}

(* A step of the feed: the index folds it, and a reader between two reads   *)
(* is no longer owed the blocks the operation moved or removed.             *)
Feed(op, disturbed) ==
  /\ fed < MaxOps[focus] /\ fed' = fed + 1
  /\ ix' = FoldOp(ix, op)
  /\ walk.st \in {"idle", "reading"}
  /\ walk' = IF walk.st = "idle" THEN walk
             ELSE [walk EXCEPT !.stay = @ \ disturbed, !.clean = @ /\ walk.after \notin disturbed]
  /\ UNCHANGED focus

(* The ghosts of the text follow an edit character by character.            *)
Restyled(old, new, s) ==
  LET p == CommonPrefix(old, new)
      q == CommonSuffix(old, new)
      lost == p+1..Len(old) - q
      kinds == IF lost # {} THEN UNION {s[i] : i \in lost}
               ELSE IF p > 0 /\ q > 0 THEN s[p] \cap s[p+1] ELSE {}
  IN [i \in DOMAIN new |-> IF i <= p THEN s[i]
                           ELSE IF i > Len(new) - q THEN s[i - Len(new) + Len(old)]
                           ELSE kinds]
Painted(text, marks) ==
  [i \in DOMAIN text |-> {m.kind : m \in {n \in ToSet(marks) :
                            n.start <= Offset(text, i-1) /\ Offset(text, i) <= n.end}}]

Reselected(b, new) ==
  LET old == ix.rows[b].text IN
  [t \in Thread |->
     IF ix.threads[t] = None \/ sel[t] = None \/ old = new THEN sel[t]
     ELSE IF ix.threads[t].target # b THEN sel[t]
     ELSE RebaseAnchor(sel[t], EditBetween(old, new), Utf16Len(new))]

DoCreatePage(b, body) ==
  /\ b \notin {body[i].id : i \in DOMAIN body}
  /\ \/ ~Live(b) /\ \A i \in DOMAIN body : ~Live(body[i].id)
     \/ IsPage(b) /\ body = <<>>
  /\ Feed([t |-> "create", id |-> b, text |-> Fresh, blocks |-> body], {})
  /\ style' = [i \in Id |-> IF focus = "text" /\ (i = b \/ \E j \in DOMAIN body : body[j].id = i)
                            THEN Painted(Fresh, <<>>) ELSE style[i]]
  /\ UNCHANGED <<coll, want, past, sel>>

DoInsertBlock(p, after, b, kind) ==
  /\ Live(p) /\ ~Live(b) /\ ~Managed(p) /\ after \in Anchors(p)
  /\ Feed([t |-> "insert", parent |-> p, after |-> after, block |-> Block(b, kind, Fresh, <<>>)], {})
  /\ UNCHANGED canonical

DoUpdateText(b, text, marks) ==
  /\ Live(b) /\ ~Managed(b)
  /\ marks # None => ValidateOk(text, marks)
  /\ Feed([t |-> "update", id |-> b, text |-> text, marks |-> marks], {})
  /\ style' = [style EXCEPT ![b] = IF focus # "text" THEN @
                                   ELSE IF marks # None THEN Painted(text, marks)
                                   ELSE Restyled(ix.rows[b].text, text, @)]
  /\ sel' = Reselected(b, text)
  /\ UNCHANGED <<coll, want, past>>

DoSetSpanMark(b, start, end, kind, active) ==
  /\ Live(b) /\ ~Managed(b)
  /\ ValidRange(ix.rows[b].text, start, end)
  /\ Len(SetSpanMark(ix.rows[b].marks, start, end, kind, active)) <= MaxMarks
  /\ Feed([t |-> "mark", id |-> b, start |-> start, end |-> end, kind |-> kind,
           active |-> active], {})
  /\ style' = [style EXCEPT ![b] = [i \in DOMAIN @ |->
                 IF start <= Offset(ix.rows[b].text, i-1) /\ Offset(ix.rows[b].text, i) <= end
                 THEN IF active THEN @[i] \cup {kind} ELSE @[i] \ {kind}
                 ELSE @[i]]]
  /\ UNCHANGED <<coll, want, past, sel>>

(* TopLevelNonPage, CycleMove, CrossPageMove, AnchorNotFound                *)
DoMoveBlock(b, p, after) ==
  /\ Live(b) /\ ~Managed(b)
  /\ IF p = None THEN IsPage(b) /\ after = None
     ELSE /\ Live(p) /\ ~Managed(p) /\ p \notin Subtree(ix, b)
          /\ IsPage(b) \/ ix.rows[p].page = ix.rows[b].page
          /\ after \in Anchors(p) \cup {b}
  /\ Feed([t |-> "move", id |-> b, parent |-> p, after |-> after], Subtree(ix, b))
  /\ UNCHANGED canonical

DoRemoveBlock(b) ==
  /\ Live(b) /\ ~Managed(b)
  /\ Feed([t |-> "remove", id |-> b], Subtree(ix, b))
  /\ UNCHANGED canonical

------------------------------------------------------------------------------
(* Comments: DuplicateComment, TargetMismatch, CommentNotFound              *)

DoAddComment(t, c, b, anchor) ==
  /\ Live(b) /\ ix.owner[c] = None
  /\ IF ix.threads[t] # None THEN ix.threads[t].target = b /\ anchor = None
     ELSE anchor # None => ValidRange(ix.rows[b].text, anchor.start, anchor.end)
  /\ Feed([t |-> "comment", thread |-> t, comment |-> c, target |-> b, anchor |-> anchor], {})
  /\ sel' = IF ix.threads[t] # None THEN sel ELSE [sel EXCEPT ![t] = anchor]
  /\ UNCHANGED <<coll, want, past, style>>

DoMoveCommentThread(t, b, anchor) ==
  /\ ix.threads[t] # None /\ Live(b)
  /\ anchor # None => ValidRange(ix.rows[b].text, anchor.start, anchor.end)
  /\ Feed([t |-> "movethread", thread |-> t, target |-> b, anchor |-> anchor], {})
  /\ sel' = [sel EXCEPT ![t] = anchor]
  /\ UNCHANGED <<coll, want, past, style>>

DoDeleteComment(c) ==
  /\ ix.owner[c] # None
  /\ \E i \in DOMAIN ix.threads[ix.owner[c]].comments :
       ix.threads[ix.owner[c]].comments[i] = [id |-> c, deleted |-> FALSE]
  /\ Feed([t |-> "uncomment", comment |-> c], {})
  /\ UNCHANGED canonical

------------------------------------------------------------------------------
(* Managed requests                                                         *)

(* RecordRequestConflict: a request id names one payload; ids are numbered. *)
NewRequest == Cardinality(past) + 1

(* InvalidRecordCollection: a top-level page without nested pages           *)
DoCreateRecordCollection(b) ==
  /\ coll = None /\ IsPage(b) /\ ix.rows[b].parent = None
  /\ \A i \in Subtree(ix, b) \ {b} : ~IsPage(i)
  /\ \E op \in {[t |-> "managed", page |-> b, request |-> NewRequest, changes |-> <<>>]} :
       /\ Feed(op, {})
       /\ past' = past \cup {op}
  /\ coll' = b
  /\ UNCHANGED <<want, style, sel>>

Marked(kinds) == {<<>>} \cup {<<[start |-> 0, end |-> 1, kind |-> k]>> : k \in kinds}
BlockOf ==
  {Block(b, "text", text, IF text = Fresh THEN <<>> ELSE <<[start |-> 0, end |-> 1, kind |-> k]>>) :
     b \in Id, text \in Texts["records"], k \in {Min(Kind)}}

(* Documents for record r: flat, each block one of r's or new.              *)
DocsFor(r, x) ==
  LET mine == IF x.rows[r] = None THEN {} ELSE ToSet(x.rows[r].kids)
      usable == {b \in BlockOf : b.id # r /\ (b.id \in mine \/ x.rows[b.id] = None)}
  IN [title : {Fresh},
      blocks : {<<>>} \cup {<<b>> : b \in usable}
                      \cup {<<p[1], p[2]>> : p \in {q \in usable \X usable : q[1].id # q[2].id}}]
ChangesFrom(x) ==
  {[t |-> "delete", record |-> r] : r \in {i \in Id : want[i] # None}}
    \cup UNION {{[t |-> "upsert", record |-> r, doc |-> d] : d \in DocsFor(r, x)} :
                  r \in {i \in Id : want[i] # None \/ x.rows[i] = None}}

(* One change, or two of different records with a block each                *)
Small(c) == c.t = "upsert" => Len(c.doc.blocks) < 2
Batches ==
  LET first == ChangesFrom(ix) IN
  {<<c>> : c \in first}
    \cup UNION {{<<c, d>> : d \in {e \in ChangesFrom(FoldChange(ix, coll, c)) : e.record # c.record /\ Small(e)}} :
                  c \in {f \in first : Small(f)}}

DoCommitRecords(changes) ==
  /\ \E op \in {[t |-> "managed", page |-> coll, request |-> NewRequest, changes |-> changes]} :
       /\ Feed(op, {})
       /\ past' = past \cup {op}
  /\ want' = [i \in Id |->
       IF \E j \in DOMAIN changes : changes[j].record = i
       THEN LET c == changes[CHOOSE j \in DOMAIN changes : changes[j].record = i]
            IN IF c.t = "delete" THEN None ELSE c.doc
       ELSE want[i]]
  /\ UNCHANGED <<coll, style, sel>>

(* An exact retry succeeds with the first receipt and is fed again.         *)
DoRetry ==
  /\ \E op \in past : Feed(op, {})
  /\ UNCHANGED canonical

------------------------------------------------------------------------------
(* The reader                                                               *)

Preorder(x, root) ==
  LET below[n \in 0..Cardinality(Id), b \in Id] ==
        IF n = 0 \/ ~Descends(x, root, b) THEN <<b>>
        ELSE <<b>> \o FlattenSeq([i \in DOMAIN x.rows[b].kids |-> below[n-1, x.rows[b].kids[i]]])
  IN below[Cardinality(Id), root]

Reading(w) ==
  LET page == GetPage(ix, w.page, w.after) IN
  IF page.st \in {"reading", "done"}
  THEN [w EXCEPT !.st = page.st, !.got = @ \o page.blocks,
               !.after = IF page.blocks = <<>> THEN @ ELSE Last(page.blocks)]
  ELSE [w EXCEPT !.st = page.st]

StartWalk(b) ==
  /\ walk.st = "idle" /\ IsPage(b)
  /\ walk' = Reading([st |-> "reading", page |-> b, after |-> None, got |-> <<>>,
                      stay |-> ToSet(Preorder(ix, b)), clean |-> TRUE])
  /\ UNCHANGED <<focus, fed, ix, canonical>>

ReadOn ==
  /\ walk.st = "reading" /\ walk' = Reading(walk)
  /\ UNCHANGED <<focus, fed, ix, canonical>>

------------------------------------------------------------------------------
Ranges ==
  LET longest == Max({Utf16Len(t) : t \in Texts["text"] \cup {Fresh}}) IN
  [start : 0..longest, end : 1..longest]

OnTree ==
  /\ focus = "tree"
  /\ \/ \E b \in Id : \E body \in Bodies(Id \ {b}) : DoCreatePage(b, body)
     \/ \E p, b \in Id : Live(p) /\ \E after \in Anchors(p), k \in {"page", "text"} :
                           DoInsertBlock(p, after, b, k)
     \/ \E b \in Id, text \in Texts[focus] : DoUpdateText(b, text, None)
     \/ \E b \in Id, p \in Id \cup {None}, after \in Id \cup {None} : DoMoveBlock(b, p, after)
     \/ \E b \in Id : DoRemoveBlock(b)
     \/ \E t \in Thread, c \in Comment, b \in Id : DoAddComment(t, c, b, None)
     \/ \E b \in Id : StartWalk(b)
     \/ ReadOn

OnRecords ==
  /\ focus = "records"
  /\ \/ \E b \in Id : DoCreatePage(b, <<>>)
     \/ \E b \in Id : DoCreateRecordCollection(b)
     \/ coll # None /\ \E changes \in Batches : DoCommitRecords(changes)
     \/ DoRetry
     \/ \E t \in Thread, c \in Comment, b \in Id : DoAddComment(t, c, b, None)

OnText ==
  /\ focus = "text"
  /\ \/ \E b, c \in Id : b # c /\ DoCreatePage(b, <<Block(c, "text", Fresh, <<>>)>>)
     \/ \E b \in Id, text \in Texts[focus], marks \in {None} \cup Marked(Kind) :
          DoUpdateText(b, text, marks)
     \/ \E b \in Id, r \in Ranges, k \in Kind, active \in BOOLEAN :
          DoSetSpanMark(b, r.start, r.end, k, active)
     \/ \E t \in Thread, c \in Comment, b \in Id, a \in {None} \cup Ranges : DoAddComment(t, c, b, a)
     \/ \E t \in Thread, b \in Id, a \in {None} \cup Ranges : DoMoveCommentThread(t, b, a)
     \/ \E c \in Comment : DoDeleteComment(c)

Next == OnTree \/ OnRecords \/ OnText

Spec == Init /\ [][Next]_vars

------------------------------------------------------------------------------
(* fold_document_op: however blocks are inserted, moved, removed and        *)
(* committed, the rows stay one forest (child lists and parents agree, no   *)
(* child twice, every chain ends at a top-level page, a block's page is its *)
(* nearest page) and the page list says of each page its title and the page *)
(* that contains it.                                                        *)
TreeSound ==
  LET chain[n \in 0..Cardinality(Id), b \in Id] ==
        ix.rows[b].parent = None \/ (n > 0 /\ chain[n-1, ix.rows[b].parent]) IN
  /\ \A b \in Id : Live(b) =>
       LET row == ix.rows[b] IN
       /\ IsInjective(row.kids)
       /\ \A k \in ToSet(row.kids) : Live(k) /\ ix.rows[k].parent = b
       /\ row.parent # None => Live(row.parent) /\ b \in ToSet(ix.rows[row.parent].kids)
       /\ row.page = IF row.kind = "page" THEN b ELSE ix.rows[row.parent].page
       /\ chain[Cardinality(Id), b]
  /\ \A b \in Id : ix.list[b] =
       IF ~IsPage(b) THEN None
       ELSE [title |-> ix.rows[b].text,
             parent |-> IF ix.rows[b].parent = None THEN None ELSE ix.rows[ix.rows[b].parent].page]

(* put_row_and_toks, delete_toks: a search finds a block by exactly the     *)
(* words of its present text, under the page it is on, whatever edits,      *)
(* moves, cascades and commits it went through.                             *)
PostingsExact ==
  ix.posts = UNION {{[tok |-> w, id |-> b, page |-> ix.rows[b].page] : w \in Tokens(ix.rows[b].text)} :
                      b \in {i \in Id : Live(i)}}

(* purge_target_threads: markers, threads and comment pointers stay one     *)
(* structure over live blocks: a removal anywhere above a thread takes all  *)
(* of it along, a kept block keeps its threads, and each thread has a       *)
(* comment that is not deleted.                                             *)
ThreadsAnchored ==
  /\ ix.markers = {<<ix.threads[t].target, t>> : t \in {u \in Thread : ix.threads[u] # None}}
  /\ \A t \in Thread : ix.threads[t] # None =>
       /\ Live(ix.threads[t].target)
       /\ \E i \in DOMAIN ix.threads[t].comments : ~ix.threads[t].comments[i].deleted
  /\ \A c \in Comment, t \in Thread :
       ix.owner[c] = t <=> (ix.threads[t] # None /\ c \in CommentsOf(ix, {t}))

(* The rows are one forest and the key spaces beside them hold exactly what *)
(* the rows call for.                                                       *)
IndexExact == TreeSound /\ PostingsExact /\ ThreadsAnchored

(* fold_managed, document_ops: whatever it was before, the page of a record *)
(* is the document of its last accepted commit, block for block and mark    *)
(* for mark, the collection holds exactly the records, and a retry fed      *)
(* after later commits rewinds nothing.                                     *)
RecordsCurrent ==
  coll # None =>
    /\ {b \in ToSet(ix.rows[coll].kids) : IsPage(b)} = {r \in Id : want[r] # None}
    /\ \A r \in Id : want[r] # None =>
         LET row == ix.rows[r]
             doc == want[r] IN
         /\ row.text = doc.title
         /\ row.kids = [i \in DOMAIN doc.blocks |-> doc.blocks[i].id]
         /\ \A i \in DOMAIN doc.blocks :
              /\ ix.rows[doc.blocks[i].id].text = doc.blocks[i].text
              /\ ix.rows[doc.blocks[i].id].marks = Normalize(doc.blocks[i].marks)

(* get_page, following_page_block: a page read over several requests while  *)
(* the feed goes on never meets a shape it calls corrupt, is refused only   *)
(* once the block it stands on was moved or removed, and serves each block  *)
(* that was there and stayed in place once, in the order of the document.   *)
WalkServes ==
  /\ walk.st # "corrupt"
  /\ walk.st \in {"refused", "gone"} => ~walk.clean
  /\ walk.st = "done" /\ walk.clean =>
       LET Stayed(s) == SelectSeq(s, LAMBDA b : b \in walk.stay)
       IN Stayed(walk.got) = Stayed(Preorder(ix, walk.page))

(* rebase_marks, set_span_mark, normalize: the marks of a block are the     *)
(* maximal runs of the kinds on its characters, in order, where a character *)
(* kept by an edit keeps its kinds and typing at the edge of a mark does    *)
(* not grow it, whatever the width of the characters.                       *)
Runs(text, s) ==
  UNION {{[start |-> Offset(text, p[1] - 1), end |-> Offset(text, p[2]), kind |-> k] :
            k \in {k \in Kind : /\ \A i \in p[1]..p[2] : k \in s[i]
                                /\ p[1] > 1 => k \notin s[p[1] - 1]
                                /\ p[2] < Len(s) => k \notin s[p[2] + 1]}} :
           p \in {q \in (DOMAIN s) \X (DOMAIN s) : q[1] <= q[2]}}
MarksCarried ==
  focus = "text" => \A b \in Id : Live(b) =>
    LET row == ix.rows[b] IN
    /\ ToSet(row.marks) = Runs(row.text, style[b])
    /\ \A i \in 1..Len(row.marks) - 1 : Precedes(row.marks[i], row.marks[i+1])

(* lib.rs:91, of a comment's selection: "The module rebases both endpoints *)
(* whenever the target block's text changes, so this remains relative to    *)
(* the selected text instead of becoming a stale absolute character         *)
(* offset."  The thread the read model serves is to say the same.           *)
AnchorsFollow ==
  \A t \in Thread : ix.threads[t] # None => ix.threads[t].anchor = sel[t]
==============================================================================
