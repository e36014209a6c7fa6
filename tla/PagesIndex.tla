------------------------------ MODULE PagesIndex ------------------------------
(***************************************************************************)
(* pages' read model as functions of the index database x (index.rs,       *)
(* record_ops.rs): the mapper that folds one applied operation into block  *)
(* rows, the page list, word postings and comment threads, and the paged   *)
(* preorder read served off the rows.  A managed request is expanded into  *)
(* ordinary operations that read each other's writes, and is folded once   *)
(* however often it is fed.  Kinds other than Page, todo flags, authors,   *)
(* times and the texts of comments are data nothing here tells apart; the  *)
(* byte and work budgets of a read are left out.                           *)
(***************************************************************************)
EXTENDS TextRanges, SequencesExt

CONSTANTS
  Id,        \* block ids; a page is the block that roots it
  Thread, Comment,
  None,
  Limit      \* blocks in one page of a read

ASSUME IndexAssumption == Limit \in Nat \ {0} /\ None \notin Id \cup Thread

NoIndex ==
  [rows |-> [i \in Id |-> None],         \* blk/{block}
   list |-> [i \in Id |-> None],         \* page/{page}
   posts |-> {},                         \* tok/{token}/{block}
   threads |-> [t \in Thread |-> None],  \* cthread/{thread}
   markers |-> {},                       \* ctgt/{target}/{thread}
   owner |-> [c \in Comment |-> None],   \* cmt/{comment}
   receipts |-> {}]                      \* managed/{page, request}

------------------------------------------------------------------------------
(* Rows and postings                                                        *)

Tokens(text) == ToSet(text)

Without(s, e) == SelectSeq(s, LAMBDA x : x # e)
IndexOf(s, e) == CHOOSE i \in DOMAIN s : s[i] = e

(* None is the first place; an anchor that is no child is the last.         *)
InsertIndex(kids, after) ==
  IF after = None THEN 1
  ELSE IF after \in ToSet(kids) THEN IndexOf(kids, after) + 1 ELSE Len(kids) + 1
InsertAfter(kids, after, b) == InsertAt(kids, InsertIndex(kids, after), b)

NewRow(kind, page, parent, text) ==
  [kind |-> kind, page |-> page, parent |-> parent, kids |-> <<>>, text |-> text, marks |-> <<>>]

PutRow(x, b, row) == [x EXCEPT !.rows[b] = row]
PutPage(x, b, title, parent) == [x EXCEPT !.list[b] = [title |-> title, parent |-> parent]]

DeleteToks(x, b, text) ==
  [x EXCEPT !.posts = {p \in @ : ~(p.id = b /\ p.tok \in Tokens(text))}]
PutRowAndToks(x, b, row) ==
  [DeleteToks(PutRow(x, b, row), b, row.text) EXCEPT
     !.posts = @ \cup {[tok |-> w, id |-> b, page |-> row.page] : w \in Tokens(row.text)}]

(* place_child_row: the child alone; the caller stores its parent           *)
PlaceChildRow(x, parent, block) ==
  LET up == x.rows[parent]
      sub == block.kind = "page"
      y == IF sub THEN PutPage(x, block.id, block.text, up.page) ELSE x IN
  PutRowAndToks(y, block.id,
    [NewRow(block.kind, IF sub THEN block.id ELSE up.page, parent, block.text) EXCEPT
       !.marks = Normalize(block.marks)])

CreatePage(x, op) ==
  LET root == PutRow(PutPage(x, op.id, op.text, None), op.id, NewRow("page", op.id, None, op.text))
      placed[i \in 0..Len(op.blocks)] ==
        IF i = 0 THEN root ELSE PlaceChildRow(placed[i-1], op.id, op.blocks[i]) IN
  IF x.rows[op.id] # None THEN x
  ELSE PutRowAndToks(placed[Len(op.blocks)], op.id,
         [root.rows[op.id] EXCEPT !.kids = [i \in DOMAIN op.blocks |-> op.blocks[i].id]])

InsertBlock(x, op) ==
  IF x.rows[op.parent] = None THEN x
  ELSE PutRow(PlaceChildRow(x, op.parent, op.block), op.parent,
         [x.rows[op.parent] EXCEPT !.kids = InsertAfter(@, op.after, op.block.id)])

(* A rename shows in the page list; given marks replace, others follow the  *)
(* text.                                                                    *)
NewMarks(row, op) ==
  IF op.marks # None THEN Normalize(op.marks)
  ELSE IF row.text = op.text THEN row.marks
  ELSE RebaseMarks(row.marks, EditBetween(row.text, op.text), Utf16Len(op.text))

UpdateText(x, op) ==
  LET row == x.rows[op.id]
      y == IF row.kind = "page" THEN [x EXCEPT !.list[op.id].title = op.text] ELSE x IN
  IF row = None THEN x
  ELSE PutRowAndToks(DeleteToks(y, op.id, row.text), op.id,
                     [row EXCEPT !.text = op.text, !.marks = NewMarks(row, op)])

SetMark(x, op) ==
  IF x.rows[op.id] = None THEN x
  ELSE [x EXCEPT !.rows[op.id].marks = SetSpanMark(@, op.start, op.end, op.kind, op.active)]

(* A move under the same parent is a reorder of one row; else two parents,  *)
(* and for a page the containing page in the list.                          *)
Reordered(x, op) ==
  IF op.parent = None THEN x
  ELSE [x EXCEPT !.rows[op.parent].kids = InsertAfter(Without(@, op.id), op.after, op.id)]
Rehomed(x, op) ==
  LET row == x.rows[op.id]
      left == IF row.parent = None THEN x
              ELSE [x EXCEPT !.rows[row.parent].kids = Without(@, op.id)]
      in == IF op.parent = None THEN left
            ELSE [left EXCEPT !.rows[op.parent].kids = InsertAfter(@, op.after, op.id)]
      container == IF op.parent = None THEN None ELSE x.rows[op.parent].page
      listed == IF row.kind = "page" THEN [in EXCEPT !.list[op.id].parent = container] ELSE in IN
  [listed EXCEPT !.rows[op.id].parent = op.parent]
MoveBlock(x, op) ==
  IF op.after = op.id \/ x.rows[op.id] = None THEN x
  ELSE IF x.rows[op.id].parent = op.parent THEN Reordered(x, op) ELSE Rehomed(x, op)

(* The rows a removal reaches from b, over child lists                      *)
Subtree(x, b) ==
  LET level[n \in 0..Cardinality(Id)] ==
        IF n = 0 THEN {b}
        ELSE level[n-1] \cup
             UNION {ToSet(x.rows[i].kids) : i \in {j \in level[n-1] : x.rows[j] # None}}
  IN {i \in level[Cardinality(Id)] : x.rows[i] # None}

CommentsOf(x, ts) ==
  UNION {{x.threads[t].comments[i].id : i \in DOMAIN x.threads[t].comments} :
           t \in {u \in ts : x.threads[u] # None}}
DropThreads(x, ts) ==
  [x EXCEPT !.threads = [t \in Thread |-> IF t \in ts THEN None ELSE @[t]],
            !.markers = {m \in @ : m[2] \notin ts},
            !.owner = [c \in Comment |-> IF c \in CommentsOf(x, ts) THEN None ELSE @[c]]]

PurgedRootOnly(x, b, gone) == DropThreads(x, {m[2] : m \in {n \in x.markers : n[1] = b}})   \* mutant
Purged(x, b, gone) == DropThreads(x, {m[2] : m \in {n \in x.markers : n[1] \in gone}})

(* delete_subtree: rows, postings, list entries and the threads on them     *)
DeleteSubtree(x, b) ==
  LET gone == Subtree(x, b) IN
  [Purged(x, b, gone) EXCEPT
     !.rows = [i \in Id |-> IF i \in gone THEN None ELSE @[i]],
     !.list = [i \in Id |-> IF i \in gone /\ x.rows[i].kind = "page" THEN None ELSE @[i]],
     !.posts = {p \in @ : ~(p.id \in gone /\ p.tok \in Tokens(x.rows[p.id].text))}]

RemoveBlock(x, op) ==
  LET up == IF x.rows[op.id] = None THEN None ELSE x.rows[op.id].parent
      cut == DeleteSubtree(x, op.id) IN
  IF x.rows[op.id] = None THEN x
  ELSE IF up = None THEN cut ELSE [cut EXCEPT !.rows[up].kids = Without(@, op.id)]

------------------------------------------------------------------------------
(* Comment threads                                                          *)

PutThread(x, t, row) == [x EXCEPT !.threads[t] = row]

(* A known thread takes the comment, an unknown one is opened on the target. *)
AddComment(x, op) ==
  LET said == [id |-> op.comment, deleted |-> FALSE]
      y == [x EXCEPT !.owner[op.comment] = op.thread] IN
  IF x.threads[op.thread] # None
  THEN [y EXCEPT !.threads[op.thread].comments = Append(@, said)]
  ELSE PutThread([y EXCEPT !.markers = @ \cup {<<op.target, op.thread>>}], op.thread,
                 [target |-> op.target, anchor |-> op.anchor, comments |-> <<said>>])

MoveCommentThread(x, op) ==
  LET row == x.threads[op.thread] IN
  IF row = None THEN x
  ELSE PutThread([x EXCEPT !.markers = (@ \ {<<row.target, op.thread>>})
                                         \cup {<<op.target, op.thread>>}],
                 op.thread, [row EXCEPT !.target = op.target, !.anchor = op.anchor])

(* The last live comment takes its thread along.                            *)
DeleteComment(x, op) ==
  LET t == x.owner[op.comment]
      row == x.threads[t]
      said == [i \in DOMAIN row.comments |->
                 IF row.comments[i].id = op.comment THEN [row.comments[i] EXCEPT !.deleted = TRUE]
                 ELSE row.comments[i]] IN
  IF t = None THEN x
  ELSE IF \A i \in DOMAIN said : said[i].deleted THEN DropThreads(x, {t})
  ELSE PutThread(x, t, [row EXCEPT !.comments = said])

FoldDocument(x, op) ==
  CASE op.t = "create" -> CreatePage(x, op)
    [] op.t = "insert" -> InsertBlock(x, op)
    [] op.t = "update" -> UpdateText(x, op)
    [] op.t = "mark" -> SetMark(x, op)
    [] op.t = "move" -> MoveBlock(x, op)
    [] op.t = "remove" -> RemoveBlock(x, op)
    [] op.t = "comment" -> AddComment(x, op)
    [] op.t = "movethread" -> MoveCommentThread(x, op)
    [] op.t = "uncomment" -> DeleteComment(x, op)

------------------------------------------------------------------------------
(* Managed requests                                                         *)

(* record_ops.rs: a document becomes ordinary operations on the record page *)
DocumentOps(page, record, existing, doc, after) ==
  LET old == IF existing = None THEN <<>> ELSE existing.kids
      wanted == {doc.blocks[i].id : i \in DOMAIN doc.blocks}
      dropped == SelectSeq(old, LAMBDA k : k \notin wanted)
      head == IF existing = None
              THEN <<[t |-> "insert", parent |-> page, after |-> after,
                      block |-> [id |-> record, kind |-> "page", text |-> doc.title,
                                 marks |-> <<>>]]>>
              ELSE <<[t |-> "update", id |-> record, text |-> doc.title, marks |-> None]>>
      Place(i) ==
        LET b == doc.blocks[i]
            prev == IF i = 1 THEN None ELSE doc.blocks[i-1].id IN
        IF b.id \in ToSet(old)
        THEN <<[t |-> "update", id |-> b.id, text |-> b.text, marks |-> b.marks],
               [t |-> "move", id |-> b.id, parent |-> record, after |-> prev]>>
        ELSE <<[t |-> "insert", parent |-> record, after |-> prev, block |-> b]>>
  IN head \o [i \in DOMAIN dropped |-> [t |-> "remove", id |-> dropped[i]]]
          \o FlattenSeq([i \in DOMAIN doc.blocks |-> Place(i)])

(* DocumentRead: each of these operations reads what the ones before wrote. *)
FoldAll(x, ops) ==
  LET folded[i \in 0..Len(ops)] == IF i = 0 THEN x ELSE FoldDocument(folded[i-1], ops[i])
  IN folded[Len(ops)]

FoldChange(x, page, c) ==
  IF c.t = "delete" THEN FoldAll(x, <<[t |-> "remove", id |-> c.record]>>)
  ELSE IF x.rows[page] = None THEN x
  ELSE LET kids == x.rows[page].kids
           last == IF kids = <<>> THEN None ELSE kids[Len(kids)]
       IN FoldAll(x, DocumentOps(page, c.record, x.rows[c.record], c.doc, last))
FoldChanges(x, page, cs) ==
  LET folded[i \in 0..Len(cs)] == IF i = 0 THEN x ELSE FoldChange(folded[i-1], page, cs[i])
  IN folded[Len(cs)]

FoldManagedAgain(x, op) ==   \* mutant: a receipt stops nothing
  [FoldChanges(x, op.page, op.changes) EXCEPT !.receipts = @ \cup {<<op.page, op.request>>}]
FoldManaged(x, op) ==
  IF <<op.page, op.request>> \in x.receipts THEN x
  ELSE [FoldChanges(x, op.page, op.changes) EXCEPT
          !.receipts = @ \cup {<<op.page, op.request>>}]

FoldOp(x, op) == IF op.t = "managed" THEN FoldManaged(x, op) ELSE FoldDocument(x, op)

------------------------------------------------------------------------------
(* The paged read                                                           *)

DescendsAll(x, root, b) == TRUE   \* mutant: the blocks of a subpage are read with its container
Descends(x, root, b) == x.rows[b].kind # "page" \/ b = root

(* The next sibling of b or of its nearest ancestor that has one            *)
Climb(x, root, b) ==
  LET up[n \in 0..Cardinality(Id), c \in Id] ==
        LET p == x.rows[c].parent IN
        IF n = 0 \/ (p = None /\ c # root) THEN "corrupt"
        ELSE IF p = None THEN None
        ELSE IF x.rows[p] = None THEN "corrupt"
        ELSE IF c \notin ToSet(x.rows[p].kids) THEN "corrupt"
        ELSE IF IndexOf(x.rows[p].kids, c) < Len(x.rows[p].kids)
             THEN x.rows[p].kids[IndexOf(x.rows[p].kids, c) + 1]
        ELSE IF p = root THEN None ELSE up[n-1, p]
  IN up[Cardinality(Id), b]

(* The block after b in the document: None past the last one                *)
FollowingBlock(x, root, b) ==
  LET next == IF Descends(x, root, b) /\ x.rows[b].kids # <<>> THEN Head(x.rows[b].kids)
              ELSE IF b = root THEN None ELSE Climb(x, root, b)
  IN IF next \in Id THEN IF x.rows[next] = None THEN "corrupt" ELSE next ELSE next

(* A read resumes inside the page it names.                                 *)
CursorState(x, root, b) ==
  LET row == x.rows[b]
      up == IF row = None \/ row.parent = None THEN None ELSE x.rows[row.parent] IN
  IF row = None THEN "refused"
  ELSE IF b = root THEN "ok"
  ELSE IF row.parent = None THEN IF row.kind = "page" THEN "refused" ELSE "corrupt"
  ELSE IF up = None THEN "corrupt"
  ELSE IF b \notin ToSet(up.kids) THEN "corrupt"
  ELSE IF up.page = root /\ (row.kind = "page" \/ row.page = root) THEN "ok"
  ELSE "refused"

GetPage(x, root, after) ==
  LET start == IF after = None THEN root ELSE FollowingBlock(x, root, after)
      read[n \in 0..Limit] ==
        IF n = 0 THEN [blocks |-> <<>>, at |-> start]
        ELSE IF read[n-1].at \notin Id THEN read[n-1]
        ELSE [blocks |-> Append(read[n-1].blocks, read[n-1].at),
              at |-> FollowingBlock(x, root, read[n-1].at)]
  IN IF x.rows[root] = None \/ x.rows[root].kind # "page" THEN [st |-> "gone"]
     ELSE IF after # None /\ CursorState(x, root, after) # "ok"
          THEN [st |-> CursorState(x, root, after)]
     ELSE IF read[Limit].at = "corrupt" THEN [st |-> "corrupt"]
     ELSE [st |-> IF read[Limit].at = None THEN "done" ELSE "reading",
           blocks |-> read[Limit].blocks]
==============================================================================
