------------------------------- MODULE ChatIndex -------------------------------
(***************************************************************************)
(* Chat's read model: the mapper that folds the applied-op feed into the   *)
(* key spaces of the index database (index.rs:502-886, tags.rs:166-214)    *)
(* and the paged views it serves while the fold goes on (index.rs:975-     *)
(* 1095).  The fold is asynchronous: views trail the feed (index-guest     *)
(* lib.rs:19-32).                                                          *)
(*                                                                         *)
(* Canonical chat is a module outside the repository; it is here as the    *)
(* source of the feed, which numbers posts and revisions without gaps.     *)
(* A channel is a constant; the arms for channel rows, members and huddles *)
(* touch key spaces of their own and are left out.                         *)
(***************************************************************************)
EXTENDS Naturals, Sequences, FiniteSets, SequencesExt

CONSTANTS
  Channel, \* ids asked for as channels
  Nested,  \* <<c, d>>: the id of d is the id of c, a slash, and a segment that sorts below "f"
  Id,      \* message ids, each posted at most once
  Token, Label,  \* words and hashtags
  Body,    \* message contents: [tokens, tags]
  Party, Emoji,
  None,
  Limit,   \* messages in a page
  MaxSeq,  \* bound: messages in a channel
  MaxRev,  \* MAX_REVISIONS
  MaxOps,  \* bound: operations in the feed
  Floor    \* Floor[c]: messages of c older than this index

(* The head of a message as the index keeps it.                             *)
Seqs == 1..MaxSeq
Empty == [tokens |-> {}, tags |-> {}]
Row == [id : Id, body : Body \cup {Empty}, thread : 0..MaxSeq, rev : Nat, deleted : BOOLEAN,
        replies : Nat, last : Nat, reacts : SUBSET (Emoji \X Party)]

ASSUME ChatAssumption ==
  /\ Nested \subseteq Channel \X Channel
  /\ \A b \in Body : b.tokens \subseteq Token /\ b.tags \subseteq Label
  /\ Limit \in Nat \ {0} /\ {MaxSeq, MaxRev, MaxOps} \subseteq Nat
  /\ Floor \in [Channel -> 0..MaxSeq] /\ None \notin Body /\ None \notin Row

VARIABLES
  feed,    \* the applied operations with their stamps, in commit order
  canon,   \* canon[c]: what canonical chat knows of each message, by sequence
  tip,     \* fold/tip: operations folded
  head,    \* seq/{channel}
  row,     \* msg/{channel}/{seq}
  root,    \* root/{channel}/{seq}
  reply,   \* thread/{channel}/{root}/{reply}
  msgid,   \* msgid/{id}
  hist,    \* rev/{channel}/{seq}/{rev}
  tok,     \* tok/{token}/{channel}/{seq}
  tag,     \* tag/{label}/{channel}/{seq}
  cat,     \* tagcat/{channel}/{label}
  walk     \* a reader paging through a channel's roots or a thread's replies

index == <<tip, head, row, root, reply, msgid, hist, tok, tag, cat>>
source == <<feed, canon>>

NoWalk == [stage |-> "none"]
MaxOf(S) == CHOOSE x \in S : \A y \in S : y <= x

Init ==
  /\ feed = <<>>
  /\ canon = [c \in Channel |-> [s \in 1..Floor[c] |-> [thread |-> 0, rev |-> 0, deleted |-> FALSE]]]
  /\ tip = 0 /\ walk = NoWalk
  /\ head = [c \in Channel |-> 0]
  /\ row = [c \in Channel |-> [s \in Seqs |-> None]]
  /\ root = {} /\ reply = {} /\ hist = {} /\ tok = {} /\ tag = {}
  /\ msgid = [m \in Id |-> None]
  /\ cat = [c \in Channel |-> [l \in Label |-> 0]]

------------------------------------------------------------------------------
(* Canonical chat: an operation it applied, with the stamp it assigned.     *)

NamespaceOpen(c) == TRUE

(* validate_channel_namespace: an id with a slash is never a channel.       *)
Namespace(c) == \A d \in Channel : <<d, c>> \notin Nested

Apply(op) ==
  /\ Len(feed) < MaxOps
  /\ feed' = Append(feed, op)
  /\ UNCHANGED <<index, walk>>

PostApplied(c, m, b, t) ==
  /\ Namespace(c)
  /\ \A i \in 1..Len(feed) : feed[i].kind = "post" => feed[i].id # m
  /\ Len(canon[c]) < MaxSeq
  /\ t # 0 => t \in DOMAIN canon[c] /\ canon[c][t].thread = 0
  /\ canon' = [canon EXCEPT ![c] = Append(@, [thread |-> t, rev |-> 0, deleted |-> FALSE])]
  /\ Apply([kind |-> "post", chan |-> c, seq |-> Len(canon[c]) + 1, id |-> m, body |-> b, thread |-> t])

EditApplied(c, s, b) ==
  /\ s \in DOMAIN canon[c] /\ ~canon[c][s].deleted /\ canon[c][s].rev < MaxRev
  /\ canon' = [canon EXCEPT ![c][s].rev = @ + 1]
  /\ Apply([kind |-> "edit", chan |-> c, seq |-> s, body |-> b, rev |-> canon[c][s].rev + 1])

DeleteApplied(c, s) ==
  /\ s \in DOMAIN canon[c] /\ ~canon[c][s].deleted
  /\ canon' = [canon EXCEPT ![c][s].deleted = TRUE]
  /\ Apply([kind |-> "delete", chan |-> c, seq |-> s])

(* Adding twice and removing what is not there are applied, as no-ops.      *)
ReactApplied(c, s, e, p, added) ==
  /\ s \in DOMAIN canon[c] /\ ~canon[c][s].deleted
  /\ Apply([kind |-> "react", chan |-> c, seq |-> s, emoji |-> e, who |-> p, added |-> added])
  /\ UNCHANGED canon

------------------------------------------------------------------------------
(* The rows: what one operation does to the message heads of its channel.   *)

Posted(op) ==
  [id |-> op.id, body |-> op.body, thread |-> op.thread, rev |-> 0, deleted |-> FALSE,
   replies |-> 0, last |-> 0, reacts |-> {}]

(* A reply also moves its root's summary, if the root is indexed.           *)
Summarised(rows, op) ==
  IF op.thread = 0 \/ rows[op.thread] = None THEN rows
  ELSE [rows EXCEPT ![op.thread].replies = @ + 1, ![op.thread].last = op.seq]

EditedAfresh(r, op) == [r EXCEPT !.body = op.body, !.rev = op.rev, !.replies = 0, !.last = 0]

Edited(r, op) == [r EXCEPT !.body = op.body, !.rev = op.rev]

Tombstone(r) == [r EXCEPT !.deleted = TRUE, !.body = Empty, !.reacts = {}]

(* Reactors are a set for each emoji, and an emoji nobody holds is dropped. *)
Reacted(r, op) ==
  [r EXCEPT !.reacts = IF op.added THEN @ \cup {<<op.emoji, op.who>>} ELSE @ \ {<<op.emoji, op.who>>}]

(* Rows older than the index are absent and skipped; a tombstone is not     *)
(* edited.                                                                  *)
Skipped(rows, op) ==
  op.kind # "post" /\ (rows[op.seq] = None \/ (op.kind = "edit" /\ rows[op.seq].deleted))

RowsAfter(rows, op) ==
  CASE Skipped(rows, op) -> rows
    [] op.kind = "post" -> [Summarised(rows, op) EXCEPT ![op.seq] = Posted(op)]
    [] op.kind = "edit" /\ ~Skipped(rows, op) -> [rows EXCEPT ![op.seq] = Edited(@, op)]
    [] op.kind = "delete" /\ ~Skipped(rows, op) -> [rows EXCEPT ![op.seq] = Tombstone(@)]
    [] op.kind = "react" /\ ~Skipped(rows, op) -> [rows EXCEPT ![op.seq] = Reacted(@, op)]

------------------------------------------------------------------------------
(* The fold, one operation at a time: its writes and the tip land together. *)

FoldNext(kind) ==
  /\ tip < Len(feed) /\ feed[tip + 1].kind = kind
  /\ tip' = tip + 1
  /\ row' = [row EXCEPT ![feed[tip + 1].chan] = RowsAfter(@, feed[tip + 1])]
  /\ UNCHANGED <<source, walk>>

(* put_row_and_toks after delete_toks: the last command on a key wins.      *)
Reposted(posts, c, s, old, new) ==
  (posts \ {<<x, c, s>> : x \in old}) \cup {<<x, c, s>> : x \in new}

(* fold_catalog: counts move by the difference of the label sets, and never *)
(* below zero.                                                              *)
Recounted(counts, old, new) ==
  [l \in Label |-> IF l \in new \ old THEN counts[l] + 1
                   ELSE IF l \in old \ new /\ counts[l] > 0 THEN counts[l] - 1
                   ELSE counts[l]]

Retokenised(c, s, old, new) ==
  /\ tok' = Reposted(tok, c, s, old.tokens, new.tokens)
  /\ tag' = Reposted(tag, c, s, old.tags, new.tags)
  /\ cat' = [cat EXCEPT ![c] = Recounted(@, old.tags, new.tags)]

FoldPost ==
  /\ FoldNext("post")
  /\ \E op \in {feed[tip + 1]} :
       /\ head' = [head EXCEPT ![op.chan] = op.seq]
       /\ msgid' = [msgid EXCEPT ![op.id] = <<op.chan, op.seq>>]
       /\ IF op.thread = 0
          THEN root' = root \cup {<<op.chan, op.seq>>} /\ UNCHANGED reply
          ELSE reply' = reply \cup {<<op.chan, op.thread, op.seq>>} /\ UNCHANGED root
       /\ Retokenised(op.chan, op.seq, Empty, op.body)
  /\ UNCHANGED hist

(* The replaced head becomes an immutable revision.                         *)
Archived(op, old) == hist \cup {[chan |-> op.chan, seq |-> op.seq, rev |-> old.rev, body |-> old.body]}

FoldEdit ==
  /\ FoldNext("edit")
  /\ \E op \in {feed[tip + 1]} : \E old \in {row[op.chan][op.seq]} :
       IF old = None \/ old.deleted
       THEN UNCHANGED <<hist, tok, tag, cat>>
       ELSE /\ hist' = Archived(op, old)
            /\ Retokenised(op.chan, op.seq, old.body, op.body)
  /\ UNCHANGED <<head, msgid, root, reply>>

FoldDelete ==
  /\ FoldNext("delete")
  /\ \E op \in {feed[tip + 1]} : \E old \in {row[op.chan][op.seq]} :
       IF old = None
       THEN UNCHANGED <<tok, tag, cat>>
       ELSE Retokenised(op.chan, op.seq, old.body, Empty)
  /\ UNCHANGED <<head, msgid, root, reply, hist>>

FoldReact ==
  /\ FoldNext("react")
  /\ UNCHANGED <<head, msgid, root, reply, hist, tok, tag, cat>>

Fold == FoldPost \/ FoldEdit \/ FoldDelete \/ FoldReact

------------------------------------------------------------------------------
(* The views.  A page is a prefix scan in key order strictly after a cursor. *)

Failed == [ok |-> FALSE, seqs |-> <<>>, more |-> FALSE]

PageOf(scan) ==
  [ok |-> TRUE, seqs |-> SubSeq(scan, 1, IF Len(scan) > Limit THEN Limit ELSE Len(scan)), more |-> Len(scan) > Limit]

\* The numbers of a finite set in order: before the i-th there are i - 1.
Ascending(S) == [i \in 1..Cardinality(S) |-> CHOOSE x \in S : Cardinality({y \in S : y < x}) = i - 1]
Newest(S) == Reverse(Ascending(S))

(* root/{c}/ would hold the keys of nested channels too, and they would     *)
(* sort first: an own key goes on with a complemented sequence, "ffff...".  *)
RootScan(c, before) ==
  LET own == {s \in Seqs : <<c, s>> \in root /\ (before = 0 \/ s < before)}
      nested == {z \in root : <<c, z[1]>> \in Nested}
      alien == SetToSeq(nested)
  IN (IF before = 0 THEN [i \in DOMAIN alien |-> alien[i][2]] ELSE <<>>) \o Newest(own)

(* A marker's value is read back in the channel asked for; the page is      *)
(* turned oldest first.                                                     *)
RootsPage(c, before) ==
  LET page == PageOf(RootScan(c, before))
  IN IF \E i \in DOMAIN page.seqs : row[c][page.seqs[i]] = None \/ row[c][page.seqs[i]].thread # 0
     THEN Failed
     ELSE [page EXCEPT !.seqs = Reverse(@)]

ThreadPage(c, t, after) ==
  LET found == {s \in Seqs : <<c, t, s>> \in reply /\ s > after}
      page == PageOf(Ascending(found))
  IN IF row[c][t] = None \/ row[c][t].thread # 0 THEN PageOf(<<>>)
     ELSE IF \E i \in DOMAIN page.seqs : row[c][page.seqs[i]] = None \/ row[c][page.seqs[i]].thread # t
     THEN Failed
     ELSE page

(* next_before_seq is the oldest root of the page, next_reply_seq the last  *)
(* reply.                                                                   *)
NextBefore(page) == Head(page.seqs)
NextReply(page) == Last(page.seqs)

(* A reader pages to the end; operations are folded between its pages.      *)
Markers(c, t) == IF t = 0 THEN {s \in Seqs : <<c, s>> \in root} ELSE {s \in Seqs : <<c, t, s>> \in reply}

Turned(w, page) ==
  [w EXCEPT !.stage = IF ~page.ok THEN "failed" ELSE IF page.more THEN "paging" ELSE "done",
            !.seen = IF w.thread = 0 THEN page.seqs \o @ ELSE @ \o page.seqs,
            !.cursor = IF ~page.more THEN @ ELSE IF w.thread = 0 THEN NextBefore(page) ELSE NextReply(page)]

PageAt(w) == IF w.thread = 0 THEN RootsPage(w.chan, w.cursor) ELSE ThreadPage(w.chan, w.thread, w.cursor)

OpenWalk(c, t) ==
  /\ walk.stage = "none"
  /\ \E w \in {[stage |-> "paging", chan |-> c, thread |-> t, cursor |-> 0, seen |-> <<>>,
                 want |-> IF t # 0 /\ row[c][t] = None THEN {} ELSE Markers(c, t)]} :
       walk' = Turned(w, PageAt(w))
  /\ UNCHANGED <<source, index>>

TurnPage ==
  /\ walk.stage = "paging"
  /\ walk' = Turned(walk, PageAt(walk))
  /\ UNCHANGED <<source, index>>

------------------------------------------------------------------------------
FeedStep ==
  \/ \E c \in Channel, m \in Id, b \in Body, t \in 0..MaxSeq : PostApplied(c, m, b, t)
  \/ \E c \in Channel, s \in Seqs, b \in Body : EditApplied(c, s, b)
  \/ \E c \in Channel, s \in Seqs : DeleteApplied(c, s)
  \/ \E c \in Channel, s \in Seqs, e \in Emoji, p \in Party, a \in BOOLEAN : ReactApplied(c, s, e, p, a)

WalkStep == TurnPage \/ \E c \in Channel, t \in 0..MaxSeq : OpenWalk(c, t)

------------------------------------------------------------------------------
(* Search and tags never surface a stale text and miss no live one: the     *)
(* postings are the words and labels of the heads as they now are, and the  *)
(* catalog counts the messages that carry each label, through posts, edits  *)
(* that keep some words, deletions, and messages older than the index.      *)
Carriers(c, l) == {s \in Seqs : row[c][s] # None /\ l \in row[c][s].body.tags}

PostingsMatch ==
  /\ tok = {z \in Token \X Channel \X Seqs :
             row[z[2]][z[3]] # None /\ z[1] \in row[z[2]][z[3]].body.tokens}
  /\ tag = {z \in Label \X Channel \X Seqs : z[3] \in Carriers(z[2], z[1])}
  /\ \A c \in Channel, l \in Label : cat[c][l] = Cardinality(Carriers(c, l))

(* Edits, deletions and reactions each rewrite the row from a copy of it,   *)
(* and still: a root's reply summary is what its thread page shows, kept as *)
(* markers elsewhere, and the revision view lists every head the message    *)
(* had, each under its own revision, up to the one before the current.      *)
RowsWhole ==
  \A c \in Channel, s \in Seqs : row[c][s] # None =>
    LET past == {h \in hist : h.chan = c /\ h.seq = s} IN
    /\ row[c][s].replies = Cardinality(Markers(c, s))
    /\ row[c][s].last = MaxOf(Markers(c, s) \cup {0})
    /\ {h.rev : h \in past} = 0..(row[c][s].rev - 1)
    /\ Cardinality(past) = row[c][s].rev

(* The key spaces of the index agree with each other after every fold.      *)
IndexSound == PostingsMatch /\ RowsWhole

(* A reader that pages by the cursor it is given sees every root, or every  *)
(* reply, that was there when it started, once and in order, and no page    *)
(* fails, whatever is folded between two pages and whatever ids channels    *)
(* are asked for under.  (The thread of a root older than the index is      *)
(* served empty.)                                                           *)
WalkComplete ==
  walk.stage # "none" =>
    /\ walk.stage # "failed"
    /\ \A i \in 1..Len(walk.seen) - 1 : walk.seen[i] < walk.seen[i + 1]
    /\ {walk.seen[i] : i \in DOMAIN walk.seen} \subseteq Markers(walk.chan, walk.thread)
    /\ walk.stage = "done" => walk.want \subseteq {walk.seen[i] : i \in DOMAIN walk.seen}
==============================================================================
