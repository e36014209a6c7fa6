------------------------------- MODULE ChatClient -------------------------------
(***************************************************************************)
(* A client following one room, or one thread of it, of the chat index:    *)
(* pages are read from the trailing index while the live stream delivers   *)
(* the feed's operations one by one, optimistic rows wait for their        *)
(* canonical ones, and every splice is a helper of client.rs:784-1196.     *)
(*                                                                         *)
(* Which helper a delta goes to and when a page is read is the shell's,    *)
(* outside the repository; it is taken from the helpers' comments: a delta *)
(* is delivered once, navigation clears the window before it reads, a      *)
(* reconnect reads again over the window it has.                           *)
(***************************************************************************)
EXTENDS ChatIndex

CONSTANTS
  Room,    \* the channel the client opens
  Me,      \* the reader's own key, a party
  Window,  \* CHAT_HOT_WINDOW_LIMIT; THREAD_HOT_WINDOW_LIMIT is one more
  MaxReads, \* bound: pages read
  RoomOps,  \* bound: operations in the feed while a client is there
  SeenBody  \* bound: message contents while a reader or a client is there

ASSUME ClientAssumption ==
  /\ Room \in Channel /\ Me \in Party /\ Window \in Nat \ {0}
  /\ MaxReads \in Nat /\ RoomOps \in Nat /\ SeenBody \subseteq Body
  /\ None \notin 0..MaxSeq

VARIABLES
  view,    \* what is on screen: the room (0), the thread of a root, or None
  win,     \* the rows on screen
  cur,     \* operations the stream delivered
  load,    \* the page on its way: None, or the tip it was read at and its rows
  reads,
  sent,    \* ids of the messages sent from here
  taps,    \* reactions shown before their operation was applied
  stale    \* ghost: rows a page took back behind an operation delivered before

client == <<view, win, cur, load, reads, sent, taps, stale>>
vars == <<source, index, walk, client>>

ClientInit ==
  /\ Init
  /\ view = None /\ win = <<>> /\ cur = 0 /\ load = None /\ reads = 0
  /\ sent = {} /\ taps = {} /\ stale = {}

------------------------------------------------------------------------------
(* Rows on screen: what chat_message renders of an indexed row, or a        *)
(* placeholder.  The negative sequences of placeholders only keep them      *)
(* apart; here they are 0.                                                  *)
Shown(r, s) ==
  [id |-> r.id, seq |-> s, pending |-> FALSE, rev |-> r.rev, deleted |-> r.deleted,
   body |-> r.body, reacts |-> r.reacts, thread |-> r.thread]

Placeholder(m) ==
  [id |-> m, seq |-> 0, pending |-> TRUE, rev |-> 0, deleted |-> FALSE,
   body |-> Empty, reacts |-> {}, thread |-> 0]

\* The rows at these places, and the first of these places or none.
Picked(rows, places) == LET at == Ascending(places) IN [i \in DOMAIN at |-> rows[at[i]]]
First(places) == IF places = {} THEN 0 ELSE Min(places)

Pending(rows) == {i \in DOMAIN rows : rows[i].pending}
Committed(rows) == DOMAIN rows \ Pending(rows)
Youngest(rows, n) == SubSeq(rows, IF Len(rows) > n THEN Len(rows) - n + 1 ELSE 1, Len(rows))
LeastOf(m, n) == IF m < n THEN m ELSE n

(* bounded_chat_window: the oldest committed rows go first, and a committed *)
(* row keeps a place among placeholders.                                    *)
Fitted(committed, pending, n) ==
  Youngest(committed, n - Len(pending)) \o pending

BoundedRoom(rows) ==
  LET committed == Picked(rows, Committed(rows))
      pending == Picked(rows, Pending(rows))
  IN IF Len(rows) <= Window THEN rows
     ELSE Fitted(committed, Youngest(pending, IF committed = <<>> THEN Window ELSE Window - 1), Window)

(* bounded_thread_window: the root is held out.                             *)
BoundedThread(rows) ==
  LET first == First({i \in Committed(rows) : rows[i].seq > 0 /\ rows[i].thread = 0})
      top == IF first = 0 THEN <<>> ELSE <<rows[first]>>
      rest == IF first = 0 THEN rows ELSE RemoveAt(rows, first)
      room == Window + 1 - Len(top)
  IN top \o Fitted(Picked(rest, Committed(rest)), Youngest(Picked(rest, Pending(rest)), room), room)

Bounded(rows) == IF view = 0 THEN BoundedRoom(rows) ELSE BoundedThread(rows)

(* merge_message_send_result: by sequence, the page's row unless the one on *)
(* screen is a later revision; placeholders stay behind, without those the  *)
(* page settles.                                                            *)
WinsAlways(canonical, current) == TRUE

Wins(canonical, current) == canonical.rev >= current.rev

SettledNever(r, read) == FALSE

Settled(r, read) == \E c \in read : c.id = r.id

InOrder(rows) ==
  LET at == Ascending({r.seq : r \in rows}) IN [i \in DOMAIN at |-> CHOOSE r \in rows : r.seq = at[i]]

Merged(page, rows) ==
  LET shown == {rows[i] : i \in Committed(rows)}
      read == {page[i] : i \in DOMAIN page}
      kept == {r \in shown : \A c \in read : c.seq = r.seq => ~Wins(c, r)}
      taken == {c \in read : \A r \in shown : r.seq = c.seq => Wins(c, r)}
      waiting == {i \in Pending(rows) : ~Settled(rows[i], read)}
  IN InOrder(kept \cup taken) \o Picked(rows, waiting)

(* merge_landing_messages, merge_thread_refresh                             *)
Landed(page, rows) == Bounded(Merged(page, rows))

(* The row a delta is about, if it is on screen.                            *)
Is(r, s) == ~r.pending /\ r.seq = s

(* merge_message_edit: an older or replayed revision, or one of a tombstone, *)
(* is dropped.                                                              *)
EditedOn(r, op) == IF r.deleted \/ r.rev >= op.rev THEN r ELSE [r EXCEPT !.body = op.body, !.rev = op.rev]

TombstoneReacted(r) == [r EXCEPT !.deleted = TRUE, !.body = Empty]

(* tombstone_message                                                        *)
TombstoneOn(r) == [r EXCEPT !.deleted = TRUE, !.body = Empty, !.reacts = {}]

(* merge_message_reaction: a reactor holds an emoji once.                   *)
ReactedOn(r, e, p, added) ==
  IF r.deleted THEN r
  ELSE [r EXCEPT !.reacts = IF added THEN @ \cup {<<e, p>>} ELSE @ \ {<<e, p>>}]

Changed(r, op) ==
  CASE op.kind = "edit" -> EditedOn(r, op)
    [] op.kind = "delete" -> TombstoneOn(r)
    [] op.kind = "react" -> ReactedOn(r, op.emoji, op.who, op.added)

(* merge_thread_reply                                                       *)
ReplyMerged(rows, new) ==
  LET others == Picked(rows, DOMAIN rows \ {i \in Pending(rows) : rows[i].id = new.id})
      at == First({i \in DOMAIN others : Is(others[i], new.seq)})
      before == First({i \in DOMAIN others : others[i].pending \/ others[i].seq > new.seq})
  IN BoundedThread(
       IF at # 0 THEN (IF others[at].rev <= new.rev THEN [others EXCEPT ![at] = new] ELSE others)
       ELSE InsertAt(others, IF before = 0 THEN Len(others) + 1 ELSE before, new))

(* One delta, by the helper its kind goes to.                               *)
Spliced(rows, op) ==
  CASE op.kind = "post" /\ view = 0 /\ op.thread = 0 -> Landed(<<Shown(Posted(op), op.seq)>>, rows)
    [] op.kind = "post" /\ view # 0 /\ op.thread = view -> ReplyMerged(rows, Shown(Posted(op), op.seq))
    [] op.kind \in {"edit", "delete", "react"} ->
         [i \in DOMAIN rows |-> IF Is(rows[i], op.seq) THEN Changed(rows[i], op) ELSE rows[i]]
    [] OTHER -> rows

------------------------------------------------------------------------------
(* Steps of the client.  `stale` follows the one race the merge rule leaves *)
(* open: an operation on a row delivered after the page was read and before *)
(* it lands, undone because it moved no revision or met no row.             *)

Asked == [at |-> 0, page |-> None]
OnScreen(s) == \E i \in DOMAIN win : Is(win[i], s)

(* Bounds: contents while a reader pages or a client is there; and with a   *)
(* client, operations of its room on indexed messages.                      *)
Plain(op) == op.kind \in {"post", "edit"} => op.body \in SeenBody
Indexed(s) == s = 0 \/ s > Floor[Room]
InRoom(op) ==
  Plain(op) /\ op.chan = Room /\ Indexed(op.seq) /\ (op.kind = "post" => Indexed(op.thread))

(* The stream may be behind the fold or ahead of it.                        *)
Open(v) ==
  /\ view = None /\ walk = NoWalk
  /\ Len(feed) <= RoomOps /\ \A i \in DOMAIN feed : InRoom(feed[i])
  /\ Indexed(v)
  /\ v # 0 => v \in DOMAIN canon[Room] /\ canon[Room][v].thread = 0
  /\ view' = v /\ cur' \in 0..Len(feed) /\ load' = Asked
  /\ UNCHANGED <<source, index, walk, win, reads, sent, taps, stale>>

(* A reconnect reads again, over the window there is.                       *)
Resync ==
  /\ view # None /\ load = None /\ reads < MaxReads
  /\ load' = Asked
  /\ UNCHANGED <<source, index, walk, view, win, cur, reads, sent, taps, stale>>

(* The view is served at one snapshot of the index.                         *)
PageRows ==
  LET page == IF view = 0 THEN RootsPage(Room, 0) ELSE ThreadPage(Room, view, 0)
      seqs == IF view = 0 \/ row[Room][view] = None THEN page.seqs ELSE <<view>> \o page.seqs
  IN [i \in DOMAIN seqs |-> Shown(row[Room][seqs[i]], seqs[i])]

Read ==
  /\ load # None /\ load.page = None
  /\ load' = [at |-> tip, page |-> PageRows]
  /\ reads' = reads + 1
  /\ UNCHANGED <<source, index, walk, view, win, cur, sent, taps, stale>>

Undone(at) == {feed[i].seq : i \in {j \in at + 1..cur : feed[j].chan = Room /\ feed[j].kind # "post"}}

Land ==
  /\ load # None /\ load.page # None
  /\ win' = Landed(load.page, win)
  /\ \E taken \in {{s \in {load.page[i].seq : i \in DOMAIN load.page} :
                      \A i \in DOMAIN win' : win'[i].seq = s => \E j \in DOMAIN load.page : load.page[j] = win'[i]}} :
       stale' = (stale \ taken) \cup (taken \cap Undone(load.at))
  /\ load' = None
  /\ UNCHANGED <<source, index, walk, view, cur, reads, sent, taps>>

Deliver ==
  /\ view # None /\ cur < Len(feed)
  /\ cur' = cur + 1
  /\ win' = IF feed[cur'].chan = Room THEN Spliced(win, feed[cur']) ELSE win
  /\ UNCHANGED <<source, index, walk, view, load, reads, sent, taps, stale>>

(* optimistic_message, bounded                                              *)
Send(m) ==
  /\ view # None /\ m \notin sent
  /\ \A i \in 1..Len(feed) : feed[i].kind = "post" => feed[i].id # m
  /\ win' = Bounded(Append(win, Placeholder(m)))
  /\ sent' = sent \cup {m}
  /\ UNCHANGED <<source, index, walk, view, cur, load, reads, taps, stale>>

(* optimistic_reaction                                                      *)
Tap(s, e, added) ==
  /\ view # None /\ OnScreen(s) /\ <<s, e, added>> \notin taps
  /\ win' = [i \in DOMAIN win |-> IF Is(win[i], s) THEN ReactedOn(win[i], e, Me, added) ELSE win[i]]
  /\ taps' = taps \cup {<<s, e, added>>}
  /\ UNCHANGED <<source, index, walk, view, cur, load, reads, sent, stale>>

(* The feed, while the client is there: what was sent is posted where it    *)
(* was sent to, and a tapped reaction is applied.                           *)
ClientFeed ==
  /\ view # None /\ Len(feed) < RoomOps
  /\ FeedStep /\ InRoom(feed'[Len(feed')])
  /\ \A m \in sent : feed'[Len(feed')].kind = "post" /\ feed'[Len(feed')].id = m
                       => feed'[Len(feed')].chan = Room /\ feed'[Len(feed')].thread = view
  /\ taps' = {x \in taps : LET op == feed'[Len(feed')]
                           IN ~(op.kind = "react" /\ op.chan = Room /\ op.who = Me /\ x = <<op.seq, op.emoji, op.added>>)}
  /\ UNCHANGED <<view, win, cur, load, reads, sent, stale>>

IndexOnly == Fold /\ UNCHANGED client

(* Nobody is in the room: any feed, and a reader of the index that pages.   *)
Unattended ==
  /\ view = None /\ UNCHANGED client
  /\ FeedStep \/ WalkStep
  /\ walk' # NoWalk => \A i \in DOMAIN feed' : Plain(feed'[i])

Next ==
  \/ ClientFeed \/ IndexOnly \/ Unattended
  \/ \E v \in 0..MaxSeq : Open(v)
  \/ Resync \/ Read \/ Land \/ Deliver
  \/ \E m \in Id : Send(m)
  \/ \E s \in Seqs, e \in Emoji, a \in BOOLEAN : Tap(s, e, a)

Spec == ClientInit /\ [][Next]_vars

------------------------------------------------------------------------------
Ids(rows) == {rows[i].id : i \in DOMAIN rows}
WindowBound == IF view = 0 THEN Window ELSE Window + 1

(* Whatever lands, settles or is evicted in whatever order: the window is   *)
(* bounded, committed rows come in order before the placeholders, and no    *)
(* message is on screen twice, as a row and as its placeholder.             *)
WindowSound ==
  view # None =>
    /\ Len(win) <= WindowBound
    /\ Cardinality(Ids(win)) = Len(win)
    /\ \A i, j \in DOMAIN win : i < j /\ win[i].pending => win[j].pending
    /\ \A i, j \in DOMAIN win : i < j /\ ~win[j].pending => win[i].seq < win[j].seq

(* No splice and no landing page loses a committed row or shows it in an    *)
(* earlier revision, but for the oldest rows of a full window; and a        *)
(* placeholder goes only when its message was applied or placeholders fill  *)
(* the window.                                                              *)
KeptOn(r) == \E i \in DOMAIN win' : win'[i].id = r.id /\ ~win'[i].pending /\ win'[i].rev >= r.rev

EvictedFor(r) ==
  /\ Len(win') >= WindowBound
  /\ \A i \in DOMAIN win' : win'[i].pending \/ win'[i].seq = view \/ r.seq < win'[i].seq

LandingKeeps ==
  [][\A i \in DOMAIN win :
       IF win[i].pending
       THEN \/ \E j \in DOMAIN win' : win'[j] = win[i]
            \/ \E j \in 1..Len(feed) : feed[j].kind = "post" /\ feed[j].id = win[i].id
            \/ Cardinality(Pending(win')) >= Window - 1
       ELSE KeptOn(win[i]) \/ EvictedFor(win[i])]_vars

(* Once the stream has delivered the whole feed, every row on screen is the *)
(* row the feed makes of it, however pages, deltas they already contain,    *)
(* placeholders and optimistic reactions were interleaved - but for rows a  *)
(* page took back behind an operation already delivered.                    *)
RowsOf(n) ==
  LET after[i \in 0..n] ==
        IF i = 0 THEN [s \in Seqs |-> None]
        ELSE IF feed[i].chan = Room THEN RowsAfter(after[i - 1], feed[i]) ELSE after[i - 1]
  IN after[n]

DrainedMatches ==
  (view # None /\ load = None /\ cur = Len(feed)) =>
    \E truth \in {RowsOf(Len(feed))} :
      \A i \in DOMAIN win :
        \/ win[i].pending \/ win[i].seq \in stale
        \/ \E x \in taps : x[1] = win[i].seq
        \/ win[i] = Shown(truth[win[i].seq], win[i].seq)
==============================================================================
