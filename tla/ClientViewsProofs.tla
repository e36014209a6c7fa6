--------------------------- MODULE ClientViewsProofs ---------------------------
(***************************************************************************)
(* What clients are shown: chat's index, for any channels, messages and    *)
(* bounds, agrees with itself however far the fold is behind the feed, and *)
(* a reader that pages through it misses nothing; a client that follows a  *)
(* room or a thread has a sound window, in whatever order pages, deltas    *)
(* and optimistic rows come, and ends up with the rows the feed makes; and *)
(* the mirror of an editor's document, for any documents and chunk size,   *)
(* has the text its reference names, however edits, transfers, losses,     *)
(* timeouts and restarts are interleaved.                                  *)
(***************************************************************************)
EXTENDS ChatClient, EditorMirror, FiniteSetTheorems, SequenceTheorems, WellFoundedInduction, TLAPS

------------------------------------------------------------------------------
(* The invariant of the feed.  A post's sequence is past every one used in  *)
(* its channel and past its thread; the edits of a message are numbered     *)
(* without gaps and stop at its deletion.                                   *)

Known == [thread : 0..MaxSeq, rev : Nat, deleted : BOOLEAN]

Op ==
       [kind : {"post"}, chan : Channel, seq : Seqs, id : Id, body : Body, thread : 0..MaxSeq]
  \cup [kind : {"edit"}, chan : Channel, seq : Seqs, body : Body, rev : Nat]
  \cup [kind : {"delete"}, chan : Channel, seq : Seqs]
  \cup [kind : {"react"}, chan : Channel, seq : Seqs, emoji : Emoji, who : Party, added : BOOLEAN]

\* Operation x is of this kind, on message s of channel c.
OpOn(x, kind, c, s) == x.kind = kind /\ x.chan = c /\ x.seq = s

Follows(f, j) ==
  LET op == f[j] IN
  /\ op.kind = "post" =>
       /\ op.thread < op.seq
       /\ \A i \in 1..j - 1 : f[i].chan = op.chan => f[i].seq < op.seq
  /\ op.kind = "edit" =>
       /\ op.rev > 0
       /\ \A i \in 1..j - 1 : ~OpOn(f[i], "delete", op.chan, op.seq)
       /\ \A i \in 1..j - 1 : OpOn(f[i], "edit", op.chan, op.seq) => f[i].rev < op.rev
       /\ op.rev = 1 \/ \E i \in 1..j - 1 : OpOn(f[i], "edit", op.chan, op.seq) /\ f[i].rev = op.rev - 1

Settles(kn, op) ==
  /\ op.seq <= Len(kn[op.chan])
  /\ op.kind = "edit" => op.rev <= kn[op.chan][op.seq].rev
  /\ op.kind = "delete" => kn[op.chan][op.seq].deleted

FeedOk ==
  /\ feed \in Seq(Op) /\ canon \in [Channel -> Seq(Known)]
  /\ \A j \in 1..Len(feed) : Follows(feed, j) /\ Settles(canon, feed[j])
  /\ \A c \in Channel : \A s \in 1..Len(canon[c]) :
       canon[c][s].rev = 0 \/ \E i \in 1..Len(feed) : OpOn(feed[i], "edit", c, s) /\ feed[i].rev = canon[c][s].rev

(* The invariant of the fold: what a head owes to the operations folded.    *)

Rows == [Seqs -> Row \cup {None}]
Revision == [chan : Channel, seq : Seqs, rev : Nat, body : Body \cup {Empty}]

Past(c, s) == {h \in hist : h.chan = c /\ h.seq = s}

\* r is the head of message s of channel c after the first n operations of f.
HeadOf(f, n, c, s, r) ==
  /\ \E i \in 1..n : OpOn(f[i], "post", c, s)
  /\ \A i \in 1..n : OpOn(f[i], "edit", c, s) => f[i].rev <= r.rev
  /\ r.rev = 0 \/ \E i \in 1..n : OpOn(f[i], "edit", c, s) /\ f[i].rev = r.rev
  /\ r.deleted => \E i \in 1..n : OpOn(f[i], "delete", c, s)

RowsOk ==
  /\ row \in [Channel -> Rows] /\ tip \in 0..Len(feed)
  /\ \A c \in Channel, s \in Seqs : row[c][s] # None => HeadOf(feed, tip, c, s, row[c][s])

RepliesOk ==
  /\ \A z \in reply : \E i \in 1..tip :
       OpOn(feed[i], "post", z[1], z[3]) /\ feed[i].thread = z[2]
  /\ \A c \in Channel, s \in Seqs : row[c][s] # None =>
       /\ row[c][s].replies = Cardinality(Markers(c, s))
       /\ row[c][s].last = MaxOf(Markers(c, s) \cup {0})

HistOk ==
  /\ hist \subseteq Revision
  /\ \A h \in hist : row[h.chan][h.seq] # None
  /\ \A c \in Channel, s \in Seqs : row[c][s] # None =>
       /\ IsFiniteSet(Past(c, s)) /\ Cardinality(Past(c, s)) = row[c][s].rev
       /\ {h.rev : h \in Past(c, s)} = 0..row[c][s].rev - 1

\* What the text of a message is, for search.
BodyOf(rows, c, s) == IF rows[c][s] = None THEN Empty ELSE rows[c][s].body

Tagged(rows, c, l) == {s \in Seqs : l \in BodyOf(rows, c, s).tags}

PostingsOk ==
  /\ tok \subseteq Token \X Channel \X Seqs /\ tag \subseteq Label \X Channel \X Seqs
  /\ cat \in [Channel -> [Label -> Nat]]
  /\ \A c \in Channel, s \in Seqs :
       /\ \A x \in Token : <<x, c, s>> \in tok <=> x \in BodyOf(row, c, s).tokens
       /\ \A l \in Label : <<l, c, s>> \in tag <=> l \in BodyOf(row, c, s).tags
  /\ \A c \in Channel, l \in Label : cat[c][l] = Cardinality(Tagged(row, c, l))

IndexInv == FeedOk /\ RowsOk /\ RepliesOk /\ HistOk /\ PostingsOk

\* A step that keeps every head but that of one message.
OthersKept(c, s) == \A d \in Channel, x \in Seqs : <<d, x>> # <<c, s>> => row'[d][x] = row[d][x]

------------------------------------------------------------------------------
(* The feed.                                                                *)

(* An operation applied stands last, behind those there were.               *)
LEMMA FeedGrows ==
  ASSUME NEW f \in Seq(Op), NEW op \in Op
  PROVE  /\ Append(f, op) \in Seq(Op) /\ Len(f) \in Nat
         /\ Len(Append(f, op)) = Len(f) + 1 /\ Append(f, op)[Len(f) + 1] = op
         /\ \A i \in 1..Len(f) : Append(f, op)[i] = f[i]
  OBVIOUS

(* It joins a feed that is in order if it follows what was there, and what  *)
(* canonical chat knows afterwards covers it and still covers the rest.     *)
LEMMA Applied ==
  ASSUME FeedOk, NEW op \in Op,
         feed' = Append(feed, op),
         canon' \in [Channel -> Seq(Known)],
         Follows(feed', Len(feed) + 1), Settles(canon', op),
         \A x \in Op : Settles(canon, x) => Settles(canon', x),
         \A c \in Channel : \A s \in 1..Len(canon'[c]) :
           \/ canon'[c][s].rev = 0
           \/ s \in 1..Len(canon[c]) /\ canon'[c][s].rev = canon[c][s].rev
           \/ OpOn(op, "edit", c, s) /\ op.rev = canon'[c][s].rev
  PROVE  FeedOk'
<1> DEFINE n == Len(feed)
<1>1. feed \in Seq(Op)
  BY DEF FeedOk
<1>2. /\ feed' \in Seq(Op) /\ n \in Nat /\ Len(feed') = n + 1 /\ feed'[n + 1] = op
      /\ \A i \in 1..n : feed'[i] = feed[i] /\ feed[i] \in Op
  BY <1>1, FeedGrows
<1> HIDE DEF n
<1>3. ASSUME NEW j \in 1..n + 1
      PROVE  Follows(feed', j) /\ Settles(canon', feed'[j])
  <2>1. CASE j = n + 1
    BY Zenon, <1>2, <2>1 DEF n
  <2>2. CASE j # n + 1
    <3>1. j \in 1..n /\ \A i \in 1..j - 1 : i \in 1..n
      BY <1>2, <2>2
    <3>2. Follows(feed, j) /\ Settles(canon, feed[j]) /\ feed'[j] = feed[j] /\ feed[j] \in Op
      BY Zenon, <1>2, <3>1 DEF FeedOk, n
    <3>3. \A i \in 1..j - 1 : feed'[i] = feed[i]
      BY Zenon, <1>2, <3>1
    <3>4. Follows(feed', j)
      BY <3>2, <3>3 DEF Follows
    <3>5. Settles(canon', feed'[j])
      BY Zenon, <3>2
    <3>6. QED
      BY <3>4, <3>5
  <2>3. QED
    BY <2>1, <2>2
<1>4. ASSUME NEW c \in Channel, NEW s \in 1..Len(canon'[c]), canon'[c][s].rev # 0
      PROVE  \E i \in 1..n + 1 : OpOn(feed'[i], "edit", c, s) /\ feed'[i].rev = canon'[c][s].rev
  <2>1. CASE OpOn(op, "edit", c, s) /\ op.rev = canon'[c][s].rev
    <3>1. n + 1 \in 1..n + 1
      BY <1>2
    <3>2. QED
      BY Zenon, <1>2, <2>1, <3>1
  <2>2. CASE s \in 1..Len(canon[c]) /\ canon'[c][s].rev = canon[c][s].rev
    <3>1. PICK i \in 1..n : OpOn(feed[i], "edit", c, s) /\ feed[i].rev = canon[c][s].rev
      BY Zenon, <1>4, <2>2 DEF FeedOk, n
    <3>2. i \in 1..n + 1
      BY <1>2
    <3>3. QED
      BY Zenon, <1>2, <2>2, <3>1, <3>2
  <2>3. QED
    BY Zenon, <1>4, <2>1, <2>2
<1>5. QED
  <2>1. feed' \in Seq(Op) /\ canon' \in [Channel -> Seq(Known)] /\ Len(feed') = n + 1
    BY <1>2
  <2>2. \A j \in 1..Len(feed') : Follows(feed', j) /\ Settles(canon', feed'[j])
    BY Zenon, <1>3, <2>1
  <2>3. \A c \in Channel : \A s \in 1..Len(canon'[c]) :
          canon'[c][s].rev = 0 \/ \E i \in 1..Len(feed') : OpOn(feed'[i], "edit", c, s) /\ feed'[i].rev = canon'[c][s].rev
    BY Zenon, <1>4, <2>1
  <2>4. QED
    BY Zenon, <2>1, <2>2, <2>3 DEF FeedOk

(* How a post and an edit follow.                                           *)
LEMMA FollowsIf ==
  ASSUME NEW f, NEW j
  PROVE  /\ (/\ f[j].kind # "edit" /\ f[j].thread < f[j].seq
             /\ \A i \in 1..j - 1 : f[i].chan = f[j].chan => f[i].seq < f[j].seq)
              => Follows(f, j)
         /\ (/\ f[j].kind # "post" /\ f[j].rev > 0
             /\ \A i \in 1..j - 1 : ~OpOn(f[i], "delete", f[j].chan, f[j].seq)
             /\ \A i \in 1..j - 1 : OpOn(f[i], "edit", f[j].chan, f[j].seq) => f[i].rev < f[j].rev
             /\ f[j].rev = 1 \/ \E i \in 1..j - 1 :
                                  OpOn(f[i], "edit", f[j].chan, f[j].seq) /\ f[i].rev = f[j].rev - 1)
              => Follows(f, j)
  BY DEF Follows

LEMMA PostFeedOk ==
  ASSUME FeedOk, NEW c \in Channel, NEW m \in Id, NEW b \in Body, NEW t \in 0..MaxSeq,
         PostApplied(c, m, b, t)
  PROVE  FeedOk'
<1> DEFINE n == Len(feed)
           s == Len(canon[c]) + 1
           k == [thread |-> t, rev |-> 0, deleted |-> FALSE]
           op == [kind |-> "post", chan |-> c, seq |-> s, id |-> m, body |-> b, thread |-> t]
<1>1. /\ feed' = Append(feed, op)
      /\ canon' = [canon EXCEPT ![c] = Append(@, k)]
      /\ Len(canon[c]) < MaxSeq
      /\ t # 0 => t \in DOMAIN canon[c]
  BY Zenon DEF PostApplied, Apply
<1>2. canon[c] \in Seq(Known) /\ Len(canon[c]) \in Nat /\ MaxSeq \in Nat /\ canon \in [Channel -> Seq(Known)]
      /\ feed \in Seq(Op) /\ n \in Nat
  BY ChatAssumption DEF FeedOk
<1>3. s \in Seqs /\ s \in Nat /\ t < s
  BY <1>1, <1>2 DEF Seqs
<1>4. k \in Known
  BY DEF Known
<1>5. op \in Op
  BY <1>3 DEF Op
<1>6. /\ op.kind = "post" /\ op.chan = c /\ op.seq = s /\ op.thread = t
      /\ k.rev = 0
  OBVIOUS
<1> HIDE DEF op, k, n
<1>7. /\ canon' \in [Channel -> Seq(Known)]
      /\ Len(canon'[c]) = s /\ canon'[c][s] = k
      /\ \A i \in 1..Len(canon[c]) : canon'[c][i] = canon[c][i]
      /\ \A d \in Channel : d # c => canon'[d] = canon[d]
      /\ \A d \in Channel : Len(canon'[d]) \in Nat /\ Len(canon[d]) \in Nat /\ Len(canon[d]) <= Len(canon'[d])
      /\ \A d \in Channel : \A i \in 1..Len(canon[d]) : canon'[d][i] = canon[d][i]
  <2> DEFINE known == Append(canon[c], k)
  <2>1. /\ known \in Seq(Known) /\ Len(known) = s /\ known[s] = k
        /\ \A i \in 1..Len(canon[c]) : known[i] = canon[c][i]
    BY <1>2, <1>4
  <2>2. canon' = [canon EXCEPT ![c] = known]
    BY <1>1
  <2> HIDE DEF known
  <2>3. canon' \in [Channel -> Seq(Known)] /\ canon'[c] = known /\ \A d \in Channel : d # c => canon'[d] = canon[d]
    BY <1>2, <2>1, <2>2
  <2>4. \A d \in Channel : Len(canon'[d]) \in Nat /\ Len(canon[d]) \in Nat
    BY <1>2, <2>3
  <2>5. ASSUME NEW d \in Channel
        PROVE  Len(canon[d]) <= Len(canon'[d]) /\ \A i \in 1..Len(canon[d]) : canon'[d][i] = canon[d][i]
    <3>1. CASE d = c
      BY <1>2, <2>1, <2>3, <3>1
    <3>2. CASE d # c
      BY <2>3, <2>4, <3>2
    <3>3. QED
      BY <3>1, <3>2
  <2>6. QED
    BY Zenon, <2>1, <2>3, <2>4, <2>5
<1>8. ASSUME NEW x \in Op, Settles(canon, x)
      PROVE  Settles(canon', x)
  <2>1. x.chan \in Channel /\ x.seq \in 1..Len(canon[x.chan]) /\ x.seq <= Len(canon'[x.chan])
    <3>1. x.chan \in Channel /\ x.seq \in Nat /\ x.seq >= 1
      BY <1>2 DEF Op, Seqs
    <3>2. QED
      BY <1>7, <1>8, <3>1 DEF Settles
  <2>2. canon'[x.chan][x.seq] = canon[x.chan][x.seq]
    BY Zenon, <1>7, <2>1
  <2>3. QED
    BY Zenon, <1>8, <2>1, <2>2 DEF Settles
<1>9. Settles(canon', op)
  BY <1>3, <1>6, <1>7 DEF Settles
<1>10. Follows(feed', n + 1)
  <2>1. /\ feed'[n + 1] = op /\ (n + 1) - 1 = n
        /\ \A i \in 1..n : feed'[i] = feed[i]
    BY <1>1, <1>2, <1>5, FeedGrows DEF n
  <2>2. ASSUME NEW i \in 1..n, feed[i].chan = c
        PROVE  feed[i].seq < s
    <3>1. feed[i] \in Op /\ feed[i].seq <= Len(canon[c])
      BY <1>2, <2>2 DEF FeedOk, Settles, n
    <3>2. feed[i].seq \in Nat
      BY <1>2, <3>1 DEF Op, Seqs
    <3>3. QED
      BY <1>2, <3>1, <3>2
  <2>3. \A i \in 1..(n + 1) - 1 : feed'[i].chan = feed'[n + 1].chan => feed'[i].seq < feed'[n + 1].seq
    BY <1>6, <2>1, <2>2
  <2>4. feed'[n + 1].thread < feed'[n + 1].seq /\ feed'[n + 1].kind # "edit"
    BY <1>3, <1>6, <2>1
  <2>5. QED
    BY Zenon, <2>3, <2>4, FollowsIf
<1>11. ASSUME NEW d \in Channel, NEW i \in 1..Len(canon'[d])
       PROVE  canon'[d][i].rev = 0 \/ (i \in 1..Len(canon[d]) /\ canon'[d][i].rev = canon[d][i].rev)
  <2>1. i \in 1..Len(canon[d]) \/ (d = c /\ i = s)
    BY <1>2, <1>7
  <2>2. QED
    BY <1>6, <1>7, <2>1
<1>12. \A x \in Op : Settles(canon, x) => Settles(canon', x)
  BY Zenon, <1>8
<1>13. \A d \in Channel : \A i \in 1..Len(canon'[d]) :
           \/ canon'[d][i].rev = 0
           \/ i \in 1..Len(canon[d]) /\ canon'[d][i].rev = canon[d][i].rev
           \/ OpOn(op, "edit", d, i) /\ op.rev = canon'[d][i].rev
  BY Zenon, <1>11
<1>14. canon' \in [Channel -> Seq(Known)]
  BY Zenon, <1>7
<1>15. QED
  BY Zenon, <1>1, <1>5, <1>9, <1>10, <1>12, <1>13, <1>14, Applied DEF n

LEMMA EditFeedOk ==
  ASSUME FeedOk, NEW c \in Channel, NEW s \in Seqs, NEW b \in Body, EditApplied(c, s, b)
  PROVE  FeedOk'
<1> DEFINE n == Len(feed)
           old == canon[c][s]
           r == old.rev + 1
           op == [kind |-> "edit", chan |-> c, seq |-> s, body |-> b, rev |-> r]
<1>1. /\ feed' = Append(feed, op)
      /\ canon' = [canon EXCEPT ![c][s].rev = @ + 1]
      /\ s \in DOMAIN canon[c] /\ ~old.deleted
  BY Zenon DEF EditApplied, Apply
<1>2. canon[c] \in Seq(Known) /\ Len(canon[c]) \in Nat /\ canon \in [Channel -> Seq(Known)]
      /\ feed \in Seq(Op) /\ n \in Nat
  BY DEF FeedOk
<1>3. s \in 1..Len(canon[c]) /\ old \in Known
  BY <1>1, <1>2
<1>4. r \in Nat /\ r > 0 /\ old.rev \in Nat /\ r > old.rev /\ r - 1 = old.rev
  BY <1>3 DEF Known
<1>5. op \in Op
  BY <1>4 DEF Op
<1>6. op.kind = "edit" /\ op.chan = c /\ op.seq = s /\ op.rev = r
  OBVIOUS
<1> DEFINE k == [old EXCEPT !.rev = r]
<1>7. k \in Known /\ k.rev = r /\ k.deleted = old.deleted
  BY <1>3, <1>4 DEF Known
<1> DEFINE known == [canon[c] EXCEPT ![s] = k]
<1>8. /\ known \in Seq(Known) /\ Len(known) = Len(canon[c]) /\ known[s] = k
      /\ \A i \in 1..Len(canon[c]) : i # s => known[i] = canon[c][i]
  BY <1>2, <1>3, <1>7
<1>9. canon' = [canon EXCEPT ![c] = known]
  BY <1>1
<1> HIDE DEF op, k, n, r, known, old
<1>10. /\ canon' \in [Channel -> Seq(Known)] /\ canon'[c] = known
       /\ \A d \in Channel : d # c => canon'[d] = canon[d]
  BY <1>2, <1>8, <1>9
<1>11. /\ \A d \in Channel : Len(canon'[d]) = Len(canon[d]) /\ Len(canon[d]) \in Nat
       /\ \A d \in Channel : \A i \in 1..Len(canon[d]) :
            canon'[d][i] = canon[d][i] \/ (d = c /\ i = s /\ canon'[d][i] = k)
  <2>1. \A d \in Channel : Len(canon[d]) \in Nat
    BY <1>2
  <2>2. QED
    BY Zenon, <1>8, <1>10, <2>1
<1>12. ASSUME NEW x \in Op, Settles(canon, x)
       PROVE  Settles(canon', x)
  <2>1. x.chan \in Channel /\ x.seq \in 1..Len(canon[x.chan])
    <3>1. x.chan \in Channel /\ x.seq \in Nat /\ x.seq >= 1
      BY DEF Op, Seqs
    <3>2. QED
      BY <1>11, <1>12, <3>1 DEF Settles
  <2>2. CASE canon'[x.chan][x.seq] = canon[x.chan][x.seq]
    BY Zenon, <1>11, <1>12, <2>1, <2>2 DEF Settles
  <2>3. CASE x.chan = c /\ x.seq = s /\ canon'[x.chan][x.seq] = k
    <3>1. x.kind = "edit" => x.rev <= k.rev
      <4>1. ASSUME x.kind = "edit" PROVE x.rev <= r
        <5>1. x.rev \in Nat /\ x.rev <= old.rev
          BY <1>12, <2>3, <4>1 DEF Settles, Op, old
        <5>2. QED
          BY <1>4, <5>1
      <4>2. QED
        BY <1>7, <4>1
    <3>2. x.kind = "delete" => k.deleted
      BY Zenon, <1>7, <1>12, <2>3 DEF Settles, old
    <3>3. x.seq <= Len(canon'[x.chan])
      BY Zenon, <1>11, <1>12, <2>1 DEF Settles
    <3>4. QED
      BY Zenon, <2>3, <3>1, <3>2, <3>3 DEF Settles
  <2>4. QED
    BY Zenon, <1>11, <2>1, <2>2, <2>3
<1>13. Settles(canon', op)
  BY <1>2, <1>3, <1>4, <1>6, <1>7, <1>8, <1>10 DEF Settles
<1>14. Follows(feed', n + 1)
  <2>1. /\ feed'[n + 1] = op /\ (n + 1) - 1 = n
        /\ \A i \in 1..n : feed'[i] = feed[i]
    BY <1>1, <1>2, <1>5, FeedGrows DEF n
  <2>2. ASSUME NEW i \in 1..n
        PROVE  /\ ~OpOn(feed[i], "delete", c, s)
               /\ OpOn(feed[i], "edit", c, s) => feed[i].rev < r
    <3>1. Settles(canon, feed[i]) /\ feed[i] \in Op
      BY <1>2 DEF FeedOk, n
    <3>2. ~OpOn(feed[i], "delete", c, s)
      BY Zenon, <1>1, <3>1 DEF Settles, OpOn, old
    <3>3. ASSUME OpOn(feed[i], "edit", c, s) PROVE feed[i].rev < r
      <4>1. feed[i].rev <= old.rev
        BY Zenon, <3>1, <3>3 DEF Settles, OpOn, old
      <4>2. feed[i].rev \in Nat
        BY <3>1, <3>3 DEF OpOn, Op
      <4>3. QED
        BY <1>4, <4>1, <4>2
    <3>4. QED
      BY <3>2, <3>3
  <2>3. r = 1 \/ \E i \in 1..n : OpOn(feed[i], "edit", c, s) /\ feed[i].rev = r - 1
    <3>1. old.rev = 0 \/ \E i \in 1..n : OpOn(feed[i], "edit", c, s) /\ feed[i].rev = old.rev
      BY Zenon, <1>3 DEF FeedOk, old, n
    <3>2. old.rev = 0 => r = 1
      BY <1>4 DEF r
    <3>3. QED
      BY Zenon, <1>4, <3>1, <3>2
  <2> DEFINE x == feed'[n + 1]
  <2>4. x.kind = "edit" /\ x.kind # "post" /\ x.chan = c /\ x.seq = s /\ x.rev = r
    BY <1>6, <2>1
  <2>5. x.rev > 0
    BY <1>4, <2>4
  <2>6. \A i \in 1..(n + 1) - 1 :
          /\ ~OpOn(feed'[i], "delete", x.chan, x.seq)
          /\ OpOn(feed'[i], "edit", x.chan, x.seq) => feed'[i].rev < x.rev
    BY <2>1, <2>2, <2>4
  <2>7. x.rev = 1 \/ \E i \in 1..(n + 1) - 1 : OpOn(feed'[i], "edit", x.chan, x.seq) /\ feed'[i].rev = x.rev - 1
    BY <2>1, <2>3, <2>4
  <2>8. QED
    BY Zenon, <2>4, <2>5, <2>6, <2>7, FollowsIf
<1>15. \A d \in Channel : \A i \in 1..Len(canon'[d]) :
           \/ canon'[d][i].rev = 0
           \/ i \in 1..Len(canon[d]) /\ canon'[d][i].rev = canon[d][i].rev
           \/ OpOn(op, "edit", d, i) /\ op.rev = canon'[d][i].rev
  BY Zenon, <1>6, <1>7, <1>11 DEF OpOn
<1>16. \A x \in Op : Settles(canon, x) => Settles(canon', x)
  BY Zenon, <1>12
<1>17. QED
  BY Zenon, <1>1, <1>5, <1>10, <1>13, <1>14, <1>15, <1>16, Applied DEF n

LEMMA DeleteFeedOk ==
  ASSUME FeedOk, NEW c \in Channel, NEW s \in Seqs, DeleteApplied(c, s)
  PROVE  FeedOk'
<1> DEFINE n == Len(feed)
           old == canon[c][s]
           op == [kind |-> "delete", chan |-> c, seq |-> s]
           k == [old EXCEPT !.deleted = TRUE]
           known == [canon[c] EXCEPT ![s] = k]
<1>1. /\ feed' = Append(feed, op)
      /\ canon' = [canon EXCEPT ![c][s].deleted = TRUE]
      /\ s \in DOMAIN canon[c]
  BY Zenon DEF DeleteApplied, Apply
<1>2. canon[c] \in Seq(Known) /\ Len(canon[c]) \in Nat /\ canon \in [Channel -> Seq(Known)]
      /\ feed \in Seq(Op) /\ n \in Nat
  BY DEF FeedOk
<1>3. s \in 1..Len(canon[c]) /\ old \in Known
  BY <1>1, <1>2
<1>4. k \in Known /\ k.rev = old.rev /\ k.deleted
  BY <1>3 DEF Known
<1>5. op \in Op
  BY DEF Op
<1>6. op.kind = "delete" /\ op.chan = c /\ op.seq = s
  OBVIOUS
<1> HIDE DEF op, k, old
<1>7. /\ known \in Seq(Known) /\ Len(known) = Len(canon[c]) /\ known[s] = k
      /\ \A i \in 1..Len(canon[c]) : i # s => known[i] = canon[c][i]
  BY <1>2, <1>3, <1>4
<1>8. canon' = [canon EXCEPT ![c] = known]
  BY <1>1 DEF k, old
<1> HIDE DEF n, known
<1>9. /\ canon' \in [Channel -> Seq(Known)] /\ canon'[c] = known
      /\ \A d \in Channel : d # c => canon'[d] = canon[d]
  BY <1>2, <1>7, <1>8
<1>10. /\ \A d \in Channel : Len(canon'[d]) = Len(canon[d]) /\ Len(canon[d]) \in Nat
       /\ \A d \in Channel : \A i \in 1..Len(canon[d]) :
            canon'[d][i] = canon[d][i] \/ (d = c /\ i = s /\ canon'[d][i] = k)
  <2>1. \A d \in Channel : Len(canon[d]) \in Nat
    BY <1>2
  <2>2. QED
    BY Zenon, <1>7, <1>9, <2>1
<1>11. ASSUME NEW d \in Channel, NEW i \in 1..Len(canon[d])
       PROVE  canon'[d][i].rev = canon[d][i].rev /\ (canon[d][i].deleted => canon'[d][i].deleted)
  BY Zenon, <1>4, <1>10 DEF old
<1>12. ASSUME NEW x \in Op, Settles(canon, x)
       PROVE  Settles(canon', x)
  <2>1. x.chan \in Channel /\ x.seq \in 1..Len(canon[x.chan])
    <3>1. x.chan \in Channel /\ x.seq \in Nat /\ x.seq >= 1
      BY DEF Op, Seqs
    <3>2. QED
      BY <1>10, <1>12, <3>1 DEF Settles
  <2>2. QED
    BY Zenon, <1>10, <1>11, <1>12, <2>1 DEF Settles
<1>13. Settles(canon', op)
  BY <1>2, <1>3, <1>4, <1>6, <1>7, <1>9 DEF Settles
<1>14. Follows(feed', n + 1)
  <2>1. feed'[n + 1] = op /\ op.kind # "post" /\ op.kind # "edit"
    BY <1>1, <1>2, <1>5, <1>6, FeedGrows DEF n
  <2>2. QED
    BY Zenon, <2>1 DEF Follows
<1>15. \A d \in Channel : \A i \in 1..Len(canon'[d]) :
           \/ canon'[d][i].rev = 0
           \/ i \in 1..Len(canon[d]) /\ canon'[d][i].rev = canon[d][i].rev
           \/ OpOn(op, "edit", d, i) /\ op.rev = canon'[d][i].rev
  BY Zenon, <1>10, <1>11
<1>16. \A x \in Op : Settles(canon, x) => Settles(canon', x)
  BY Zenon, <1>12
<1>17. QED
  BY Zenon, <1>1, <1>5, <1>9, <1>13, <1>14, <1>15, <1>16, Applied DEF n

LEMMA ReactFeedOk ==
  ASSUME FeedOk, NEW c \in Channel, NEW s \in Seqs, NEW e \in Emoji, NEW p \in Party, NEW a \in BOOLEAN,
         ReactApplied(c, s, e, p, a)
  PROVE  FeedOk'
<1> DEFINE n == Len(feed)
           op == [kind |-> "react", chan |-> c, seq |-> s, emoji |-> e, who |-> p, added |-> a]
<1>1. feed' = Append(feed, op) /\ canon' = canon /\ s \in DOMAIN canon[c]
  BY Zenon DEF ReactApplied, Apply
<1>2. /\ canon[c] \in Seq(Known) /\ Len(canon[c]) \in Nat /\ canon \in [Channel -> Seq(Known)]
      /\ feed \in Seq(Op) /\ n \in Nat
  BY DEF FeedOk
<1>3. op \in Op /\ op.kind = "react" /\ op.chan = c /\ op.seq = s
  BY DEF Op
<1> HIDE DEF op, n
<1>4. Settles(canon', op)
  BY <1>1, <1>2, <1>3 DEF Settles
<1>5. Follows(feed', n + 1)
  <2>1. feed'[n + 1] = op /\ op.kind # "post" /\ op.kind # "edit"
    BY <1>1, <1>2, <1>3, FeedGrows DEF n
  <2>2. QED
    BY Zenon, <2>1 DEF Follows
<1>6. QED
  BY Zenon, <1>1, <1>2, <1>3, <1>4, <1>5, Applied DEF n

(* A step of the feed keeps it in order, and what was applied before.       *)
LEMMA FeedStepOk ==
  ASSUME FeedOk, FeedStep
  PROVE  FeedOk' /\ \E op \in Op : feed' = Append(feed, op)
<1>1. FeedOk'
  BY Zenon, PostFeedOk, EditFeedOk, DeleteFeedOk, ReactFeedOk DEF FeedStep
<1>2. PICK op : feed' = Append(feed, op)
  BY Zenon DEF FeedStep, PostApplied, EditApplied, DeleteApplied, ReactApplied, Apply
<1>3. feed \in Seq(Op) /\ feed' \in Seq(Op) /\ Len(feed) \in Nat
  BY <1>1 DEF FeedOk
<1>4. op \in Op
  <2>1. Len(Append(feed, op)) = Len(feed) + 1 /\ Append(feed, op)[Len(feed) + 1] = op
    BY <1>3
  <2>2. Len(feed) + 1 \in 1..Len(feed')
    BY <1>2, <1>3, <2>1
  <2>3. QED
    BY <1>2, <1>3, <2>1, <2>2
<1>5. QED
  BY Zenon, <1>1, <1>2, <1>4

------------------------------------------------------------------------------
(* The fold.                                                                *)

(* The greatest of some numbers is known by being one and greatest.         *)
LEMMA MaxOfIs ==
  ASSUME NEW S \in SUBSET Nat, NEW m \in S, \A x \in S : x <= m
  PROVE  MaxOf(S) = m
<1>1. \A y \in S : (\A x \in S : x <= y) => y = m
  <2>1. ASSUME NEW y \in S, \A x \in S : x <= y PROVE y = m
    <3>1. m <= y /\ y <= m /\ m \in Nat /\ y \in Nat
      BY <2>1
    <3>2. QED
      BY <3>1
  <2>2. QED
    BY <2>1
<1>2. QED
  BY <1>1 DEF MaxOf

(* The head of a message after one operation more: another message's, a     *)
(* reaction's or a deletion's, the next edit, or the post itself.           *)
LEMMA HeadKept ==
  ASSUME NEW f, NEW n \in Nat, NEW c, NEW s, NEW r, NEW r2,
         HeadOf(f, n, c, s, r), r2.rev = r.rev,
         r2.deleted => r.deleted \/ OpOn(f[n + 1], "delete", c, s),
         ~OpOn(f[n + 1], "edit", c, s)
  PROVE  HeadOf(f, n + 1, c, s, r2)
<1>1. /\ \A i \in 1..n : i \in 1..n + 1
      /\ \A i \in 1..n + 1 : i \in 1..n \/ i = n + 1
      /\ n + 1 \in 1..n + 1
  OBVIOUS
<1>2. \E i \in 1..n + 1 : OpOn(f[i], "post", c, s)
  BY Zenon, <1>1 DEF HeadOf
<1>3. \A i \in 1..n + 1 : OpOn(f[i], "edit", c, s) => f[i].rev <= r2.rev
  BY Zenon, <1>1 DEF HeadOf
<1>4. r2.rev = 0 \/ \E i \in 1..n + 1 : OpOn(f[i], "edit", c, s) /\ f[i].rev = r2.rev
  BY Zenon, <1>1 DEF HeadOf
<1>5. r2.deleted => \E i \in 1..n + 1 : OpOn(f[i], "delete", c, s)
  BY Zenon, <1>1 DEF HeadOf
<1>6. QED
  BY Zenon, <1>2, <1>3, <1>4, <1>5 DEF HeadOf

LEMMA HeadEdited ==
  ASSUME NEW f \in Seq(Op), NEW n \in Nat, n < Len(f), NEW c, NEW s, NEW r, NEW r2,
         HeadOf(f, n, c, s, r), r.rev \in Nat,
         Follows(f, n + 1), OpOn(f[n + 1], "edit", c, s),
         r2.rev = f[n + 1].rev, r2.deleted = r.deleted
  PROVE  ~r.deleted /\ f[n + 1].rev = r.rev + 1 /\ HeadOf(f, n + 1, c, s, r2)
<1> DEFINE new == f[n + 1].rev
<1>1. /\ \A i \in 1..n : i \in 1..n + 1
      /\ \A i \in 1..n + 1 : i \in 1..n \/ i = n + 1
      /\ n + 1 \in 1..n + 1 /\ (n + 1) - 1 = n
      /\ \A i \in 1..n + 1 : f[i] \in Op
  BY n + 1 <= Len(f), Len(f) \in Nat
<1>2. \A i \in 1..n + 1 : OpOn(f[i], "edit", c, s) => f[i].rev \in Nat
  BY <1>1 DEF OpOn, Op
<1>3. /\ new > 0 /\ new \in Nat
      /\ \A i \in 1..n : ~OpOn(f[i], "delete", c, s)
      /\ \A i \in 1..n : OpOn(f[i], "edit", c, s) => f[i].rev < new
      /\ new = 1 \/ \E i \in 1..n : OpOn(f[i], "edit", c, s) /\ f[i].rev = new - 1
  <2>1. f[n + 1].kind = "edit" /\ f[n + 1].chan = c /\ f[n + 1].seq = s
    BY DEF OpOn
  <2>2. new \in Nat
    BY <1>1, <1>2
  <2>3. QED
    BY <1>1, <2>1, <2>2 DEF Follows
<1>4. ~r.deleted
  BY Zenon, <1>3 DEF HeadOf
<1>5. new = r.rev + 1
  <2>1. r.rev < new
    <3>1. CASE r.rev = 0
      BY <1>3, <3>1
    <3>2. CASE r.rev # 0
      BY Zenon, <1>3, <3>2 DEF HeadOf
    <3>3. QED
      BY <3>1, <3>2
  <2>2. new - 1 <= r.rev
    <3>1. CASE new = 1
      BY <3>1
    <3>2. CASE new # 1
      <4>1. PICK i \in 1..n : OpOn(f[i], "edit", c, s) /\ f[i].rev = new - 1
        BY Zenon, <1>3, <3>2
      <4>2. f[i].rev <= r.rev
        BY Zenon, <4>1 DEF HeadOf
      <4>3. QED
        BY <4>1, <4>2
    <3>3. QED
      BY <3>1, <3>2
  <2>3. QED
    BY <1>3, <2>1, <2>2
<1>6. \A i \in 1..n + 1 : OpOn(f[i], "edit", c, s) => f[i].rev <= new
  <2>1. ASSUME NEW i \in 1..n + 1, OpOn(f[i], "edit", c, s) PROVE f[i].rev <= new
    <3>1. CASE i = n + 1
      BY <1>3, <3>1
    <3>2. CASE i \in 1..n
      <4>1. f[i].rev < new /\ f[i].rev \in Nat
        BY Zenon, <1>2, <1>3, <2>1, <3>2
      <4>2. QED
        BY <1>3, <4>1
    <3>3. QED
      BY Zenon, <1>1, <3>1, <3>2
  <2>2. QED
    BY Zenon, <2>1
<1>7. HeadOf(f, n + 1, c, s, r2)
  <2>1. \E i \in 1..n + 1 : OpOn(f[i], "post", c, s)
    BY Zenon, <1>1 DEF HeadOf
  <2>2. r2.rev = new /\ ~r2.deleted
    BY Zenon, <1>4
  <2>3. QED
    BY Zenon, <1>1, <1>6, <2>1, <2>2 DEF HeadOf
<1>8. QED
  BY <1>4, <1>5, <1>7

LEMMA HeadPosted ==
  ASSUME NEW f \in Seq(Op), NEW n \in Nat, n < Len(f), NEW c, NEW s, NEW r,
         Follows(f, n + 1), OpOn(f[n + 1], "post", c, s), r.rev = 0, ~r.deleted
  PROVE  /\ HeadOf(f, n + 1, c, s, r)
         /\ \A i \in 1..n : f[i].chan = c => f[i].seq < s /\ f[i].seq # s
<1>1. /\ \A i \in 1..n + 1 : i \in 1..n \/ i = n + 1
      /\ n + 1 \in 1..n + 1 /\ (n + 1) - 1 = n
      /\ \A i \in 1..n + 1 : f[i] \in Op
  BY n + 1 <= Len(f), Len(f) \in Nat
<1>2. f[n + 1].kind = "post" /\ f[n + 1].chan = c /\ f[n + 1].seq = s
  BY DEF OpOn
<1>3. \A i \in 1..n + 1 : f[i].seq \in Nat
  BY <1>1, ChatAssumption DEF Op, Seqs
<1>4. \A i \in 1..n : f[i].chan = c => f[i].seq < s
  BY <1>1, <1>2 DEF Follows
<1>5. \A i \in 1..n : f[i].chan = c => f[i].seq # s
  <2>1. \A i \in 1..n : i \in 1..n + 1
    OBVIOUS
  <2>2. QED
    BY <1>3, <1>4, <2>1
<1>6. \A i \in 1..n + 1 : ~OpOn(f[i], "edit", c, s)
  <2>1. "post" # "edit"
    OBVIOUS
  <2>2. QED
    BY Zenon, <1>1, <1>2, <1>5, <2>1 DEF OpOn
<1>7. HeadOf(f, n + 1, c, s, r)
  BY Zenon, <1>1, <1>6 DEF HeadOf
<1>8. QED
  BY Zenon, <1>4, <1>5, <1>7

(* A message's words or labels are reposted, and no other message's.        *)
LEMMA RepostedIs ==
  ASSUME NEW c \in Channel, NEW s \in Seqs, NEW Word, NEW posts, posts \subseteq Word \X Channel \X Seqs,
         NEW from \in SUBSET Word, NEW to \in SUBSET Word,
         \A w \in Word : <<w, c, s>> \in posts <=> w \in from
  PROVE  /\ Reposted(posts, c, s, from, to) \subseteq Word \X Channel \X Seqs
         /\ \A w \in Word, d \in Channel, x \in Seqs :
              <<w, d, x>> \in Reposted(posts, c, s, from, to)
                <=> IF <<d, x>> = <<c, s>> THEN w \in to ELSE <<w, d, x>> \in posts
<1>1. Reposted(posts, c, s, from, to) \subseteq Word \X Channel \X Seqs
  BY DEF Reposted
<1>2. ASSUME NEW w \in Word, NEW d \in Channel, NEW x \in Seqs
      PROVE  <<w, d, x>> \in Reposted(posts, c, s, from, to)
               <=> IF <<d, x>> = <<c, s>> THEN w \in to ELSE <<w, d, x>> \in posts
  <2>1. \A v : <<w, d, x>> = <<v, c, s>> <=> w = v /\ d = c /\ x = s
    OBVIOUS
  <2>2. <<d, x>> = <<c, s>> <=> d = c /\ x = s
    OBVIOUS
  <2>3. <<w, d, x>> \in Reposted(posts, c, s, from, to)
          <=> \/ <<w, d, x>> \in posts /\ ~(d = c /\ x = s /\ w \in from)
              \/ d = c /\ x = s /\ w \in to
    BY <2>1 DEF Reposted
  <2>4. d = c /\ x = s /\ <<w, d, x>> \in posts => w \in from
    OBVIOUS
  <2>5. QED
    BY Zenon, <2>2, <2>3, <2>4
<1>3. QED
  BY <1>1, <1>2

(* Postings and counts follow the text of one message from old to new.      *)
LEMMA PostingsStep ==
  ASSUME PostingsOk, NEW c \in Channel, NEW s \in Seqs,
         NEW old \in Body \cup {Empty}, NEW new \in Body \cup {Empty},
         BodyOf(row, c, s) = old, BodyOf(row', c, s) = new,
         \A d \in Channel, x \in Seqs : <<d, x>> # <<c, s>> => BodyOf(row', d, x) = BodyOf(row, d, x),
         Retokenised(c, s, old, new)
  PROVE  PostingsOk'
<1>1. /\ tok' = Reposted(tok, c, s, old.tokens, new.tokens)
      /\ tag' = Reposted(tag, c, s, old.tags, new.tags)
      /\ cat' = [cat EXCEPT ![c] = Recounted(@, old.tags, new.tags)]
  BY Zenon DEF Retokenised
<1>2. /\ old.tokens \subseteq Token /\ old.tags \subseteq Label
      /\ new.tokens \subseteq Token /\ new.tags \subseteq Label
  BY ChatAssumption DEF Empty
<1>3. /\ tok' \subseteq Token \X Channel \X Seqs
      /\ \A w \in Token, d \in Channel, x \in Seqs :
           <<w, d, x>> \in tok' <=> IF <<d, x>> = <<c, s>> THEN w \in new.tokens ELSE <<w, d, x>> \in tok
  <2>1. tok \subseteq Token \X Channel \X Seqs /\ \A w \in Token : <<w, c, s>> \in tok <=> w \in old.tokens
    BY Zenon DEF PostingsOk
  <2>2. QED
    BY <1>1, <1>2, <2>1, RepostedIs
<1>4. /\ tag' \subseteq Label \X Channel \X Seqs
      /\ \A w \in Label, d \in Channel, x \in Seqs :
           <<w, d, x>> \in tag' <=> IF <<d, x>> = <<c, s>> THEN w \in new.tags ELSE <<w, d, x>> \in tag
  <2>1. tag \subseteq Label \X Channel \X Seqs /\ \A w \in Label : <<w, c, s>> \in tag <=> w \in old.tags
    BY Zenon DEF PostingsOk
  <2>2. QED
    BY <1>1, <1>2, <2>1, RepostedIs
<1>5. ASSUME NEW d \in Channel, NEW x \in Seqs
      PROVE  /\ \A w \in Token : <<w, d, x>> \in tok' <=> w \in BodyOf(row', d, x).tokens
             /\ \A l \in Label : <<l, d, x>> \in tag' <=> l \in BodyOf(row', d, x).tags
  <2>1. CASE <<d, x>> = <<c, s>>
    <3>1. d = c /\ x = s
      BY <2>1
    <3>2. BodyOf(row', d, x) = new
      BY Zenon, <3>1
    <3>3. QED
      BY Zenon, <1>3, <1>4, <2>1, <3>2
  <2>2. CASE <<d, x>> # <<c, s>>
    <3>1. BodyOf(row', d, x) = BodyOf(row, d, x)
      BY Zenon, <2>2
    <3>2. /\ \A w \in Token : <<w, d, x>> \in tok <=> w \in BodyOf(row, d, x).tokens
          /\ \A l \in Label : <<l, d, x>> \in tag <=> l \in BodyOf(row, d, x).tags
      BY Zenon DEF PostingsOk
    <3>3. QED
      BY Zenon, <1>3, <1>4, <2>2, <3>1, <3>2
  <2>3. QED
    BY Zenon, <2>1, <2>2
<1>6. /\ cat \in [Channel -> [Label -> Nat]]
      /\ \A d \in Channel, l \in Label : cat[d][l] = Cardinality(Tagged(row, d, l))
  BY Zenon DEF PostingsOk
<1> DEFINE counts == Recounted(cat[c], old.tags, new.tags)
<1>7. counts \in [Label -> Nat] /\ \A l \in Label :
        counts[l] = IF l \in new.tags \ old.tags THEN cat[c][l] + 1
                    ELSE IF l \in old.tags \ new.tags /\ cat[c][l] > 0 THEN cat[c][l] - 1
                    ELSE cat[c][l]
  <2>1. cat[c] \in [Label -> Nat]
    BY <1>6
  <2>2. \A l \in Label : cat[c][l] \in Nat
    BY <2>1
  <2>3. QED
    BY <2>2 DEF Recounted
<1>8. cat' = [cat EXCEPT ![c] = counts]
  BY <1>1
<1> HIDE DEF counts
<1>9. /\ cat' \in [Channel -> [Label -> Nat]] /\ cat'[c] = counts
       /\ \A d \in Channel : d # c => cat'[d] = cat[d]
  BY <1>6, <1>7, <1>8
<1>10. ASSUME NEW d \in Channel, NEW l \in Label
       PROVE  cat'[d][l] = Cardinality(Tagged(row', d, l))
  <2> DEFINE before == Tagged(row, d, l)
             after == Tagged(row', d, l)
  <2>1. cat[d][l] = Cardinality(before) /\ cat[d][l] \in Nat
    <3>1. cat[d] \in [Label -> Nat]
      BY <1>6
    <3>2. QED
      BY <1>6, <3>1
  <2>2. IsFiniteSet(before)
    <3>1. IsFiniteSet(Seqs) /\ before \subseteq Seqs
      BY FS_Interval, ChatAssumption DEF Seqs, Tagged
    <3>2. QED
      BY <3>1, FS_Subset
  <2>3. CASE d # c
    <3>1. after = before
      <4>1. \A x \in Seqs : BodyOf(row', d, x) = BodyOf(row, d, x)
        <5>1. \A x : <<d, x>> # <<c, s>>
          BY <2>3
        <5>2. QED
          BY Zenon, <5>1
      <4>2. QED
        BY <4>1 DEF Tagged
    <3>2. QED
      BY Zenon, <1>9, <2>1, <2>3, <3>1
  <2>4. CASE d = c
    <3>1. \A x \in Seqs : x # s => BodyOf(row', c, x) = BodyOf(row, c, x)
      <4>1. \A x : x # s => <<c, x>> # <<c, s>>
        OBVIOUS
      <4>2. QED
        BY Zenon, <4>1
    <3>2. /\ \A x \in Seqs : x # s => (x \in after <=> x \in before)
          /\ s \in after <=> l \in new.tags
          /\ s \in before <=> l \in old.tags
          /\ before \subseteq Seqs /\ after \subseteq Seqs
      BY Zenon, <2>4, <3>1 DEF Tagged
    <3> HIDE DEF before, after
    <3>3. CASE l \in new.tags \ old.tags
      <4>1. after = before \cup {s} /\ s \notin before
        BY <3>2, <3>3
      <4>2. Cardinality(after) = Cardinality(before) + 1
        BY <2>2, <4>1, FS_AddElement
      <4>3. QED
        BY <1>7, <1>9, <2>1, <2>4, <3>3, <4>2 DEF after
    <3>4. CASE l \in old.tags \ new.tags
      <4>1. after = before \ {s} /\ s \in before
        BY <3>2, <3>4
      <4>2. Cardinality(after) = Cardinality(before) - 1 /\ Cardinality(before) # 0
        BY <2>2, <4>1, FS_RemoveElement, FS_EmptySet
      <4>3. QED
        BY <1>7, <1>9, <2>1, <2>4, <3>4, <4>2 DEF after
    <3>5. CASE l \in new.tags <=> l \in old.tags
      <4>1. after = before
        BY <3>2, <3>5
      <4>2. QED
        BY <1>7, <1>9, <2>1, <2>4, <3>5, <4>1 DEF after
    <3>6. QED
      BY <3>3, <3>4, <3>5
  <2>5. QED
    BY <2>3, <2>4
<1>11. QED
  BY Zenon, <1>3, <1>4, <1>5, <1>9, <1>10 DEF PostingsOk

(* The operation a fold is about, and what stays as it is.                  *)
LEMMA FoldFacts ==
  ASSUME FeedOk, RowsOk, NEW kind, FoldNext(kind)
  PROVE  LET op == feed[tip + 1] IN
         /\ tip \in Nat /\ tip < Len(feed) /\ Len(feed) \in Nat /\ feed \in Seq(Op)
         /\ op \in Op /\ op.kind = kind /\ op.chan \in Channel /\ op.seq \in Seqs
         /\ Follows(feed, tip + 1)
         /\ feed' = feed /\ FeedOk' /\ tip' = tip + 1 /\ tip' \in 0..Len(feed)
         /\ row' = [row EXCEPT ![op.chan] = RowsAfter(row[op.chan], op)]
         /\ row[op.chan] \in Rows
<1> DEFINE op == feed[tip + 1]
<1>1. /\ tip < Len(feed) /\ op.kind = kind /\ tip' = tip + 1
      /\ row' = [row EXCEPT ![op.chan] = RowsAfter(@, op)]
      /\ feed' = feed /\ canon' = canon
  BY Zenon DEF FoldNext, source
<1>2. /\ feed \in Seq(Op) /\ Len(feed) \in Nat /\ tip \in 0..Len(feed)
      /\ row \in [Channel -> Rows]
  BY DEF FeedOk, RowsOk
<1>3. tip \in Nat /\ tip + 1 \in 1..Len(feed) /\ tip' \in 0..Len(feed)
  BY <1>1, <1>2
<1>4. op \in Op /\ Follows(feed, tip + 1)
  BY <1>2, <1>3 DEF FeedOk
<1>5. op.chan \in Channel /\ op.seq \in Seqs
  BY <1>4 DEF Op
<1>6. FeedOk'
  BY Zenon, <1>1 DEF FeedOk
<1>7. row[op.chan] \in Rows
  BY <1>2, <1>5
<1>8. row' = [row EXCEPT ![op.chan] = RowsAfter(row[op.chan], op)]
  BY <1>1
<1>9. QED
  BY Zenon, <1>1, <1>2, <1>3, <1>4, <1>5, <1>6, <1>7, <1>8

(* The heads of a channel after an operation, by its kind.                  *)
LEMMA RowsAfterIs ==
  ASSUME NEW rows, NEW op, NEW old, old = rows[op.seq]
  PROVE  /\ op.kind = "post" => RowsAfter(rows, op) = [Summarised(rows, op) EXCEPT ![op.seq] = Posted(op)]
         /\ op.kind = "edit" =>
              RowsAfter(rows, op) = IF old = None \/ old.deleted THEN rows
                                    ELSE [rows EXCEPT ![op.seq] = Edited(old, op)]
         /\ op.kind = "delete" =>
              RowsAfter(rows, op) = IF old = None THEN rows ELSE [rows EXCEPT ![op.seq] = Tombstone(old)]
         /\ op.kind = "react" =>
              RowsAfter(rows, op) = IF old = None THEN rows ELSE [rows EXCEPT ![op.seq] = Reacted(old, op)]
<1>1. CASE op.kind = "post"
  BY <1>1 DEF RowsAfter, Skipped
<1>2. CASE op.kind = "edit"
  BY <1>2 DEF RowsAfter, Skipped
<1>3. CASE op.kind = "delete"
  BY <1>3 DEF RowsAfter, Skipped
<1>4. CASE op.kind = "react"
  BY <1>4 DEF RowsAfter, Skipped
<1>5. QED
  BY <1>1, <1>2, <1>3, <1>4

(* An edit, a deletion and a reaction rewrite the head of their message at  *)
(* most, and leave its summary of replies.                                  *)
LEMMA Rewritten ==
  ASSUME FeedOk, RowsOk, RepliesOk, NEW c \in Channel, NEW s \in Seqs,
         tip < Len(feed), feed' = feed, tip' = tip + 1, reply' = reply,
         feed[tip + 1].chan = c, feed[tip + 1].seq = s,
         row' \in [Channel -> Rows],
         OthersKept(c, s),
         row'[c][s] # None =>
           /\ row[c][s] # None /\ HeadOf(feed, tip + 1, c, s, row'[c][s])
           /\ row'[c][s].replies = row[c][s].replies /\ row'[c][s].last = row[c][s].last
  PROVE  RowsOk' /\ RepliesOk'
<1>1. tip \in Nat /\ Len(feed) \in Nat /\ tip' \in 0..Len(feed') /\ \A i \in 1..tip : i \in 1..tip + 1
  BY DEF FeedOk, RowsOk
<1>2. ASSUME NEW d \in Channel, NEW x \in Seqs, row'[d][x] # None
      PROVE  HeadOf(feed', tip', d, x, row'[d][x])
  <2>1. CASE <<d, x>> = <<c, s>>
    <3>1. d = c /\ x = s
      BY <2>1
    <3>2. QED
      BY Zenon, <1>2, <3>1
  <2>2. CASE <<d, x>> # <<c, s>>
    <3>1. row'[d][x] = row[d][x]
      BY Zenon, <2>2 DEF OthersKept
    <3>2. HeadOf(feed, tip, d, x, row[d][x])
      BY Zenon, <1>2, <3>1 DEF RowsOk
    <3>3. ~OpOn(feed[tip + 1], "edit", d, x)
      <4>1. d # c \/ x # s
        BY <2>2
      <4>2. QED
        BY Zenon, <4>1 DEF OpOn
    <3>4. HeadOf(feed, tip + 1, d, x, row[d][x])
      BY Zenon, <1>1, <3>2, <3>3, HeadKept
    <3>5. QED
      BY Zenon, <3>1, <3>4
  <2>3. QED
    BY Zenon, <2>1, <2>2
<1>3. RowsOk'
  BY Zenon, <1>1, <1>2 DEF RowsOk
<1>4. ASSUME NEW z \in reply
      PROVE  \E i \in 1..tip + 1 : OpOn(feed[i], "post", z[1], z[3]) /\ feed[i].thread = z[2]
  BY Zenon, <1>1 DEF RepliesOk
<1>5. ASSUME NEW d \in Channel, NEW x \in Seqs, row'[d][x] # None
      PROVE  /\ row'[d][x].replies = Cardinality(Markers(d, x)')
             /\ row'[d][x].last = MaxOf(Markers(d, x)' \cup {0})
  <2>1. Markers(d, x)' = Markers(d, x)
    <3>1. x # 0
      BY ChatAssumption DEF Seqs
    <3>2. QED
      BY Zenon, <3>1 DEF Markers
  <2>2. row[d][x] # None /\ row'[d][x].replies = row[d][x].replies /\ row'[d][x].last = row[d][x].last
    <3>1. CASE <<d, x>> = <<c, s>>
      <4>1. d = c /\ x = s
        BY <3>1
      <4>2. QED
        BY Zenon, <1>5, <4>1
    <3>2. CASE <<d, x>> # <<c, s>>
      BY Zenon, <1>5, <3>2 DEF OthersKept
    <3>3. QED
      BY Zenon, <3>1, <3>2
  <2>3. /\ row[d][x].replies = Cardinality(Markers(d, x))
        /\ row[d][x].last = MaxOf(Markers(d, x) \cup {0})
    BY Zenon, <2>2 DEF RepliesOk
  <2>4. QED
    BY <2>1, <2>2, <2>3
<1>6. RepliesOk'
  BY Zenon, <1>4, <1>5 DEF RepliesOk
<1>7. QED
  BY <1>3, <1>6

(* No text changes, no posting does.                                        *)
LEMMA PostingsSame ==
  ASSUME PostingsOk, UNCHANGED <<tok, tag, cat>>,
         \A d \in Channel, x \in Seqs : BodyOf(row', d, x) = BodyOf(row, d, x)
  PROVE  PostingsOk'
<1>1. \A d \in Channel, l \in Label : Tagged(row', d, l) = Tagged(row, d, l)
  BY DEF Tagged
<1>2. tok' = tok /\ tag' = tag /\ cat' = cat
  OBVIOUS
<1>3. QED
  BY Zenon, <1>1, <1>2 DEF PostingsOk

(* No message gets another revision, no history does; a new one has none.   *)
LEMMA HistSame ==
  ASSUME HistOk, hist' = hist,
         \A d \in Channel, x \in Seqs : row'[d][x] # None =>
           row'[d][x].rev = IF row[d][x] # None THEN row[d][x].rev ELSE 0,
         \A d \in Channel, x \in Seqs : row[d][x] # None => row'[d][x] # None
  PROVE  HistOk'
<1>1. \A d, x : Past(d, x)' = Past(d, x)
  BY Zenon DEF Past
<1>2. \A h \in hist : h.chan \in Channel /\ h.seq \in Seqs
  BY DEF HistOk, Revision
<1>3. \A h \in hist' : row'[h.chan][h.seq] # None
  BY Zenon, <1>2 DEF HistOk
<1>4. ASSUME NEW d \in Channel, NEW x \in Seqs, row'[d][x] # None
      PROVE  /\ IsFiniteSet(Past(d, x)') /\ Cardinality(Past(d, x)') = row'[d][x].rev
             /\ {h.rev : h \in Past(d, x)'} = 0..row'[d][x].rev - 1
  <2>1. CASE row[d][x] # None
    <3>1. row'[d][x].rev = row[d][x].rev /\ Past(d, x)' = Past(d, x)
      BY Zenon, <1>1, <1>4, <2>1
    <3>2. /\ IsFiniteSet(Past(d, x)) /\ Cardinality(Past(d, x)) = row[d][x].rev
          /\ {h.rev : h \in Past(d, x)} = 0..row[d][x].rev - 1
      BY Zenon, <2>1 DEF HistOk
    <3>3. QED
      BY Zenon, <3>1, <3>2
  <2>2. CASE row[d][x] = None
    <3>1. row'[d][x].rev = 0
      BY Zenon, <1>4, <2>2
    <3>2. Past(d, x)' = {}
      BY Zenon, <1>1, <2>2 DEF HistOk, Past
    <3>3. {h.rev : h \in {}} = 0..0 - 1
      OBVIOUS
    <3>4. QED
      BY <3>1, <3>2, <3>3, FS_EmptySet
  <2>3. QED
    BY Zenon, <2>1, <2>2
<1>5. hist' \subseteq Revision
  BY Zenon DEF HistOk
<1>6. QED
  BY Zenon, <1>3, <1>4, <1>5 DEF HistOk

(* An operation that replaces one head of its channel keeps the others.     *)
LEMMA HeadReplaced ==
  ASSUME RowsOk, NEW c \in Channel, NEW s \in Seqs, NEW op, NEW new \in Row \cup {None},
         row' = [row EXCEPT ![c] = RowsAfter(row[c], op)],
         RowsAfter(row[c], op) = [row[c] EXCEPT ![s] = new]
  PROVE  row' \in [Channel -> Rows] /\ row'[c][s] = new /\ OthersKept(c, s)
<1> DEFINE rows == RowsAfter(row[c], op)
<1> HIDE DEF rows
<1>1. row \in [Channel -> Rows] /\ row' = [row EXCEPT ![c] = rows]
  BY Zenon DEF RowsOk, rows
<1>2. rows \in Rows /\ rows[s] = new /\ \A x \in Seqs : x # s => rows[x] = row[c][x]
  <2>1. rows = [row[c] EXCEPT ![s] = new] /\ row[c] \in Rows
    BY <1>1 DEF rows
  <2>2. QED
    BY <2>1 DEF Rows
<1>3. /\ row' \in [Channel -> Rows] /\ row'[c] = rows
      /\ \A d \in Channel : d # c => row'[d] = row[d]
  BY <1>1, <1>2
<1>4. \A d, x : <<d, x>> # <<c, s>> => d # c \/ x # s
  OBVIOUS
<1>5. QED
  BY Zenon, <1>2, <1>3, <1>4 DEF OthersKept

LEMMA FoldReactInv ==
  ASSUME IndexInv, FoldReact
  PROVE  IndexInv'
<1> DEFINE op == feed[tip + 1]
           c == op.chan
           s == op.seq
           old == row[c][s]
           new == Reacted(old, op)
<1>1. /\ FeedOk /\ RowsOk /\ RepliesOk /\ HistOk /\ PostingsOk
      /\ FoldNext("react") /\ UNCHANGED <<head, msgid, root, reply, hist, tok, tag, cat>>
  BY Zenon DEF IndexInv, FoldReact
<1>2. /\ tip \in Nat /\ tip < Len(feed) /\ op \in Op /\ op.kind = "react" /\ c \in Channel /\ s \in Seqs
      /\ feed' = feed /\ FeedOk' /\ tip' = tip + 1
      /\ row' = [row EXCEPT ![c] = RowsAfter(row[c], op)]
      /\ row[c] \in Rows
  BY <1>1, FoldFacts
<1>3. op.emoji \in Emoji /\ op.who \in Party
  BY <1>2 DEF Op
<1> HIDE DEF op, c, s
<1>4. /\ old # None => new \in Row /\ new # None /\ new.rev = old.rev /\ new.deleted = old.deleted
                       /\ new.replies = old.replies /\ new.last = old.last /\ new.body = old.body
  <2>1. ASSUME old # None
        PROVE  new \in Row /\ new.rev = old.rev /\ new.deleted = old.deleted
               /\ new.replies = old.replies /\ new.last = old.last /\ new.body = old.body
    <3>1. old \in Row
      BY <1>2, <2>1 DEF Rows
    <3> DEFINE reacts == IF op.added THEN old.reacts \cup {<<op.emoji, op.who>>} ELSE old.reacts \ {<<op.emoji, op.who>>}
    <3>2. new = [old EXCEPT !.reacts = reacts]
      BY DEF Reacted
    <3>3. reacts \in SUBSET (Emoji \X Party)
      BY <1>3, <3>1 DEF Row
    <3> HIDE DEF reacts, new, old
    <3>4. QED
      BY <3>1, <3>2, <3>3 DEF Row
  <2>2. QED
    BY Zenon, <2>1, ChatAssumption
<1> DEFINE head2 == IF old = None THEN None ELSE new
<1>5. head2 \in Row \cup {None} /\ RowsAfter(row[c], op) = [row[c] EXCEPT ![s] = head2]
  <2>1. old = row[c][op.seq] /\ s = op.seq /\ op.kind = "react"
    BY <1>2 DEF s
  <2> HIDE DEF old, new
  <2>2. RowsAfter(row[c], op) = IF old = None THEN row[c] ELSE [row[c] EXCEPT ![op.seq] = new]
    BY <2>1, RowsAfterIs DEF new
  <2>3. old = None => [row[c] EXCEPT ![s] = None] = row[c]
    BY <1>2, <2>1 DEF Rows
  <2>4. QED
    BY <1>4, <2>1, <2>2, <2>3
<1> HIDE DEF new, head2
<1>6. /\ row' \in [Channel -> Rows]
      /\ OthersKept(c, s)
      /\ row'[c][s] = IF old = None THEN None ELSE new
  <2>1. row' \in [Channel -> Rows] /\ row'[c][s] = head2 /\ OthersKept(c, s)
    BY Zenon, <1>1, <1>2, <1>5, HeadReplaced
  <2>2. QED
    BY Zenon, <2>1 DEF head2
<1>7. old # None => HeadOf(feed, tip + 1, c, s, new)
  <2>1. old # None => HeadOf(feed, tip, c, s, old)
    BY Zenon, <1>1, <1>2 DEF RowsOk
  <2>2. ~OpOn(op, "edit", c, s)
    BY <1>2 DEF OpOn
  <2>3. QED
    BY Zenon, <1>2, <1>4, <2>1, <2>2, HeadKept DEF op
<1>8. RowsOk' /\ RepliesOk'
  <2>1. feed[tip + 1].chan = c /\ feed[tip + 1].seq = s
    BY Zenon DEF op, c, s
  <2>2. row'[c][s] # None =>
          /\ row[c][s] # None /\ HeadOf(feed, tip + 1, c, s, row'[c][s])
          /\ row'[c][s].replies = row[c][s].replies /\ row'[c][s].last = row[c][s].last
    BY Zenon, <1>4, <1>6, <1>7
  <2>3. QED
    BY Zenon, <1>1, <1>2, <1>6, <2>1, <2>2, Rewritten
<1>9. \A d \in Channel, x \in Seqs :
        /\ row'[d][x] # None <=> row[d][x] # None
        /\ row[d][x] # None => row'[d][x].rev = row[d][x].rev /\ row'[d][x].body = row[d][x].body
  <2>1. ASSUME NEW d \in Channel, NEW x \in Seqs
        PROVE  /\ row'[d][x] # None <=> row[d][x] # None
               /\ row[d][x] # None => row'[d][x].rev = row[d][x].rev /\ row'[d][x].body = row[d][x].body
    <3>1. CASE d = c /\ x = s
      BY Zenon, <1>4, <1>6, <3>1
    <3>2. CASE ~(d = c /\ x = s)
      <4>1. <<d, x>> # <<c, s>>
        BY <3>2
      <4>2. QED
        BY Zenon, <1>6, <4>1 DEF OthersKept
    <3>3. QED
      BY Zenon, <3>1, <3>2
  <2>2. QED
    BY Zenon, <2>1
<1>10. HistOk'
  BY Zenon, <1>1, <1>9, HistSame
<1>11. PostingsOk'
  <2>1. \A d \in Channel, x \in Seqs : BodyOf(row', d, x) = BodyOf(row, d, x)
    BY Zenon, <1>9 DEF BodyOf
  <2>2. QED
    BY Zenon, <1>1, <2>1, PostingsSame
<1>12. QED
  BY Zenon, <1>2, <1>8, <1>10, <1>11 DEF IndexInv

LEMMA FoldDeleteInv ==
  ASSUME IndexInv, FoldDelete
  PROVE  IndexInv'
<1> DEFINE op == feed[tip + 1]
           c == op.chan
           s == op.seq
           old == row[c][s]
           new == Tombstone(old)
           head2 == IF old = None THEN None ELSE new
<1>1. /\ FeedOk /\ RowsOk /\ RepliesOk /\ HistOk /\ PostingsOk
      /\ FoldNext("delete") /\ UNCHANGED <<head, msgid, root, reply, hist>>
      /\ IF old = None THEN UNCHANGED <<tok, tag, cat>> ELSE Retokenised(c, s, old.body, Empty)
  BY Zenon DEF IndexInv, FoldDelete
<1>2. /\ tip \in Nat /\ tip < Len(feed) /\ op \in Op /\ op.kind = "delete" /\ c \in Channel /\ s \in Seqs
      /\ feed' = feed /\ FeedOk' /\ tip' = tip + 1
      /\ row' = [row EXCEPT ![c] = RowsAfter(row[c], op)]
      /\ row[c] \in Rows
  BY <1>1, FoldFacts
<1> HIDE DEF op, c, s
<1>3. old # None => old \in Row /\ new \in Row /\ new # None /\ new.rev = old.rev /\ new.deleted
                    /\ new.replies = old.replies /\ new.last = old.last /\ new.body = Empty
  <2>1. ASSUME old # None
        PROVE  old \in Row /\ new \in Row /\ new.rev = old.rev /\ new.deleted
               /\ new.replies = old.replies /\ new.last = old.last /\ new.body = Empty
    <3>1. old \in Row
      BY <1>2, <2>1 DEF Rows
    <3>2. new = [old EXCEPT !.deleted = TRUE, !.body = Empty, !.reacts = {}]
      BY DEF Tombstone
    <3> HIDE DEF new, old
    <3>3. QED
      BY <3>1, <3>2 DEF Row
  <2>2. QED
    BY Zenon, <2>1, ChatAssumption
<1>4. head2 \in Row \cup {None} /\ RowsAfter(row[c], op) = [row[c] EXCEPT ![s] = head2]
  <2>1. old = row[c][op.seq] /\ s = op.seq /\ op.kind = "delete"
    BY <1>2 DEF s
  <2> HIDE DEF old, new
  <2>2. RowsAfter(row[c], op) = IF old = None THEN row[c] ELSE [row[c] EXCEPT ![op.seq] = new]
    BY <2>1, RowsAfterIs DEF new
  <2>3. old = None => [row[c] EXCEPT ![s] = None] = row[c]
    BY <1>2, <2>1 DEF Rows
  <2>4. QED
    BY <1>3, <2>1, <2>2, <2>3
<1> HIDE DEF new, head2
<1>5. /\ row' \in [Channel -> Rows]
      /\ OthersKept(c, s)
      /\ row'[c][s] = IF old = None THEN None ELSE new
  <2>1. row' \in [Channel -> Rows] /\ row'[c][s] = head2 /\ OthersKept(c, s)
    BY Zenon, <1>1, <1>2, <1>4, HeadReplaced
  <2>2. QED
    BY Zenon, <2>1 DEF head2
<1>6. old # None => HeadOf(feed, tip + 1, c, s, new)
  <2>1. old # None => HeadOf(feed, tip, c, s, old)
    BY Zenon, <1>1, <1>2 DEF RowsOk
  <2>2. OpOn(op, "delete", c, s) /\ ~OpOn(op, "edit", c, s)
    BY <1>2 DEF OpOn, c, s
  <2>3. QED
    BY Zenon, <1>2, <1>3, <2>1, <2>2, HeadKept DEF op
<1>7. RowsOk' /\ RepliesOk'
  <2>1. feed[tip + 1].chan = c /\ feed[tip + 1].seq = s
    BY Zenon DEF op, c, s
  <2>2. row'[c][s] # None =>
          /\ row[c][s] # None /\ HeadOf(feed, tip + 1, c, s, row'[c][s])
          /\ row'[c][s].replies = row[c][s].replies /\ row'[c][s].last = row[c][s].last
    BY Zenon, <1>3, <1>5, <1>6
  <2>3. QED
    BY Zenon, <1>1, <1>2, <1>5, <2>1, <2>2, Rewritten
<1>8. \A d \in Channel, x \in Seqs : (d = c /\ x = s) \/ row'[d][x] = row[d][x]
  <2>1. \A d, x : (d = c /\ x = s) \/ <<d, x>> # <<c, s>>
    OBVIOUS
  <2>2. QED
    BY Zenon, <1>5, <2>1 DEF OthersKept
<1>9. HistOk'
  <2>1. \A d \in Channel, x \in Seqs :
          /\ row'[d][x] # None => row'[d][x].rev = IF row[d][x] # None THEN row[d][x].rev ELSE 0
          /\ row[d][x] # None => row'[d][x] # None
    BY Zenon, <1>3, <1>5, <1>8
  <2>2. QED
    BY Zenon, <1>1, <2>1, HistSame
<1>10. PostingsOk'
  <2>1. CASE old = None
    <3>1. \A d \in Channel, x \in Seqs : BodyOf(row', d, x) = BodyOf(row, d, x)
      BY Zenon, <1>5, <1>8, <2>1 DEF BodyOf
    <3>2. QED
      BY Zenon, <1>1, <2>1, <3>1, PostingsSame
  <2>2. CASE old # None
    <3>1. BodyOf(row, c, s) = old.body /\ BodyOf(row', c, s) = Empty
      BY Zenon, <1>3, <1>5, <2>2 DEF BodyOf
    <3>2. old.body \in Body \cup {Empty} /\ Empty \in Body \cup {Empty}
      BY <1>3, <2>2 DEF Row
    <3>3. \A d \in Channel, x \in Seqs : <<d, x>> # <<c, s>> => BodyOf(row', d, x) = BodyOf(row, d, x)
      BY Zenon, <1>5 DEF BodyOf, OthersKept
    <3>4. QED
      BY Zenon, <1>1, <1>2, <2>2, <3>1, <3>2, <3>3, PostingsStep
  <2>3. QED
    BY <2>1, <2>2
<1>11. QED
  BY Zenon, <1>2, <1>7, <1>9, <1>10 DEF IndexInv

(* A message's history grows by the head it had.                            *)
LEMMA HistGrows ==
  ASSUME HistOk, NEW c \in Channel, NEW s \in Seqs, NEW r \in Nat,
         NEW h2 \in Revision,
         h2.chan = c, h2.seq = s, h2.rev = r, hist' = hist \cup {h2},
         row[c][s] # None, row[c][s].rev = r,
         row'[c][s] # None, row'[c][s].rev = r + 1,
         OthersKept(c, s)
  PROVE  HistOk'
<1>1. /\ h2 \in Revision
      /\ h2.chan = c /\ h2.seq = s /\ h2.rev = r
  OBVIOUS
<1>2. hist' = hist \cup {h2}
  OBVIOUS
<1>3. hist \subseteq Revision
  BY Zenon DEF HistOk
<1>4. \A h \in hist : h.chan \in Channel /\ h.seq \in Seqs
  BY <1>3 DEF Revision
<1>5. \A h \in hist' : row'[h.chan][h.seq] # None
  <2>1. ASSUME NEW h \in hist PROVE row'[h.chan][h.seq] # None
    <3>1. row[h.chan][h.seq] # None
      BY Zenon DEF HistOk
    <3>2. <<h.chan, h.seq>> = <<c, s>> => h.chan = c /\ h.seq = s
      OBVIOUS
    <3>3. QED
      BY Zenon, <1>4, <3>1, <3>2 DEF OthersKept
  <2>2. QED
    BY Zenon, <1>1, <1>2, <2>1
<1>6. ASSUME NEW d \in Channel, NEW x \in Seqs, row'[d][x] # None
      PROVE  /\ IsFiniteSet(Past(d, x)') /\ Cardinality(Past(d, x)') = row'[d][x].rev
             /\ {h.rev : h \in Past(d, x)'} = 0..row'[d][x].rev - 1
  <2>1. CASE <<d, x>> = <<c, s>>
    <3>1. d = c /\ x = s
      BY <2>1
    <3> DEFINE P == Past(c, s)
    <3>2. /\ IsFiniteSet(P) /\ Cardinality(P) = r
          /\ {h.rev : h \in P} = 0..r - 1
      BY Zenon DEF HistOk
    <3>3. Past(d, x)' = P \cup {h2}
      BY <1>1, <1>2, <3>1 DEF Past
    <3> HIDE DEF P
    <3>4. h2 \notin P
      <4>1. r \notin 0..r - 1
        OBVIOUS
      <4>2. QED
        BY <1>1, <3>2, <4>1
    <3>5. IsFiniteSet(P \cup {h2}) /\ Cardinality(P \cup {h2}) = r + 1
      <4>1. IsFiniteSet(P) /\ Cardinality(P) = r
        BY <3>2
      <4>2. IsFiniteSet(P \cup {h2}) /\ Cardinality(P \cup {h2}) = Cardinality(P) + 1
        BY <3>4, <4>1, FS_AddElement
      <4>3. QED
        BY <4>1, <4>2
    <3>6. {h.rev : h \in P \cup {h2}} = 0..(r + 1) - 1
      <4>1. {h.rev : h \in P \cup {h2}} = {h.rev : h \in P} \cup {r}
        BY <1>1
      <4>2. (0..r - 1) \cup {r} = 0..(r + 1) - 1
        OBVIOUS
      <4>3. QED
        BY Zenon, <3>2, <4>1, <4>2
    <3>7. QED
      BY <3>1, <3>3, <3>5, <3>6
  <2>2. CASE <<d, x>> # <<c, s>>
    <3>1. row'[d][x] = row[d][x]
      BY Zenon, <2>2 DEF OthersKept
    <3>2. Past(d, x)' = Past(d, x)
      <4>1. ~(h2.chan = d /\ h2.seq = x)
        BY <1>1, <2>2
      <4>2. QED
        BY <1>2, <4>1 DEF Past
    <3>3. /\ IsFiniteSet(Past(d, x)) /\ Cardinality(Past(d, x)) = row[d][x].rev
          /\ {h.rev : h \in Past(d, x)} = 0..row[d][x].rev - 1
      BY Zenon, <1>6, <3>1 DEF HistOk
    <3>4. QED
      BY Zenon, <3>1, <3>2, <3>3
  <2>3. QED
    BY <2>1, <2>2
<1>7. hist' \subseteq Revision
  BY Zenon, <1>1, <1>2, <1>3
<1>8. QED
  BY Zenon, <1>5, <1>6, <1>7 DEF HistOk

LEMMA FoldEditInv ==
  ASSUME IndexInv, FoldEdit
  PROVE  IndexInv'
<1> DEFINE op == feed[tip + 1]
           c == op.chan
           s == op.seq
           old == row[c][s]
           new == Edited(old, op)
           head2 == IF old = None THEN None ELSE new
<1>1. /\ FeedOk /\ RowsOk /\ RepliesOk /\ HistOk /\ PostingsOk
      /\ FoldNext("edit") /\ UNCHANGED <<head, msgid, root, reply>>
      /\ IF old = None \/ old.deleted
         THEN UNCHANGED <<hist, tok, tag, cat>>
         ELSE hist' = Archived(op, old) /\ Retokenised(c, s, old.body, op.body)
  BY Zenon DEF IndexInv, FoldEdit
<1>2. /\ tip \in Nat /\ tip < Len(feed) /\ op \in Op /\ op.kind = "edit" /\ c \in Channel /\ s \in Seqs
      /\ feed' = feed /\ FeedOk' /\ tip' = tip + 1 /\ feed \in Seq(Op) /\ Follows(feed, tip + 1)
      /\ row' = [row EXCEPT ![c] = RowsAfter(row[c], op)]
      /\ row[c] \in Rows
  BY <1>1, FoldFacts
<1>3. op.body \in Body /\ op.rev \in Nat
  BY <1>2 DEF Op
<1>4. OpOn(op, "edit", c, s)
  BY <1>2 DEF OpOn
<1> HIDE DEF op, c, s
<1>5. old # None => old \in Row /\ new \in Row /\ new # None /\ new.rev = op.rev /\ new.deleted = old.deleted
                    /\ new.replies = old.replies /\ new.last = old.last /\ new.body = op.body
  <2>1. ASSUME old # None
        PROVE  old \in Row /\ new \in Row /\ new.rev = op.rev /\ new.deleted = old.deleted
               /\ new.replies = old.replies /\ new.last = old.last /\ new.body = op.body
    <3>1. old \in Row
      BY <1>2, <2>1 DEF Rows
    <3>2. new = [old EXCEPT !.body = op.body, !.rev = op.rev]
      BY DEF Edited
    <3> HIDE DEF new, old
    <3>3. QED
      BY <1>3, <3>1, <3>2 DEF Row
  <2>2. QED
    BY Zenon, <2>1, ChatAssumption
(* The feed edits no tombstone, and by one revision more than the head has. *)
<1>6. old # None => ~old.deleted /\ op.rev = old.rev + 1 /\ old.rev \in Nat /\ HeadOf(feed, tip + 1, c, s, new)
  <2>1. ASSUME old # None
        PROVE  ~old.deleted /\ op.rev = old.rev + 1 /\ old.rev \in Nat /\ HeadOf(feed, tip + 1, c, s, new)
    <3>1. HeadOf(feed, tip, c, s, old)
      BY Zenon, <1>1, <1>2, <2>1 DEF RowsOk
    <3>2. old.rev \in Nat
      BY <1>5, <2>1 DEF Row
    <3> HIDE DEF new, old
    <3>3. QED
      BY <1>2, <1>4, <1>5, <2>1, <3>1, <3>2, HeadEdited DEF op
  <2>2. QED
    BY <2>1
<1>7. head2 \in Row \cup {None} /\ RowsAfter(row[c], op) = [row[c] EXCEPT ![s] = head2]
  <2>1. old = row[c][op.seq] /\ s = op.seq /\ op.kind = "edit"
    BY <1>2 DEF s
  <2> HIDE DEF old, new
  <2>2. RowsAfter(row[c], op) = IF old = None \/ old.deleted THEN row[c] ELSE [row[c] EXCEPT ![op.seq] = new]
    BY <2>1, RowsAfterIs DEF new
  <2>3. old = None => [row[c] EXCEPT ![s] = None] = row[c]
    BY <1>2, <2>1 DEF Rows
  <2>4. QED
    BY <1>5, <1>6, <2>1, <2>2, <2>3
<1> HIDE DEF new, head2
<1>8. /\ row' \in [Channel -> Rows]
      /\ OthersKept(c, s)
      /\ row'[c][s] = IF old = None THEN None ELSE new
  <2>1. row' \in [Channel -> Rows] /\ row'[c][s] = head2 /\ OthersKept(c, s)
    BY Zenon, <1>1, <1>2, <1>7, HeadReplaced
  <2>2. QED
    BY Zenon, <2>1 DEF head2
<1>9. RowsOk' /\ RepliesOk'
  <2>1. feed[tip + 1].chan = c /\ feed[tip + 1].seq = s
    BY Zenon DEF op, c, s
  <2>2. row'[c][s] # None =>
          /\ row[c][s] # None /\ HeadOf(feed, tip + 1, c, s, row'[c][s])
          /\ row'[c][s].replies = row[c][s].replies /\ row'[c][s].last = row[c][s].last
    BY Zenon, <1>5, <1>6, <1>8
  <2>3. QED
    BY Zenon, <1>1, <1>2, <1>8, <2>1, <2>2, Rewritten
<1>10. CASE old = None
  <2>1. \A d, x : (d = c /\ x = s) \/ <<d, x>> # <<c, s>>
    OBVIOUS
  <2>2. \A d \in Channel, x \in Seqs : row'[d][x] = row[d][x]
    BY Zenon, <1>8, <1>10, <2>1 DEF OthersKept
  <2>3. HistOk'
    <3>1. \A d \in Channel, x \in Seqs :
            /\ row'[d][x] # None => row'[d][x].rev = IF row[d][x] # None THEN row[d][x].rev ELSE 0
            /\ row[d][x] # None => row'[d][x] # None
      BY Zenon, <2>2
    <3>2. QED
      BY Zenon, <1>1, <1>10, <3>1, HistSame
  <2>4. PostingsOk'
    <3>1. \A d \in Channel, x \in Seqs : BodyOf(row', d, x) = BodyOf(row, d, x)
      BY Zenon, <2>2 DEF BodyOf
    <3>2. QED
      BY Zenon, <1>1, <1>10, <3>1, PostingsSame
  <2>5. QED
    BY Zenon, <1>2, <1>9, <2>3, <2>4 DEF IndexInv
<1>11. CASE old # None
  <2>1. /\ old.body \in Body \cup {Empty} /\ op.body \in Body \cup {Empty}
        /\ row'[c][s] = new /\ new # None /\ new.rev = old.rev + 1
    BY <1>3, <1>5, <1>6, <1>8, <1>11 DEF Row
  <2> DEFINE h2 == [chan |-> c, seq |-> s, rev |-> old.rev, body |-> old.body]
  <2>2. /\ hist' = hist \cup {h2} /\ h2 \in Revision
        /\ h2.chan = c /\ h2.seq = s /\ h2.rev = old.rev
    <3>1. hist' = hist \cup {h2}
      BY Zenon, <1>1, <1>6, <1>11 DEF Archived, c, s
    <3> HIDE DEF old
    <3>2. QED
      BY <1>2, <1>6, <1>11, <2>1, <3>1 DEF Revision
  <2> HIDE DEF h2
  <2>3. HistOk'
    <3>1. row[c][s] # None /\ row[c][s].rev = old.rev /\ old.rev \in Nat
      BY Zenon, <1>6, <1>11
    <3>2. row'[c][s] # None /\ row'[c][s].rev = old.rev + 1
      BY Zenon, <2>1
    <3> HIDE DEF old
    <3>3. QED
      BY Zenon, <1>1, <1>2, <1>8, <2>2, <3>1, <3>2, HistGrows
  <2>4. PostingsOk'
    <3>1. BodyOf(row, c, s) = old.body /\ BodyOf(row', c, s) = op.body
      BY Zenon, <1>5, <1>11, <2>1 DEF BodyOf
    <3>2. \A d \in Channel, x \in Seqs : <<d, x>> # <<c, s>> => BodyOf(row', d, x) = BodyOf(row, d, x)
      BY Zenon, <1>8 DEF BodyOf, OthersKept
    <3>3. Retokenised(c, s, old.body, op.body)
      BY Zenon, <1>1, <1>6, <1>11
    <3>4. QED
      BY Zenon, <1>1, <1>2, <2>1, <3>1, <3>2, <3>3, PostingsStep
  <2>5. QED
    BY Zenon, <1>2, <1>9, <2>3, <2>4 DEF IndexInv
<1>12. QED
  BY <1>10, <1>11

\* r2 is the head r of a root after one reply more, with sequence s.
RepliedTo(r, r2, s) ==
  /\ r2 # None /\ r2.rev = r.rev /\ r2.deleted = r.deleted /\ r2.body = r.body
  /\ r2.id = r.id /\ r2.thread = r.thread /\ r2.reacts = r.reacts
  /\ r2.replies = r.replies + 1 /\ r2.last = s

(* A post adds its own head and moves the summary of its root.              *)
LEMMA RowsPosted ==
  ASSUME NEW rows \in Rows, NEW op \in Op, op.kind = "post", op.thread < op.seq,
         NEW s, s = op.seq, NEW t, t = op.thread, NEW last, last = RowsAfter(rows, op)
  PROVE  /\ last \in Rows /\ last[s] = Posted(op) /\ Posted(op) \in Row
         /\ t \in Seqs /\ rows[t] # None => RepliedTo(rows[t], last[t], s)
         /\ \A x \in Seqs : x = s \/ (x = t /\ rows[t] # None) \/ last[x] = rows[x]
<1>1. op.body \in Body /\ op.id \in Id /\ t \in 0..MaxSeq /\ MaxSeq \in Nat /\ s \in Seqs /\ s \in Nat /\ t \in Nat /\ t < s
  BY ChatAssumption DEF Op, Seqs
<1>2. Posted(op) \in Row
  BY <1>1, ChatAssumption DEF Posted, Row, Empty
<1> DEFINE mid == Summarised(rows, op)
           root2 == [rows[t] EXCEPT !.replies = @ + 1, !.last = s]
<1>3. last = [mid EXCEPT ![s] = Posted(op)]
  <2>1. RowsAfter(rows, op) = [Summarised(rows, op) EXCEPT ![op.seq] = Posted(op)]
    BY RowsAfterIs
  <2>2. QED
    BY Zenon, <2>1
<1> HIDE DEF mid
<1>4. /\ mid \in Rows
      /\ \A x \in Seqs : (x = t /\ rows[t] # None) \/ mid[x] = rows[x]
      /\ t \in Seqs /\ rows[t] # None => RepliedTo(rows[t], mid[t], s)
  <2>1. CASE t = 0 \/ rows[t] = None
    <3>1. mid = rows
      BY Zenon, <2>1 DEF mid, Summarised
    <3>2. ~(t \in Seqs /\ rows[t] # None)
      BY <2>1 DEF Seqs
    <3>3. QED
      BY Zenon, <3>1, <3>2
  <2>2. CASE t # 0 /\ rows[t] # None
    <3>1. t \in Seqs
      BY <1>1, <2>2 DEF Seqs
    <3>2. rows[t] \in Row
      BY <2>2, <3>1 DEF Rows
    <3>3. root2 \in Row /\ root2.rev = rows[t].rev /\ root2.deleted = rows[t].deleted
          /\ root2.body = rows[t].body /\ root2.replies = rows[t].replies + 1 /\ root2.last = s
          /\ root2.id = rows[t].id /\ root2.thread = rows[t].thread /\ root2.reacts = rows[t].reacts
      <4>1. ASSUME NEW r \in Row, NEW r2, r2 = [r EXCEPT !.replies = @ + 1, !.last = s]
            PROVE  r2 \in Row /\ r2.rev = r.rev /\ r2.deleted = r.deleted
                   /\ r2.body = r.body /\ r2.replies = r.replies + 1 /\ r2.last = s
                   /\ r2.id = r.id /\ r2.thread = r.thread /\ r2.reacts = r.reacts
        <5>1. s \in Nat /\ r.replies \in Nat /\ r.replies + 1 \in Nat
          BY <1>1 DEF Row
        <5>2. r2 = [r EXCEPT !.replies = r.replies + 1, !.last = s]
          BY <4>1
        <5> DEFINE n == r.replies + 1
        <5> HIDE DEF n
        <5>3. r2 = [r EXCEPT !.replies = n, !.last = s] /\ n \in Nat
          BY <5>1, <5>2 DEF n
        <5>4. r2 \in Row /\ r2.rev = r.rev /\ r2.deleted = r.deleted /\ r2.body = r.body
              /\ r2.replies = n /\ r2.last = s
              /\ r2.id = r.id /\ r2.thread = r.thread /\ r2.reacts = r.reacts
          BY <5>1, <5>3 DEF Row
        <5>5. QED
          BY <5>4 DEF n
      <4>2. QED
        BY Zenon, <3>2, <4>1
    <3>4. root2 # None
      BY Zenon, <3>3, ChatAssumption
    <3>5. mid = [rows EXCEPT ![t] = root2]
      <4>1. mid = [rows EXCEPT ![t].replies = @ + 1, ![t].last = s]
        BY Zenon, <2>2 DEF mid, Summarised
      <4>2. QED
        BY <3>1, <3>2, <4>1 DEF Rows, Row
    <3> HIDE DEF root2
    <3>6. mid \in Rows /\ mid[t] = root2 /\ \A x \in Seqs : x = t \/ mid[x] = rows[x]
      BY <3>1, <3>3, <3>5 DEF Rows
    <3>7. RepliedTo(rows[t], mid[t], s)
      BY Zenon, <3>3, <3>4, <3>6 DEF RepliedTo
    <3>8. QED
      BY Zenon, <2>2, <3>6, <3>7
  <2>3. QED
    BY Zenon, <2>1, <2>2
<1>5. last \in Rows /\ last[s] = Posted(op) /\ \A x \in Seqs : x = s \/ last[x] = mid[x]
  BY <1>1, <1>2, <1>3, <1>4 DEF Rows
<1>6. t # s
  BY <1>1
<1>7. QED
  BY Zenon, <1>2, <1>4, <1>5, <1>6

LEMMA PostedRows ==
  ASSUME FeedOk, RowsOk, FoldNext("post"),
         NEW op, op = feed[tip + 1], NEW c, c = op.chan, NEW s, s = op.seq, NEW t, t = op.thread
  PROVE  /\ row[c][s] = None
         /\ row' \in [Channel -> Rows] /\ row'[c][s] = Posted(op)
         /\ t \in Seqs /\ row[c][t] # None => RepliedTo(row[c][t], row'[c][t], s)
         /\ \A d \in Channel, x \in Seqs :
              (d = c /\ x = s) \/ (d = c /\ x = t /\ row[c][t] # None) \/ row'[d][x] = row[d][x]
<1>1. /\ tip \in Nat /\ tip < Len(feed) /\ op \in Op /\ op.kind = "post" /\ c \in Channel /\ s \in Seqs
      /\ feed \in Seq(Op) /\ Follows(feed, tip + 1)
      /\ row' = [row EXCEPT ![c] = RowsAfter(row[c], op)]
      /\ row[c] \in Rows /\ row \in [Channel -> Rows]
  BY FoldFacts DEF RowsOk
<1>2. op.thread < op.seq
  BY Zenon, <1>1 DEF Follows
<1>3. row[c][s] = None
  <2>1. Posted(op).rev = 0 /\ ~Posted(op).deleted
    BY DEF Posted
  <2>2. OpOn(feed[tip + 1], "post", c, s)
    BY Zenon, <1>1 DEF OpOn
  <2>3. \A i \in 1..tip : feed[i].chan = c => feed[i].seq # s
    BY <1>1, <2>1, <2>2, HeadPosted
  <2>4. row[c][s] # None => \E i \in 1..tip : OpOn(feed[i], "post", c, s)
    BY Zenon, <1>1 DEF RowsOk, HeadOf
  <2>5. QED
    BY Zenon, <2>3, <2>4 DEF OpOn
<1>4. PICK last : last = RowsAfter(row[c], op)
  OBVIOUS
<1>5. /\ last \in Rows /\ last[s] = Posted(op)
      /\ t \in Seqs /\ row[c][t] # None => RepliedTo(row[c][t], last[t], s)
      /\ \A x \in Seqs : x = s \/ (x = t /\ row[c][t] # None) \/ last[x] = row[c][x]
  BY <1>1, <1>2, <1>4, RowsPosted
<1>6. row' = [row EXCEPT ![c] = last]
  BY Zenon, <1>1, <1>4
<1>7. /\ row' \in [Channel -> Rows] /\ row'[c] = last
      /\ \A d \in Channel : d = c \/ row'[d] = row[d]
  BY <1>1, <1>5, <1>6
<1>8. ASSUME NEW d \in Channel, NEW x \in Seqs
      PROVE  (d = c /\ x = s) \/ (d = c /\ x = t /\ row[c][t] # None) \/ row'[d][x] = row[d][x]
  BY Zenon, <1>5, <1>7
<1>9. t \in Seqs /\ row[c][t] # None => RepliedTo(row[c][t], row'[c][t], s)
  BY Zenon, <1>5, <1>7
<1>10. QED
  BY Zenon, <1>3, <1>5, <1>7, <1>8, <1>9

LEMMA FoldPostInv ==
  ASSUME IndexInv, FoldPost
  PROVE  IndexInv'
<1> DEFINE op == feed[tip + 1]
           c == op.chan
           s == op.seq
           t == op.thread
<1>1. /\ FeedOk /\ RowsOk /\ RepliesOk /\ HistOk /\ PostingsOk
      /\ FoldNext("post") /\ hist' = hist
      /\ reply' = IF t = 0 THEN reply ELSE reply \cup {<<c, t, s>>}
      /\ Retokenised(c, s, Empty, op.body)
  BY Zenon DEF IndexInv, FoldPost
<1>2. /\ tip \in Nat /\ tip < Len(feed) /\ op \in Op /\ op.kind = "post" /\ c \in Channel /\ s \in Seqs
      /\ feed' = feed /\ FeedOk' /\ tip' = tip + 1 /\ tip' \in 0..Len(feed)
      /\ feed \in Seq(Op) /\ Follows(feed, tip + 1)
  BY <1>1, FoldFacts
<1>3. op.body \in Body /\ t \in 0..MaxSeq /\ MaxSeq \in Nat /\ s \in Nat /\ t \in Nat
  BY <1>2, ChatAssumption DEF Op, Seqs
<1>4. t < s
  BY Zenon, <1>2 DEF Follows
<1>5. OpOn(op, "post", c, s)
  BY Zenon, <1>2 DEF OpOn
<1>6. /\ row[c][s] = None
      /\ row' \in [Channel -> Rows] /\ row'[c][s] = Posted(op)
      /\ t \in Seqs /\ row[c][t] # None => RepliedTo(row[c][t], row'[c][t], s)
      /\ \A d \in Channel, x \in Seqs :
           (d = c /\ x = s) \/ (d = c /\ x = t /\ row[c][t] # None) \/ row'[d][x] = row[d][x]
  BY <1>1, PostedRows
<1>7. Posted(op).rev = 0 /\ ~Posted(op).deleted /\ Posted(op).replies = 0 /\ Posted(op).last = 0
      /\ Posted(op).body = op.body
  BY DEF Posted
<1> HIDE DEF op, c, s, t
<1>8. HeadOf(feed, tip + 1, c, s, Posted(op)) /\ \A i \in 1..tip : feed[i].chan = c => feed[i].seq < s /\ feed[i].seq # s
  <2>1. OpOn(feed[tip + 1], "post", c, s)
    BY Zenon, <1>5 DEF op
  <2>2. QED
    BY <1>2, <1>7, <2>1, HeadPosted
(* No head but that of the post is another revision, or another text.       *)
<1>9. ASSUME NEW d \in Channel, NEW x \in Seqs, ~(d = c /\ x = s)
      PROVE  /\ row'[d][x] # None <=> row[d][x] # None
             /\ row[d][x] # None => /\ row'[d][x].rev = row[d][x].rev /\ row'[d][x].deleted = row[d][x].deleted
                                    /\ row'[d][x].body = row[d][x].body
  BY Zenon, <1>6, <1>9 DEF RepliedTo
<1>10. RowsOk'
  <2>1. ASSUME NEW d \in Channel, NEW x \in Seqs, row'[d][x] # None
        PROVE  HeadOf(feed, tip + 1, d, x, row'[d][x])
    <3>1. CASE d = c /\ x = s
      BY Zenon, <1>6, <1>8, <3>1
    <3>2. CASE ~(d = c /\ x = s)
      <4>1. /\ row[d][x] # None /\ row'[d][x].rev = row[d][x].rev
            /\ row'[d][x].deleted => row[d][x].deleted
        BY Zenon, <1>9, <2>1, <3>2
      <4>2. HeadOf(feed, tip, d, x, row[d][x])
        BY Zenon, <1>1, <4>1 DEF RowsOk
      <4>3. ~OpOn(feed[tip + 1], "edit", d, x)
        BY <1>2 DEF OpOn, op
      <4>4. QED
        BY Zenon, <1>2, <4>1, <4>2, <4>3, HeadKept
    <3>3. QED
      BY Zenon, <3>1, <3>2
  <2>2. QED
    BY Zenon, <1>2, <1>6, <2>1 DEF RowsOk
(* The replies folded so far were posted before.                            *)
<1>11. ASSUME NEW d \in Channel, NEW x \in Seqs, NEW y \in Seqs, <<d, x, y>> \in reply
       PROVE  x < y /\ (d = c => y < s)
  <2> DEFINE z == <<d, x, y>>
  <2>1. PICK i \in 1..tip : OpOn(feed[i], "post", z[1], z[3]) /\ feed[i].thread = z[2]
    BY Zenon, <1>1, <1>11 DEF RepliesOk
  <2>2. z[1] = d /\ z[2] = x /\ z[3] = y
    OBVIOUS
  <2>3. feed[i].kind = "post" /\ feed[i].chan = d /\ feed[i].seq = y /\ feed[i].thread = x
    BY Zenon, <2>1, <2>2 DEF OpOn
  <2>4. Follows(feed, i)
    BY <1>1, <1>2 DEF FeedOk
  <2>5. x < y
    BY Zenon, <2>3, <2>4 DEF Follows
  <2>6. QED
    BY Zenon, <1>8, <2>3, <2>5
<1>12. ASSUME NEW d \in Channel, NEW x \in Seqs
       PROVE  Markers(d, x)' = IF d = c /\ x = t THEN Markers(d, x) \cup {s} ELSE Markers(d, x)
  <2>1. x # 0
    BY ChatAssumption DEF Seqs
  <2>2. /\ Markers(d, x) = {y \in Seqs : <<d, x, y>> \in reply}
        /\ Markers(d, x)' = {y \in Seqs : <<d, x, y>> \in reply'}
    BY Zenon, <2>1 DEF Markers
  <2>3. \A y : <<d, x, y>> = <<c, t, s>> <=> d = c /\ x = t /\ y = s
    OBVIOUS
  <2>4. \A y : <<d, x, y>> \in reply' <=> <<d, x, y>> \in reply \/ (d = c /\ x = t /\ y = s)
    <3>1. CASE t = 0
      BY Zenon, <1>1, <2>1, <3>1
    <3>2. CASE t # 0
      BY Zenon, <1>1, <2>3, <3>2
    <3>3. QED
      BY <3>1, <3>2
  <2>5. CASE d = c /\ x = t
    BY <1>2, <2>2, <2>4, <2>5
  <2>6. CASE ~(d = c /\ x = t)
    BY <2>2, <2>4, <2>6
  <2>7. QED
    BY Zenon, <2>5, <2>6
<1>13. ASSUME NEW d \in Channel, NEW x \in Seqs, row'[d][x] # None
       PROVE  /\ row'[d][x].replies = Cardinality(Markers(d, x)')
              /\ row'[d][x].last = MaxOf(Markers(d, x)' \cup {0})
  <2> DEFINE M == Markers(d, x)
  <2>1. x # 0 /\ x \in Nat
    BY ChatAssumption DEF Seqs
  <2>2. M = {y \in Seqs : <<d, x, y>> \in reply}
    BY Zenon, <2>1 DEF Markers
  <2>3. CASE d = c /\ x = s
    <3>1. M = {}
      <4>1. ASSUME NEW y \in Seqs, <<d, x, y>> \in reply PROVE FALSE
        <5>1. s < y /\ y < s /\ y \in Nat
          BY <1>11, <2>3, <4>1, ChatAssumption DEF Seqs
        <5>2. QED
          BY <1>3, <5>1
      <4>2. QED
        BY <2>2, <4>1
    <3>2. Markers(d, x)' = {}
      <4>1. x # t
        BY <1>3, <1>4, <2>3
      <4>2. QED
        BY Zenon, <1>12, <3>1, <4>1
    <3>3. MaxOf({} \cup {0}) = 0
      BY MaxOfIs, {} \cup {0} = {0}
    <3>4. QED
      BY Zenon, <1>6, <1>7, <2>3, <3>2, <3>3, FS_EmptySet
  <2>4. CASE ~(d = c /\ x = s)
    <3>1. row[d][x] # None
      BY Zenon, <1>9, <1>13, <2>4
    <3>2. row[d][x].replies = Cardinality(M) /\ row[d][x].last = MaxOf(M \cup {0})
      BY Zenon, <1>1, <3>1 DEF RepliesOk
    <3>3. CASE d = c /\ x = t
      <4>1. row'[d][x].replies = row[d][x].replies + 1 /\ row'[d][x].last = s
        BY Zenon, <1>6, <3>1, <3>3 DEF RepliedTo
      <4>2. Markers(d, x)' = M \cup {s}
        BY Zenon, <1>12, <3>3
      <4>3. \A y \in M : y \in Seqs /\ y < s
        BY Zenon, <1>11, <2>2, <3>3
      <4>4. IsFiniteSet(M)
        <5>1. IsFiniteSet(Seqs) /\ M \subseteq Seqs
          BY <2>2, FS_Interval, ChatAssumption DEF Seqs
        <5>2. QED
          BY <5>1, FS_Subset
      <4> HIDE DEF M
      <4>5. s \notin M
        BY <1>3, <4>3
      <4>6. Cardinality(M \cup {s}) = Cardinality(M) + 1
        BY <4>4, <4>5, FS_AddElement
      <4>7. MaxOf((M \cup {s}) \cup {0}) = s
        <5> DEFINE S == (M \cup {s}) \cup {0}
        <5>1. S \in SUBSET Nat /\ s \in S /\ \A y \in S : y <= s
          BY <1>3, <4>3, ChatAssumption DEF Seqs
        <5> HIDE DEF S
        <5>2. MaxOf(S) = s
          BY <5>1, MaxOfIs
        <5>3. QED
          BY <5>2 DEF S
      <4>8. QED
        BY Zenon, <3>2, <4>1, <4>2, <4>6, <4>7
    <3>4. CASE ~(d = c /\ x = t)
      <4>1. row'[d][x] = row[d][x] /\ Markers(d, x)' = M
        BY Zenon, <1>6, <1>12, <2>4, <3>4
      <4>2. QED
        BY Zenon, <3>2, <4>1
    <3>5. QED
      BY Zenon, <3>3, <3>4
  <2>5. QED
    BY Zenon, <2>3, <2>4
<1>14. RepliesOk'
  <2>1. ASSUME NEW z \in reply'
        PROVE  \E i \in 1..tip + 1 : OpOn(feed[i], "post", z[1], z[3]) /\ feed[i].thread = z[2]
    <3>1. /\ \A i \in 1..tip : i \in 1..tip + 1
          /\ tip + 1 \in 1..tip + 1
      BY <1>2
    <3>2. CASE z \in reply
      BY Zenon, <1>1, <3>1, <3>2 DEF RepliesOk
    <3>3. CASE z = <<c, t, s>>
      <4>1. z[1] = c /\ z[2] = t /\ z[3] = s
        BY <3>3
      <4>2. QED
        BY Zenon, <1>5, <3>1, <4>1 DEF op, t
    <3>4. QED
      BY <1>1, <3>2, <3>3
  <2>2. QED
    BY Zenon, <1>2, <1>13, <2>1 DEF RepliesOk
<1>15. HistOk'
  <2>1. \A d \in Channel, x \in Seqs :
          /\ row'[d][x] # None => row'[d][x].rev = IF row[d][x] # None THEN row[d][x].rev ELSE 0
          /\ row[d][x] # None => row'[d][x] # None
    <3>1. ASSUME NEW d \in Channel, NEW x \in Seqs
          PROVE  /\ row'[d][x] # None => row'[d][x].rev = IF row[d][x] # None THEN row[d][x].rev ELSE 0
                 /\ row[d][x] # None => row'[d][x] # None
      <4>1. CASE d = c /\ x = s
        BY Zenon, <1>6, <1>7, <4>1
      <4>2. CASE ~(d = c /\ x = s)
        BY Zenon, <1>9, <4>2
      <4>3. QED
        BY Zenon, <4>1, <4>2
    <3>2. QED
      BY Zenon, <3>1
  <2>2. QED
    BY Zenon, <1>1, <2>1, HistSame
<1>16. PostingsOk'
  <2>1. Posted(op) # None
    <3>1. Posted(op) \in Row
      BY <1>2, ChatAssumption DEF Posted, Row, Op
    <3>2. QED
      BY Zenon, <3>1, ChatAssumption
  <2>2. BodyOf(row, c, s) = Empty /\ BodyOf(row', c, s) = op.body
    BY Zenon, <1>6, <1>7, <2>1 DEF BodyOf
  <2>3. \A d \in Channel, x \in Seqs : <<d, x>> # <<c, s>> => BodyOf(row', d, x) = BodyOf(row, d, x)
    <3>1. ASSUME NEW d \in Channel, NEW x \in Seqs, ~(d = c /\ x = s)
          PROVE  BodyOf(row', d, x) = BodyOf(row, d, x)
      BY Zenon, <1>9, <3>1 DEF BodyOf
    <3>2. QED
      BY Zenon, <3>1
  <2>4. Empty \in Body \cup {Empty} /\ op.body \in Body \cup {Empty}
    BY <1>3
  <2>5. QED
    BY Zenon, <1>1, <1>2, <2>2, <2>3, <2>4, PostingsStep
<1>17. QED
  BY Zenon, <1>2, <1>10, <1>14, <1>15, <1>16 DEF IndexInv

LEMMA InitIndexInv ==
  ASSUME ClientInit
  PROVE  IndexInv
<1>1. /\ feed = <<>> /\ tip = 0 /\ reply = {} /\ hist = {} /\ tok = {} /\ tag = {}
      /\ canon = [c \in Channel |-> [s \in 1..Floor[c] |-> [thread |-> 0, rev |-> 0, deleted |-> FALSE]]]
      /\ row = [c \in Channel |-> [s \in Seqs |-> None]]
      /\ cat = [c \in Channel |-> [l \in Label |-> 0]]
  BY Zenon DEF ClientInit, Init
<1>2. feed \in Seq(Op) /\ Len(feed) = 0
  BY <1>1
<1>3. FeedOk
  <2> DEFINE k == [thread |-> 0, rev |-> 0, deleted |-> FALSE]
  <2>1. k \in Known /\ k.rev = 0
    BY ChatAssumption DEF Known
  <2> HIDE DEF k
  <2>2. ASSUME NEW c \in Channel
        PROVE  canon[c] \in Seq(Known) /\ \A s \in 1..Len(canon[c]) : canon[c][s].rev = 0
    <3>1. Floor[c] \in Nat
      BY ChatAssumption
    <3>2. canon[c] = [s \in 1..Floor[c] |-> k]
      BY <1>1 DEF k
    <3>3. QED
      BY <2>1, <3>1, <3>2
  <2>3. canon \in [Channel -> Seq(Known)]
    BY <1>1, <2>2
  <2>4. QED
    BY <1>2, <2>2, <2>3 DEF FeedOk
<1>4. \A c \in Channel, s \in Seqs : row[c][s] = None
  BY <1>1
<1>5. RowsOk
  <2>1. row \in [Channel -> Rows]
    BY <1>1 DEF Rows
  <2>2. tip \in 0..Len(feed)
    BY <1>1, <1>2
  <2>3. QED
    BY Zenon, <1>4, <2>1, <2>2 DEF RowsOk
<1>6. RepliesOk
  BY Zenon, <1>1, <1>4 DEF RepliesOk
<1>7. HistOk
  BY Zenon, <1>1, <1>4 DEF HistOk
<1>8. PostingsOk
  <2>1. \A c \in Channel, s \in Seqs : BodyOf(row, c, s) = Empty
    BY Zenon, <1>4 DEF BodyOf
  <2>2. \A c \in Channel, l \in Label : Tagged(row, c, l) = {}
    BY <2>1 DEF Tagged, Empty
  <2>3. cat \in [Channel -> [Label -> Nat]] /\ \A c \in Channel, l \in Label : cat[c][l] = 0
    BY <1>1
  <2>4. Empty.tokens = {} /\ Empty.tags = {}
    BY DEF Empty
  <2>5. QED
    BY Zenon, <1>1, <2>1, <2>2, <2>3, <2>4, FS_EmptySet DEF PostingsOk
<1>9. QED
  BY Zenon, <1>3, <1>5, <1>6, <1>7, <1>8 DEF IndexInv

(* Operations applied and not folded yet are nothing to the index.          *)
LEMMA FeedIndexInv ==
  ASSUME IndexInv, FeedStep, UNCHANGED index
  PROVE  IndexInv'
<1>1. FeedOk' /\ feed \in Seq(Op) /\ \E op \in Op : feed' = Append(feed, op)
  BY Zenon, FeedStepOk DEF IndexInv, FeedOk
<1>2. /\ tip' = tip /\ row' = row /\ reply' = reply /\ hist' = hist /\ tok' = tok /\ tag' = tag /\ cat' = cat
      /\ root' = root
  BY DEF index
<1>3. tip \in 0..Len(feed) /\ Len(feed) \in Nat
  BY <1>1 DEF IndexInv, RowsOk
<1>4. tip \in 0..Len(feed') /\ \A i \in 1..tip : feed'[i] = feed[i]
  BY <1>1, <1>3, FeedGrows
<1>5. ASSUME NEW c, NEW s, NEW r, HeadOf(feed, tip, c, s, r)
      PROVE  HeadOf(feed', tip, c, s, r)
  BY Zenon, <1>4, <1>5 DEF HeadOf
<1>6. RowsOk'
  BY Zenon, <1>2, <1>4, <1>5 DEF IndexInv, RowsOk
<1>7. \A c \in Channel, s \in Seqs : Markers(c, s)' = Markers(c, s)
  BY Zenon, <1>2 DEF Markers
<1>8. RepliesOk'
  <2>1. RepliesOk
    BY Zenon DEF IndexInv
  <2>2. \A z \in reply : \E i \in 1..tip : OpOn(feed'[i], "post", z[1], z[3]) /\ feed'[i].thread = z[2]
    BY Zenon, <1>4, <2>1 DEF RepliesOk
  <2>3. QED
    BY Zenon, <1>2, <1>7, <2>1, <2>2 DEF RepliesOk
<1>9. HistOk'
  BY Zenon, <1>2 DEF IndexInv, HistOk, Past
<1>10. PostingsOk'
  <2>1. \A c \in Channel, s \in Seqs : BodyOf(row', c, s) = BodyOf(row, c, s)
    BY Zenon, <1>2
  <2>2. QED
    BY Zenon, <1>2, <2>1, PostingsSame DEF IndexInv
<1>11. QED
  BY Zenon, <1>1, <1>6, <1>8, <1>9, <1>10 DEF IndexInv

(* Readers and the client change nothing of the index or its feed.          *)
LEMMA StillIndexInv ==
  ASSUME IndexInv, UNCHANGED <<source, index>>
  PROVE  IndexInv'
<1>1. /\ feed' = feed /\ canon' = canon /\ tip' = tip /\ row' = row /\ reply' = reply /\ hist' = hist
      /\ tok' = tok /\ tag' = tag /\ cat' = cat /\ root' = root
  BY DEF index, source
<1>2. FeedOk'
  BY Zenon, <1>1 DEF IndexInv, FeedOk
<1>3. RowsOk'
  BY Zenon, <1>1 DEF IndexInv, RowsOk
<1>4. RepliesOk'
  <2>1. \A c \in Channel, s \in Seqs : Markers(c, s)' = Markers(c, s)
    BY Zenon, <1>1 DEF Markers
  <2>2. QED
    BY Zenon, <1>1, <2>1 DEF IndexInv, RepliesOk
<1>5. HistOk'
  BY Zenon, <1>1 DEF IndexInv, HistOk, Past
<1>6. PostingsOk'
  <2>1. \A c \in Channel, s \in Seqs : BodyOf(row', c, s) = BodyOf(row, c, s)
    BY Zenon, <1>1
  <2>2. QED
    BY Zenon, <1>1, <2>1, PostingsSame DEF IndexInv
<1>7. QED
  BY Zenon, <1>2, <1>3, <1>4, <1>5, <1>6 DEF IndexInv

(* What a step does to canonical chat and the index, whoever takes it.      *)
LEMMA StepParts ==
  ASSUME [Next]_vars
  PROVE  \/ FeedStep /\ UNCHANGED <<index, walk>>
         \/ Fold /\ UNCHANGED walk
         \/ WalkStep /\ UNCHANGED <<source, index>>
         \/ UNCHANGED <<source, index, walk>>
<1>1. FeedStep => UNCHANGED <<index, walk>>
  BY Zenon DEF FeedStep, PostApplied, EditApplied, DeleteApplied, ReactApplied, Apply
<1>2. WalkStep => UNCHANGED <<source, index>>
  BY Zenon DEF WalkStep, TurnPage, OpenWalk
<1>3. Fold => UNCHANGED walk
  BY Zenon DEF Fold, FoldPost, FoldEdit, FoldDelete, FoldReact, FoldNext
<1>4. CASE ClientFeed
  BY Zenon, <1>1, <1>4 DEF ClientFeed
<1>5. CASE IndexOnly
  BY Zenon, <1>3, <1>5 DEF IndexOnly
<1>6. CASE Unattended
  BY Zenon, <1>1, <1>2, <1>6 DEF Unattended
<1>7. CASE \E v \in 0..MaxSeq : Open(v)
  BY Zenon, <1>7 DEF Open
<1>8. CASE Resync \/ Read \/ Land \/ Deliver
  BY Zenon, <1>8 DEF Resync, Read, Land, Deliver
<1>9. CASE \E m \in Id : Send(m)
  BY Zenon, <1>9 DEF Send
<1>10. CASE \E s \in Seqs, e \in Emoji, a \in BOOLEAN : Tap(s, e, a)
  BY Zenon, <1>10 DEF Tap
<1>11. CASE UNCHANGED vars
  BY <1>11 DEF vars
<1>12. QED
  BY Zenon, <1>4, <1>5, <1>6, <1>7, <1>8, <1>9, <1>10, <1>11 DEF Next

(* Whatever the step, the index agrees with what was folded.                *)
LEMMA StepIndexInv ==
  ASSUME IndexInv, [Next]_vars
  PROVE  IndexInv'
<1>1. CASE FeedStep /\ UNCHANGED <<index, walk>>
  <2>1. UNCHANGED index
    BY Zenon, <1>1
  <2>2. QED
    BY <1>1, <2>1, FeedIndexInv
<1>2. CASE Fold
  BY Zenon, <1>2, FoldPostInv, FoldEditInv, FoldDeleteInv, FoldReactInv DEF Fold
<1>3. CASE UNCHANGED <<source, index>>
  BY <1>3, StillIndexInv
<1>4. QED
  BY Zenon, <1>1, <1>2, <1>3, StepParts

(* The postings as sets, and the rows with their histories.                 *)
LEMMA SoundIndex ==
  ASSUME IndexInv
  PROVE  IndexSound
<1>1. RowsOk /\ RepliesOk /\ HistOk /\ PostingsOk
  BY Zenon DEF IndexInv
<1>2. ASSUME NEW c \in Channel, NEW s \in Seqs
      PROVE  /\ \A x : x \in BodyOf(row, c, s).tokens <=> row[c][s] # None /\ x \in row[c][s].body.tokens
             /\ \A l : l \in BodyOf(row, c, s).tags <=> row[c][s] # None /\ l \in row[c][s].body.tags
  BY DEF BodyOf, Empty
<1>3. \A c \in Channel, l \in Label : Carriers(c, l) = Tagged(row, c, l)
  BY <1>2 DEF Carriers, Tagged
<1>4. tok = {z \in Token \X Channel \X Seqs : row[z[2]][z[3]] # None /\ z[1] \in row[z[2]][z[3]].body.tokens}
  <2>1. tok \subseteq Token \X Channel \X Seqs
    BY Zenon, <1>1 DEF PostingsOk
  <2>2. ASSUME NEW z \in Token \X Channel \X Seqs
        PROVE  z \in tok <=> row[z[2]][z[3]] # None /\ z[1] \in row[z[2]][z[3]].body.tokens
    <3>1. z[1] \in Token /\ z[2] \in Channel /\ z[3] \in Seqs /\ z = <<z[1], z[2], z[3]>>
      OBVIOUS
    <3>2. <<z[1], z[2], z[3]>> \in tok <=> z[1] \in BodyOf(row, z[2], z[3]).tokens
      BY Zenon, <1>1, <3>1 DEF PostingsOk
    <3>3. QED
      BY Zenon, <1>2, <3>1, <3>2
  <2>3. QED
    BY Zenon, <2>1, <2>2
<1>5. tag = {z \in Label \X Channel \X Seqs : z[3] \in Carriers(z[2], z[1])}
  <2>1. tag \subseteq Label \X Channel \X Seqs
    BY Zenon, <1>1 DEF PostingsOk
  <2>2. ASSUME NEW z \in Label \X Channel \X Seqs
        PROVE  z \in tag <=> z[3] \in Carriers(z[2], z[1])
    <3>1. z[1] \in Label /\ z[2] \in Channel /\ z[3] \in Seqs /\ z = <<z[1], z[2], z[3]>>
      OBVIOUS
    <3>2. <<z[1], z[2], z[3]>> \in tag <=> z[1] \in BodyOf(row, z[2], z[3]).tags
      BY Zenon, <1>1, <3>1 DEF PostingsOk
    <3>3. QED
      BY Zenon, <1>2, <3>1, <3>2 DEF Carriers
  <2>3. QED
    BY Zenon, <2>1, <2>2
<1>6. PostingsMatch
  <2>1. \A c \in Channel, l \in Label : cat[c][l] = Cardinality(Carriers(c, l))
    BY Zenon, <1>1, <1>3 DEF PostingsOk
  <2>2. QED
    BY Zenon, <1>4, <1>5, <2>1 DEF PostingsMatch
<1>7. RowsWhole
  BY Zenon, <1>1 DEF RowsWhole, RepliesOk, HistOk, Past
<1>8. QED
  BY <1>6, <1>7 DEF IndexSound

(* Whatever canonical chat applies, and however far the fold is behind it:  *)
(* the postings are the words and labels of the heads as they are, the      *)
(* catalog counts them, reply summaries are those of the markers, and every *)
(* earlier revision is kept once (index.rs:502-886).                        *)
THEOREM IndexSoundHolds == Spec => []IndexSound
<1>1. ClientInit => IndexInv
  BY InitIndexInv
<1>2. IndexInv /\ [Next]_vars => IndexInv'
  BY StepIndexInv
<1>3. IndexInv => IndexSound
  BY SoundIndex
<1>4. QED
  BY <1>1, <1>2, <1>3, PTL DEF Spec

------------------------------------------------------------------------------
(* Pages: the numbers of a set in order, and the part of them on a page.    *)

(* Numbers in order: the rank of each is one more than how many are less.   *)
LEMMA AscendingIs ==
  ASSUME NEW S \in SUBSET Nat, IsFiniteSet(S)
  PROVE  /\ Cardinality(S) \in Nat
         /\ Ascending(S) \in Seq(S) /\ Len(Ascending(S)) = Cardinality(S)
         /\ \A i, j \in 1..Cardinality(S) : i < j => Ascending(S)[i] < Ascending(S)[j]
         /\ \A x \in S : \E i \in 1..Cardinality(S) : Ascending(S)[i] = x
<1> DEFINE n == Cardinality(S)
           Below(x) == {y \in S : y < x}
           rank == [x \in S |-> Cardinality(Below(x)) + 1]
           at == Ascending(S)
<1>1. n \in Nat
  BY FS_CardinalityType
<1>2. ASSUME NEW x \in S
      PROVE  IsFiniteSet(Below(x)) /\ Cardinality(Below(x)) \in Nat /\ Cardinality(Below(x)) < n
  <2>1. Below(x) \in SUBSET (S \ {x})
    OBVIOUS
  <2>2. IsFiniteSet(S \ {x}) /\ Cardinality(S \ {x}) = n - 1
    BY FS_RemoveElement
  <2> HIDE DEF Below
  <2>3. IsFiniteSet(Below(x)) /\ Cardinality(Below(x)) <= n - 1
    BY <2>1, <2>2, FS_Subset
  <2>4. Cardinality(Below(x)) \in Nat
    BY <2>3, FS_CardinalityType
  <2> HIDE DEF n
  <2>5. QED
    BY <1>1, <2>3, <2>4
<1>3. ASSUME NEW x \in S, NEW y \in S, x < y
      PROVE  Cardinality(Below(x)) < Cardinality(Below(y))
  <2>0. x \in Nat /\ y \in Nat /\ \A z \in S : z \in Nat
    OBVIOUS
  <2>1. Below(x) \cup {x} \in SUBSET Below(y) /\ x \notin Below(x)
    <3>1. \A z \in S : z < x => z < y
      BY <1>3, <2>0
    <3>2. ~(x < x)
      BY <2>0
    <3>3. QED
      BY <1>3, <3>1, <3>2
  <2> HIDE DEF Below
  <2>2. Cardinality(Below(x) \cup {x}) = Cardinality(Below(x)) + 1
    BY <1>2, <2>1, FS_AddElement
  <2>3. Cardinality(Below(x) \cup {x}) <= Cardinality(Below(y))
    BY <1>2, <2>1, FS_Subset
  <2>4. QED
    BY <1>2, <2>2, <2>3
<1> HIDE DEF n, Below
<1>4. rank \in Injection(S, 1..n)
  <2>1. \A x \in S : rank[x] = Cardinality(Below(x)) + 1
    OBVIOUS
  <2>2. rank \in [S -> 1..n]
    <3>1. \A x \in S : Cardinality(Below(x)) + 1 \in 1..n
      BY <1>1, <1>2
    <3>2. QED
      BY <3>1
  <2>3. ASSUME NEW x \in S, NEW y \in S, rank[x] = rank[y]
        PROVE  x = y
    <3>1. ~(x < y) /\ ~(y < x)
      BY <1>2, <1>3, <2>1, <2>3
    <3>2. QED
      BY <3>1
  <2>4. DOMAIN rank = S
    OBVIOUS
  <2> HIDE DEF rank
  <2>5. QED
    BY <2>2, <2>3, <2>4 DEF Injection, IsInjective
<1>5. rank \in Surjection(S, 1..n)
  <2>1. IsFiniteSet(1..n) /\ Cardinality(1..n) = n
    BY <1>1, FS_Interval
  <2> HIDE DEF rank
  <2>2. QED
    BY <1>4, <2>1, FS_Injection DEF n
<1>6. ASSUME NEW i \in 1..n
      PROVE  at[i] \in S /\ Cardinality(Below(at[i])) = i - 1
  <2>1. PICK x \in S : rank[x] = i
    BY <1>5 DEF Surjection
  <2>2. Cardinality(Below(x)) = i - 1
    BY <1>1, <1>2, <2>1
  <2>3. at[i] = CHOOSE z \in S : Cardinality(Below(z)) = i - 1
    BY DEF Ascending, n, Below
  <2> HIDE DEF at, Below
  <2>4. QED
    BY Zenon, <2>2, <2>3
<1>7. at \in Seq(S) /\ Len(at) = n
  <2>1. at = [i \in 1..n |-> at[i]]
    BY SMTT(20) DEF Ascending, n
  <2> HIDE DEF at
  <2>2. \A i \in 1..n : at[i] \in S
    BY Zenon, <1>6
  <2>3. QED
    BY ONLY <1>1, <2>1, <2>2
<1> HIDE DEF at
<1>8. ASSUME NEW i \in 1..n, NEW j \in 1..n, i < j
      PROVE  at[i] < at[j]
  <2>1. at[i] \in Nat /\ at[j] \in Nat
    BY <1>6
  <2>2. at[i] # at[j] /\ ~(at[j] < at[i])
    <3>1. at[i] \in S /\ at[j] \in S /\ Cardinality(Below(at[i])) = i - 1 /\ Cardinality(Below(at[j])) = j - 1
      BY <1>6
    <3>2. at[j] < at[i] => j - 1 < i - 1
      BY <1>3, <3>1
    <3>3. i \in Nat /\ j \in Nat /\ i - 1 # j - 1 /\ ~(j - 1 < i - 1)
      BY <1>1, <1>8
    <3>4. QED
      BY <3>1, <3>2, <3>3
  <2>3. QED
    BY <2>1, <2>2
<1>9. ASSUME NEW x \in S
      PROVE  \E i \in 1..n : at[i] = x
  <2> DEFINE i == Cardinality(Below(x)) + 1
  <2>1. i \in 1..n /\ i - 1 = Cardinality(Below(x))
    BY <1>1, <1>2
  <2>2. at[i] \in S /\ Cardinality(Below(at[i])) = Cardinality(Below(x))
    BY <1>6, <2>1
  <2> HIDE DEF i
  <2>3. ~(at[i] < x) /\ ~(x < at[i])
    <3>1. at[i] < x => Cardinality(Below(at[i])) < Cardinality(Below(x))
      BY <1>3, <2>2
    <3>2. x < at[i] => Cardinality(Below(x)) < Cardinality(Below(at[i]))
      BY <1>3, <2>2
    <3>3. Cardinality(Below(x)) \in Nat
      BY <1>2
    <3>4. QED
      BY <2>2, <3>1, <3>2, <3>3
  <2>4. at[i] = x
    <3>1. at[i] \in Nat /\ x \in Nat
      BY <2>2
    <3>2. QED
      BY <2>3, <3>1
  <2>5. QED
    BY <2>1, <2>4
<1>10. QED
  BY <1>1, <1>7, <1>8, <1>9 DEF at, n

\* What a sequence holds, and that it is in order.
Elems(s) == {s[i] : i \in DOMAIN s}
Ascends(s) == \A i, j \in DOMAIN s : i < j => s[i] < s[j]

(* A set of numbers in order has them all, each once.                       *)
LEMMA AscendingElems ==
  ASSUME NEW S \in SUBSET Nat, IsFiniteSet(S)
  PROVE  /\ Ascending(S) \in Seq(S) /\ Ascends(Ascending(S)) /\ Elems(Ascending(S)) = S
         /\ Len(Ascending(S)) = Cardinality(S) /\ Cardinality(S) \in Nat
<1> DEFINE a == Ascending(S)
           n == Cardinality(S)
<1>1. /\ n \in Nat /\ a \in Seq(S) /\ Len(a) = n
      /\ \A i, j \in 1..n : i < j => a[i] < a[j]
      /\ \A x \in S : \E i \in 1..n : a[i] = x
  BY AscendingIs
<1> HIDE DEF a, n
<1>2. DOMAIN a = 1..n /\ \A i \in 1..n : a[i] \in S
  BY <1>1
<1>3. QED
  BY <1>1, <1>2 DEF a, n, Ascends, Elems

(* The fields of a page.                                                    *)
LEMMA PageOfIs ==
  ASSUME NEW scan
  PROVE  /\ PageOf(scan).ok = TRUE
         /\ PageOf(scan).seqs = SubSeq(scan, 1, IF Len(scan) > Limit THEN Limit ELSE Len(scan))
         /\ PageOf(scan).more \in BOOLEAN /\ (PageOf(scan).more <=> Len(scan) > Limit)
<1> DEFINE long == Len(scan) > Limit
           cut == SubSeq(scan, 1, IF Len(scan) > Limit THEN Limit ELSE Len(scan))
<1>1. long \in BOOLEAN
  OBVIOUS
<1>2. PageOf(scan) = [ok |-> TRUE, seqs |-> cut, more |-> long]
  BY Zenon DEF PageOf
<1> HIDE DEF long, cut
<1>3. PageOf(scan).more = long /\ PageOf(scan).ok = TRUE
  BY <1>2
<1>4. PageOf(scan).seqs = cut
  BY <1>2
<1>5. PageOf(scan).more \in BOOLEAN /\ (PageOf(scan).more <=> long)
  BY Zenon, <1>1, <1>3
<1>6. QED
  BY Zenon, <1>3, <1>4, <1>5 DEF long, cut

(* The last page of a scan, newest first, turned: the greatest numbers.     *)
LEMMA NewestPage ==
  ASSUME NEW S \in SUBSET Nat, IsFiniteSet(S)
  PROVE  LET page == PageOf(Newest(S))
             seqs == Reverse(page.seqs)
         IN /\ page.ok = TRUE /\ page.more \in BOOLEAN
            /\ page.seqs \in Seq(S) /\ seqs \in Seq(S) /\ Ascends(seqs)
            /\ ~page.more => Elems(seqs) = S
            /\ page.more => Len(seqs) # 0 /\ \A x \in S : x \in Elems(seqs) \/ x < seqs[1]
<1> DEFINE a == Ascending(S)
           n == Len(a)
           scan == Newest(S)
           k == IF n > Limit THEN Limit ELSE n
           page == PageOf(scan)
           seqs == Reverse(page.seqs)
<1>1. a \in Seq(S) /\ Ascends(a) /\ Elems(a) = S /\ n \in Nat /\ DOMAIN a = 1..n
  BY AscendingElems
<1>2. Limit \in Nat /\ Limit # 0
  BY ChatAssumption
<1>3. scan = [i \in 1..n |-> a[n - i + 1]]
  BY DEF Newest, Reverse
<1>4. /\ page.ok = TRUE /\ page.more \in BOOLEAN /\ (page.more <=> Len(scan) > Limit)
      /\ page.seqs = SubSeq(scan, 1, IF Len(scan) > Limit THEN Limit ELSE Len(scan))
  BY Zenon, PageOfIs
<1>5. seqs = [i \in 1..Len(page.seqs) |-> page.seqs[Len(page.seqs) - i + 1]]
  BY DEF Reverse
<1> HIDE DEF a, n, scan, page, seqs
<1>6. scan \in Seq(S) /\ Len(scan) = n /\ \A i \in 1..n : scan[i] = a[n - i + 1]
  <2>1. \A i \in 1..n : a[n - i + 1] \in S
    <3>1. \A i \in 1..n : n - i + 1 \in 1..n
      BY <1>1
    <3>2. \A i \in 1..n : a[i] \in S
      BY <1>1 DEF Elems
    <3>3. QED
      BY <3>1, <3>2
  <2>2. QED
    BY <1>1, <1>3, <2>1
<1>7. k \in Nat /\ k <= n /\ (n > Limit => k = Limit) /\ (~(n > Limit) => k = n)
  BY <1>1, <1>2
<1>8. page.seqs = SubSeq(scan, 1, k) /\ page.ok = TRUE /\ page.more \in BOOLEAN /\ (page.more <=> n > Limit)
  BY Zenon, <1>4, <1>6
<1> HIDE DEF k
<1>9. page.seqs \in Seq(S) /\ Len(page.seqs) = k /\ \A i \in 1..k : page.seqs[i] = scan[i]
  BY <1>1, <1>6, <1>7, <1>8
<1>10. /\ seqs \in Seq(S) /\ Len(seqs) = k /\ DOMAIN seqs = 1..k
       /\ \A i \in 1..k : seqs[i] = a[n - k + i]
  <2>1. ASSUME NEW i \in 1..k
        PROVE  page.seqs[k - i + 1] = a[n - k + i]
    <3>1. k - i + 1 \in 1..k /\ k - i + 1 \in 1..n /\ n - (k - i + 1) + 1 = n - k + i
      BY <1>1, <1>7
    <3>2. QED
      BY <1>6, <1>9, <3>1
  <2>2. seqs = [i \in 1..k |-> page.seqs[k - i + 1]] /\ \A i \in 1..k : k - i + 1 \in 1..k
    BY <1>5, <1>7, <1>9
  <2>3. \A i \in 1..k : page.seqs[k - i + 1] \in S
    <3>1. \A i \in 1..k : page.seqs[i] \in S
      BY <1>9
    <3>2. QED
      BY Zenon, <2>2, <3>1
  <2>4. seqs \in Seq(S) /\ Len(seqs) = k /\ DOMAIN seqs = 1..k /\ \A i \in 1..k : seqs[i] = page.seqs[k - i + 1]
    BY <1>7, <2>2, <2>3
  <2>5. QED
    BY <2>1, <2>4
<1>11. Ascends(seqs)
  <2>1. ASSUME NEW i \in 1..k, NEW j \in 1..k, i < j
        PROVE  seqs[i] < seqs[j]
    <3>1. n - k + i \in 1..n /\ n - k + j \in 1..n /\ n - k + i < n - k + j
      BY <1>1, <1>7, <2>1
    <3>2. a[n - k + i] < a[n - k + j]
      BY <1>1, <3>1 DEF Ascends
    <3>3. QED
      BY <1>10, <3>2
  <2>2. QED
    BY <1>10, <2>1 DEF Ascends
<1>12. ASSUME NEW x \in S
       PROVE  \/ x \in Elems(seqs)
              \/ k < n /\ (k # 0 => x < seqs[1])
  <2>1. PICK j \in 1..n : a[j] = x
    BY <1>1 DEF Elems
  <2>2. CASE j > n - k
    <3>1. j - (n - k) \in 1..k /\ n - k + (j - (n - k)) = j
      BY <1>1, <1>7, <2>2
    <3>2. seqs[j - (n - k)] = x
      BY <1>10, <2>1, <3>1
    <3>3. QED
      BY <1>10, <3>1, <3>2 DEF Elems
  <2>3. CASE ~(j > n - k)
    <3>1. k < n /\ (k # 0 => n - k + 1 \in 1..n /\ j < n - k + 1 /\ 1 \in 1..k)
      BY <1>1, <1>7, <2>3
    <3>2. k # 0 => a[j] < a[n - k + 1]
      BY <1>1, <3>1 DEF Ascends
    <3>3. k # 0 => seqs[1] = a[n - k + 1]
      BY <1>10, <3>1
    <3>4. QED
      BY <2>1, <3>1, <3>2, <3>3
  <2>4. QED
    BY <2>2, <2>3
<1>13. \A x \in Elems(seqs) : x \in S
  BY <1>10 DEF Elems
<1>14. ~page.more => Elems(seqs) = S
  <2>1. ~page.more => ~(k < n)
    BY <1>1, <1>7, <1>8
  <2>2. QED
    BY <1>12, <1>13, <2>1
<1>15. page.more => Len(seqs) # 0 /\ \A x \in S : x \in Elems(seqs) \/ x < seqs[1]
  <2>1. page.more => k # 0
    BY <1>2, <1>7, <1>8
  <2>2. QED
    BY <1>10, <1>12, <2>1
<1>16. QED
  BY <1>8, <1>9, <1>10, <1>11, <1>14, <1>15 DEF page, scan, seqs

(* The first page of a scan: the least numbers.                             *)
LEMMA OldestPage ==
  ASSUME NEW S \in SUBSET Nat, IsFiniteSet(S)
  PROVE  LET page == PageOf(Ascending(S))
             seqs == page.seqs
         IN /\ page.ok = TRUE /\ page.more \in BOOLEAN
            /\ seqs \in Seq(S) /\ Ascends(seqs)
            /\ ~page.more => Elems(seqs) = S
            /\ page.more => Len(seqs) # 0 /\ \A x \in S : x \in Elems(seqs) \/ seqs[Len(seqs)] < x
<1> DEFINE a == Ascending(S)
           n == Len(a)
           k == IF n > Limit THEN Limit ELSE n
           page == PageOf(a)
           seqs == page.seqs
<1>1. a \in Seq(S) /\ Ascends(a) /\ Elems(a) = S /\ n \in Nat /\ DOMAIN a = 1..n
  BY AscendingElems
<1>2. Limit \in Nat /\ Limit # 0
  BY ChatAssumption
<1>3. page.seqs = SubSeq(a, 1, k) /\ page.ok = TRUE /\ page.more \in BOOLEAN /\ (page.more <=> n > Limit)
  BY Zenon, PageOfIs
<1> HIDE DEF a, n, page
<1>4. k \in Nat /\ k <= n /\ (n > Limit => k = Limit) /\ (~(n > Limit) => k = n)
  BY <1>1, <1>2
<1> HIDE DEF k
<1>5. seqs \in Seq(S) /\ Len(seqs) = k /\ DOMAIN seqs = 1..k /\ \A i \in 1..k : seqs[i] = a[i]
  <2>0. n = Len(a)
    BY Zenon DEF n
  <2>1. \A i \in 1..k : i \in 1..n
    BY <1>1, <1>4
  <2>2. \A i \in 1..k : a[i] \in S
    BY Zenon, <1>1, <2>1 DEF Elems
  <2>3. seqs \in Seq(S) /\ Len(seqs) = k /\ \A i \in 1..k : seqs[i] = a[i]
    <3>1. a \in Seq(S) /\ Len(a) = n /\ k \in Nat /\ k <= n /\ n \in Nat /\ seqs = SubSeq(a, 1, k)
      BY Zenon, <1>1, <1>3, <1>4, <2>0
    <3> HIDE DEF seqs
    <3>2. QED
      BY <3>1
  <2>4. QED
    BY <2>3
<1>6. Ascends(seqs)
  <2>1. \A i \in 1..k : i \in 1..n
    BY <1>1, <1>4
  <2>2. QED
    BY <1>1, <1>5, <2>1 DEF Ascends
<1>7. ASSUME NEW x \in S
      PROVE  x \in Elems(seqs) \/ (k < n /\ (k # 0 => seqs[k] < x))
  <2>1. PICK j \in 1..n : a[j] = x
    BY <1>1 DEF Elems
  <2>2. CASE j <= k
    <3>1. j \in 1..k
      BY <2>2
    <3>2. QED
      BY <1>5, <2>1, <3>1 DEF Elems
  <2>3. CASE ~(j <= k)
    <3>1. k < n /\ (k # 0 => k \in 1..n /\ k \in 1..k /\ k < j)
      BY <1>1, <1>4, <2>3
    <3>2. k # 0 => a[k] < a[j]
      BY <1>1, <3>1 DEF Ascends
    <3>3. QED
      BY <1>5, <2>1, <3>1, <3>2
  <2>4. QED
    BY <2>2, <2>3
<1>8. \A x \in Elems(seqs) : x \in S
  BY <1>5 DEF Elems
<1>9. ~page.more => Elems(seqs) = S
  <2>1. ~page.more => ~(k < n)
    BY <1>1, <1>3, <1>4
  <2>2. QED
    BY <1>7, <1>8, <2>1
<1>10. page.more => Len(seqs) # 0 /\ \A x \in S : x \in Elems(seqs) \/ seqs[Len(seqs)] < x
  <2>1. page.more => k # 0
    BY <1>2, <1>3, <1>4
  <2>2. QED
    BY <1>5, <1>7, <2>1
<1>11. QED
  BY <1>3, <1>5, <1>6, <1>9, <1>10 DEF page, a

------------------------------------------------------------------------------
(* Threads: what the walks of a reader rest on.                             *)

IsRoot(kn, c, s) == s \in DOMAIN kn[c] /\ kn[c][s].thread = 0

\* The post of message s of channel c, among the first n of f, is that of r.
PostedAs(f, n, c, s, r) == \E i \in 1..n : OpOn(f[i], "post", c, s) /\ f[i].id = r.id /\ f[i].thread = r.thread

PostOk(f, kn, j) ==
  f[j].kind = "post" =>
    /\ Namespace(f[j].chan)
    /\ f[j].seq \in DOMAIN kn[f[j].chan] /\ kn[f[j].chan][f[j].seq].thread = f[j].thread
    /\ f[j].thread # 0 => IsRoot(kn, f[j].chan, f[j].thread)
    /\ \A i \in 1..j - 1 : f[i].kind = "post" => f[i].id # f[j].id

MarkersOk ==
  /\ root \subseteq Channel \X Seqs
  /\ \A c \in Channel, s \in Seqs : <<c, s>> \in root => row[c][s] # None /\ row[c][s].thread = 0
  /\ \A c \in Channel, t \in Seqs, s \in Seqs : <<c, t, s>> \in reply => row[c][s] # None /\ row[c][s].thread = t

ThreadsOk ==
  /\ \A j \in 1..Len(feed) : PostOk(feed, canon, j)
  /\ \A c \in Channel, s \in Seqs : row[c][s] # None => PostedAs(feed, tip, c, s, row[c][s])
  /\ MarkersOk

(* What was appended last can be told.                                      *)
LEMMA LastAppended ==
  ASSUME NEW f \in Seq(Op), NEW op \in Op, NEW x, Append(f, op) = Append(f, x)
  PROVE  op = x
<1> DEFINE T == Op \cup {x}
<1>1. f \in Seq(T) /\ op \in T /\ x \in T /\ Len(f) \in Nat
  OBVIOUS
<1> HIDE DEF T
<1>2. Append(f, op)[Len(f) + 1] = op /\ Append(f, x)[Len(f) + 1] = x
  BY <1>1
<1>3. QED
  BY Zenon, <1>2

(* What canonical chat knows of a message it keeps the thread of.           *)
LEMMA FeedThreads ==
  ASSUME FeedOk, FeedStep
  PROVE  /\ \A c \in Channel : \A s \in DOMAIN canon[c] :
              s \in DOMAIN canon'[c] /\ canon'[c][s].thread = canon[c][s].thread
         /\ \E op \in Op : feed' = Append(feed, op) /\ PostOk(feed', canon', Len(feed) + 1)
<1>1. canon \in [Channel -> Seq(Known)] /\ feed \in Seq(Op) /\ Len(feed) \in Nat
  BY DEF FeedOk
<1>2. \A c \in Channel : canon[c] \in Seq(Known) /\ Len(canon[c]) \in Nat /\ DOMAIN canon[c] = 1..Len(canon[c])
  BY <1>1
<1>3. \E op \in Op : feed' = Append(feed, op)
  BY FeedStepOk
<1>4. \A op \in Op : feed' = Append(feed, op) =>
        feed'[Len(feed) + 1] = op /\ \A i \in 1..Len(feed) : feed'[i] = feed[i]
  BY <1>1, FeedGrows
<1>5. CASE \E c \in Channel, m \in Id, b \in Body, t \in 0..MaxSeq : PostApplied(c, m, b, t)
  <2>1. PICK c \in Channel, m \in Id, b \in Body, t \in 0..MaxSeq : PostApplied(c, m, b, t)
    BY <1>5
  <2> DEFINE n == Len(canon[c]) + 1
             k == [thread |-> t, rev |-> 0, deleted |-> FALSE]
             x == [kind |-> "post", chan |-> c, seq |-> n, id |-> m, body |-> b, thread |-> t]
  <2>2. /\ Namespace(c) /\ feed' = Append(feed, x) /\ canon' = [canon EXCEPT ![c] = Append(@, k)]
        /\ \A i \in 1..Len(feed) : feed[i].kind = "post" => feed[i].id # m
        /\ t # 0 => t \in DOMAIN canon[c] /\ canon[c][t].thread = 0
    BY Zenon, <2>1 DEF PostApplied, Apply
  <2>3. /\ x.kind = "post" /\ x.chan = c /\ x.seq = n /\ x.id = m /\ x.thread = t
        /\ k.thread = t /\ k \in Known
    BY ChatAssumption DEF Known
  <2>4. PICK op \in Op : feed' = Append(feed, op)
    BY <1>3
  <2> HIDE DEF k, x
  <2>5. op = x
    BY Zenon, <1>1, <2>2, <2>4, LastAppended
  <2>6. canon' \in [Channel -> Seq(Known)] /\ canon'[c] = Append(canon[c], k)
        /\ \A d \in Channel : d # c => canon'[d] = canon[d]
    BY <1>1, <2>2, <2>3
  <2>7. /\ DOMAIN canon'[c] = 1..n /\ canon'[c][n] = k /\ n \in 1..n
        /\ \A i \in 1..Len(canon[c]) : i \in 1..n /\ canon'[c][i] = canon[c][i]
    BY <1>2, <2>3, <2>6
  <2>8. ASSUME NEW d \in Channel, NEW s \in DOMAIN canon[d]
        PROVE  s \in DOMAIN canon'[d] /\ canon'[d][s].thread = canon[d][s].thread
    BY Zenon, <1>2, <2>6, <2>7
  <2>9. PostOk(feed', canon', Len(feed) + 1)
    <3>1. feed'[Len(feed) + 1] = x /\ \A i \in 1..Len(feed) : feed'[i] = feed[i]
      BY Zenon, <1>4, <2>4, <2>5
    <3>2. (Len(feed) + 1) - 1 = Len(feed)
      BY <1>1
    <3>3. \A i \in 1..(Len(feed) + 1) - 1 : feed'[i].kind = "post" => feed'[i].id # x.id
      BY Zenon, <2>2, <2>3, <3>1, <3>2
    <3>4. x.thread # 0 => IsRoot(canon', c, x.thread)
      BY Zenon, <2>2, <2>3, <2>8 DEF IsRoot
    <3>5. x.seq \in DOMAIN canon'[x.chan] /\ canon'[x.chan][x.seq].thread = x.thread
      BY Zenon, <2>3, <2>7
    <3>6. Namespace(x.chan) /\ x.chan = c
      BY Zenon, <2>2, <2>3
    <3>7. QED
      BY Zenon, <3>1, <3>3, <3>4, <3>5, <3>6 DEF PostOk
  <2>10. QED
    BY Zenon, <2>4, <2>8, <2>9
<1>6. ASSUME \A c \in Channel : \A s \in DOMAIN canon[c] :
               s \in DOMAIN canon'[c] /\ canon'[c][s].thread = canon[c][s].thread,
             NEW x, feed' = Append(feed, x), x.kind # "post"
      PROVE  \E op \in Op : feed' = Append(feed, op) /\ PostOk(feed', canon', Len(feed) + 1)
  <2>1. PICK op \in Op : feed' = Append(feed, op)
    BY <1>3
  <2>2. op = x
    BY Zenon, <1>1, <1>6, <2>1, LastAppended
  <2>3. feed'[Len(feed) + 1] = x
    BY Zenon, <1>4, <2>1, <2>2
  <2>4. QED
    BY Zenon, <1>6, <2>1, <2>3 DEF PostOk
<1>7. CASE \E c \in Channel, s \in Seqs, b \in Body : EditApplied(c, s, b)
  <2>1. PICK c \in Channel, s \in Seqs, b \in Body : EditApplied(c, s, b)
    BY <1>7
  <2> DEFINE x == [kind |-> "edit", chan |-> c, seq |-> s, body |-> b, rev |-> canon[c][s].rev + 1]
  <2>2. s \in DOMAIN canon[c] /\ feed' = Append(feed, x) /\ canon' = [canon EXCEPT ![c][s].rev = @ + 1]
    BY Zenon, <2>1 DEF EditApplied, Apply
  <2>3. x.kind # "post"
    OBVIOUS
  <2> HIDE DEF x
  <2>4. ASSUME NEW d \in Channel, NEW i \in DOMAIN canon[d]
        PROVE  i \in DOMAIN canon'[d] /\ canon'[d][i].thread = canon[d][i].thread
    <3>1. canon[d][i] \in Known
      BY <1>2
    <3>2. QED
      BY <1>1, <2>2, <3>1 DEF Known
  <2>5. QED
    BY Zenon, <1>6, <2>2, <2>3, <2>4
<1>8. CASE \E c \in Channel, s \in Seqs : DeleteApplied(c, s)
  <2>1. PICK c \in Channel, s \in Seqs : DeleteApplied(c, s)
    BY <1>8
  <2> DEFINE x == [kind |-> "delete", chan |-> c, seq |-> s]
  <2>2. s \in DOMAIN canon[c] /\ feed' = Append(feed, x) /\ canon' = [canon EXCEPT ![c][s].deleted = TRUE]
    BY Zenon, <2>1 DEF DeleteApplied, Apply
  <2>3. x.kind # "post"
    OBVIOUS
  <2> HIDE DEF x
  <2>4. ASSUME NEW d \in Channel, NEW i \in DOMAIN canon[d]
        PROVE  i \in DOMAIN canon'[d] /\ canon'[d][i].thread = canon[d][i].thread
    <3>1. canon[d][i] \in Known
      BY <1>2
    <3>2. QED
      BY <1>1, <2>2, <3>1 DEF Known
  <2>5. QED
    BY Zenon, <1>6, <2>2, <2>3, <2>4
<1>9. CASE \E c \in Channel, s \in Seqs, e \in Emoji, p \in Party, a \in BOOLEAN : ReactApplied(c, s, e, p, a)
  <2>1. PICK c \in Channel, s \in Seqs, e \in Emoji, p \in Party, a \in BOOLEAN : ReactApplied(c, s, e, p, a)
    BY <1>9
  <2> DEFINE x == [kind |-> "react", chan |-> c, seq |-> s, emoji |-> e, who |-> p, added |-> a]
  <2>2. feed' = Append(feed, x) /\ canon' = canon
    BY Zenon, <2>1 DEF ReactApplied, Apply
  <2>3. x.kind # "post"
    OBVIOUS
  <2> HIDE DEF x
  <2>4. QED
    BY Zenon, <1>6, <2>2, <2>3
<1>10. QED
  BY Zenon, <1>5, <1>7, <1>8, <1>9 DEF FeedStep

(* Operations that are applied and not folded leave the index as it is.     *)
LEMMA FeedThreadsOk ==
  ASSUME FeedOk, RowsOk, ThreadsOk, FeedStep, UNCHANGED index
  PROVE  ThreadsOk'
<1>1. /\ \A c \in Channel : \A s \in DOMAIN canon[c] :
           s \in DOMAIN canon'[c] /\ canon'[c][s].thread = canon[c][s].thread
      /\ \E op \in Op : feed' = Append(feed, op) /\ PostOk(feed', canon', Len(feed) + 1)
  BY FeedThreads
<1>2. tip' = tip /\ row' = row /\ reply' = reply /\ root' = root
  BY DEF index
<1>3. feed \in Seq(Op) /\ Len(feed) \in Nat /\ tip \in 0..Len(feed)
  BY DEF FeedOk, RowsOk
<1>4. /\ Len(feed') = Len(feed) + 1 /\ PostOk(feed', canon', Len(feed) + 1)
      /\ \A i \in 1..Len(feed) : feed'[i] = feed[i]
  <2>1. PICK op \in Op : feed' = Append(feed, op) /\ PostOk(feed', canon', Len(feed) + 1)
    BY Zenon, <1>1
  <2>2. Len(feed') = Len(feed) + 1 /\ \A i \in 1..Len(feed) : feed'[i] = feed[i]
    BY <1>3, <2>1, FeedGrows
  <2>3. QED
    BY Zenon, <2>1, <2>2
<1>5. ASSUME NEW j \in 1..Len(feed')
      PROVE  PostOk(feed', canon', j)
  <2>1. CASE j = Len(feed) + 1
    BY <1>4, <2>1
  <2>2. CASE j # Len(feed) + 1
    <3>1. j \in 1..Len(feed) /\ \A i \in 1..j - 1 : i \in 1..Len(feed)
      BY <1>3, <1>4, <2>2
    <3>2. PostOk(feed, canon, j) /\ feed'[j] = feed[j] /\ feed[j] \in Op
      BY <1>3, <1>4, <3>1 DEF ThreadsOk
    <3>3. feed[j].chan \in Channel
      BY <3>2 DEF Op
    <3> DEFINE x == feed[j]
    <3>4. ASSUME x.kind = "post"
          PROVE  /\ Namespace(x.chan)
                 /\ x.seq \in DOMAIN canon'[x.chan] /\ canon'[x.chan][x.seq].thread = x.thread
                 /\ x.thread # 0 => IsRoot(canon', x.chan, x.thread)
      BY Zenon, <1>1, <3>2, <3>3, <3>4 DEF PostOk, IsRoot
    <3>5. ASSUME x.kind = "post"
          PROVE  \A i \in 1..j - 1 : feed'[i].kind = "post" => feed'[i].id # x.id
      BY Zenon, <1>4, <3>1, <3>2, <3>5 DEF PostOk
    <3> HIDE DEF x
    <3>6. feed'[j] = x
      BY Zenon, <3>2 DEF x
    <3>7. QED
      BY Zenon, <3>4, <3>5, <3>6 DEF PostOk
  <2>3. QED
    BY <2>1, <2>2
<1>6. ASSUME NEW c \in Channel, NEW s \in Seqs, row[c][s] # None
      PROVE  PostedAs(feed', tip, c, s, row[c][s])
  <2>1. \A i \in 1..tip : i \in 1..Len(feed)
    BY <1>3
  <2>2. QED
    BY Zenon, <1>4, <1>6, <2>1 DEF ThreadsOk, PostedAs
<1>7. MarkersOk'
  BY <1>2 DEF ThreadsOk, MarkersOk
<1>8. QED
  BY Zenon, <1>2, <1>5, <1>6, <1>7 DEF ThreadsOk

(* A fold gives the message it posts a head, and no other; a head keeps its *)
(* id and its thread.                                                       *)
LEMMA FoldKeeps ==
  ASSUME FeedOk, RowsOk, Fold
  PROVE  LET op == feed[tip + 1] IN
         /\ tip \in Nat /\ tip < Len(feed) /\ Len(feed) \in Nat
         /\ op \in Op /\ op.chan \in Channel /\ op.seq \in Seqs
         /\ feed' = feed /\ canon' = canon /\ walk' = walk /\ tip' = tip + 1
         /\ \A d \in Channel, x \in Seqs : row[d][x] # None =>
              row'[d][x] # None /\ row'[d][x].id = row[d][x].id /\ row'[d][x].thread = row[d][x].thread
         /\ \A d \in Channel, x \in Seqs : row[d][x] = None /\ row'[d][x] # None =>
              OpOn(op, "post", d, x) /\ row'[d][x].id = op.id /\ row'[d][x].thread = op.thread
         /\ \/ UNCHANGED <<root, reply>>
            \/ /\ op.kind = "post" /\ row'[op.chan][op.seq] # None /\ row'[op.chan][op.seq].thread = op.thread
               /\ IF op.thread = 0
                  THEN root' = root \cup {<<op.chan, op.seq>>} /\ UNCHANGED reply
                  ELSE reply' = reply \cup {<<op.chan, op.thread, op.seq>>} /\ UNCHANGED root
<1> DEFINE op == feed[tip + 1]
           c == op.chan
           s == op.seq
           old == row[c][s]
<1>1. PICK kind \in {"post", "edit", "delete", "react"} : FoldNext(kind)
  BY Zenon DEF Fold, FoldPost, FoldEdit, FoldDelete, FoldReact
<1>2. /\ tip \in Nat /\ tip < Len(feed) /\ Len(feed) \in Nat
      /\ op \in Op /\ op.kind = kind /\ c \in Channel /\ s \in Seqs
      /\ feed' = feed /\ tip' = tip + 1
      /\ row' = [row EXCEPT ![c] = RowsAfter(row[c], op)]
      /\ row[c] \in Rows
  BY <1>1, FoldFacts
<1>3. canon' = canon /\ walk' = walk
  BY <1>1 DEF FoldNext, source
<1>4. row \in [Channel -> Rows]
  BY DEF RowsOk
<1> HIDE DEF op
<1>5. CASE kind = "post"
  <2>1. /\ row[c][s] = None
        /\ row' \in [Channel -> Rows] /\ row'[c][s] = Posted(op)
        /\ op.thread \in Seqs /\ row[c][op.thread] # None => RepliedTo(row[c][op.thread], row'[c][op.thread], s)
        /\ \A d \in Channel, x \in Seqs :
             (d = c /\ x = s) \/ (d = c /\ x = op.thread /\ row[c][op.thread] # None) \/ row'[d][x] = row[d][x]
    <3>1. FoldNext("post") /\ op = feed[tip + 1]
      BY Zenon, <1>1, <1>5 DEF op
    <3>2. QED
      BY <3>1, PostedRows
  <2>2. Posted(op).id = op.id /\ Posted(op).thread = op.thread
    BY DEF Posted
  <2>3. row'[c][s] # None
    <3>1. op.kind = "post" /\ op.body \in Body /\ op.id \in Id /\ op.thread \in 0..MaxSeq
      BY <1>2, <1>5 DEF Op
    <3>2. Posted(op) \in Row
      BY <3>1, ChatAssumption DEF Posted, Row, Empty
    <3>3. QED
      BY Zenon, <2>1, <3>2, ChatAssumption
  <2>4. OpOn(op, "post", c, s)
    BY <1>2, <1>5 DEF OpOn
  <2>5. FoldPost
    BY Zenon, <1>1, <1>2, <1>5 DEF Fold, FoldPost, FoldEdit, FoldDelete, FoldReact, FoldNext, op
  <2>6. IF op.thread = 0
        THEN root' = root \cup {<<c, s>>} /\ UNCHANGED reply
        ELSE reply' = reply \cup {<<c, op.thread, s>>} /\ UNCHANGED root
    BY Zenon, <2>5 DEF FoldPost, op
  <2>7. ASSUME NEW d \in Channel, NEW x \in Seqs, row[d][x] # None
        PROVE  row'[d][x] # None /\ row'[d][x].id = row[d][x].id /\ row'[d][x].thread = row[d][x].thread
    BY Zenon, <2>1, <2>7 DEF RepliedTo
  <2>8. ASSUME NEW d \in Channel, NEW x \in Seqs, row[d][x] = None, row'[d][x] # None
        PROVE  OpOn(op, "post", d, x) /\ row'[d][x].id = op.id /\ row'[d][x].thread = op.thread
    BY Zenon, <2>1, <2>2, <2>4, <2>8
  <2>9. row'[c][s].thread = op.thread /\ op.kind = "post"
    BY Zenon, <1>2, <1>5, <2>1, <2>2
  <2>10. QED
    BY Zenon, <1>2, <1>3, <2>3, <2>6, <2>7, <2>8, <2>9 DEF op
<1>6. CASE kind # "post"
  <2>1. UNCHANGED <<root, reply>>
    BY Zenon, <1>1, <1>2, <1>6 DEF Fold, FoldPost, FoldEdit, FoldDelete, FoldReact, FoldNext, op
  <2> DEFINE rows == RowsAfter(row[c], op)
  <2>2. \/ rows = row[c]
        \/ /\ old # None
           /\ \/ op.kind = "edit" /\ rows = [row[c] EXCEPT ![s] = Edited(old, op)]
              \/ rows = [row[c] EXCEPT ![s] = Tombstone(old)]
              \/ op.kind = "react" /\ rows = [row[c] EXCEPT ![s] = Reacted(old, op)]
    <3>1. old = row[c][op.seq] /\ op.kind \in {"edit", "delete", "react"}
      BY <1>1, <1>2, <1>6
    <3> HIDE DEF old, s
    <3>2. s = op.seq
      BY DEF s
    <3>3. /\ op.kind = "edit" => rows = IF old = None \/ old.deleted THEN row[c] ELSE [row[c] EXCEPT ![op.seq] = Edited(old, op)]
          /\ op.kind = "delete" => rows = IF old = None THEN row[c] ELSE [row[c] EXCEPT ![op.seq] = Tombstone(old)]
          /\ op.kind = "react" => rows = IF old = None THEN row[c] ELSE [row[c] EXCEPT ![op.seq] = Reacted(old, op)]
      BY <3>1, RowsAfterIs
    <3> HIDE DEF rows
    <3>4. QED
      BY Zenon, <3>1, <3>2, <3>3
  <2>3. CASE rows = row[c]
    <3>1. row' = row
      BY <1>2, <1>4, <2>3
    <3>2. QED
      BY Zenon, <1>2, <1>3, <2>1, <3>1 DEF op
  <2>4. ASSUME old # None, NEW new, new \in Row, rows = [row[c] EXCEPT ![s] = new],
               new.id = old.id, new.thread = old.thread
        PROVE  \A d \in Channel, x \in Seqs :
                 /\ row'[d][x] # None <=> row[d][x] # None
                 /\ row[d][x] # None => row'[d][x].id = row[d][x].id /\ row'[d][x].thread = row[d][x].thread
    <3>1. new # None
      BY ChatAssumption, <2>4
    <3>2. /\ row' = [row EXCEPT ![c] = [row[c] EXCEPT ![s] = new]]
          /\ row[c] \in [Seqs -> Row \cup {None}]
      BY Zenon, <1>2, <2>4 DEF Rows
    <3>3. \A d \in Channel, x \in Seqs : row'[d][x] = IF d = c /\ x = s THEN new ELSE row[d][x]
      BY <1>2, <1>4, <3>2
    <3>4. QED
      BY Zenon, <2>4, <3>1, <3>3
  <2>5. ASSUME rows # row[c]
        PROVE  \A d \in Channel, x \in Seqs :
                 /\ row'[d][x] # None <=> row[d][x] # None
                 /\ row[d][x] # None => row'[d][x].id = row[d][x].id /\ row'[d][x].thread = row[d][x].thread
    <3>1. old # None /\ old \in Row
      BY <1>2, <2>2, <2>5 DEF Rows
    <3>2. Tombstone(old) \in Row /\ Tombstone(old).id = old.id /\ Tombstone(old).thread = old.thread
      BY <3>1 DEF Tombstone, Row
    <3>3. op.kind = "edit" => Edited(old, op) \in Row /\ Edited(old, op).id = old.id /\ Edited(old, op).thread = old.thread
      BY <1>2, <3>1 DEF Edited, Row, Op
    <3>4. op.kind = "react" => Reacted(old, op) \in Row /\ Reacted(old, op).id = old.id /\ Reacted(old, op).thread = old.thread
      <4>1. op.kind = "react" => op.emoji \in Emoji /\ op.who \in Party /\ op.added \in BOOLEAN
        BY <1>2 DEF Op
      <4>2. ASSUME NEW S \in SUBSET (Emoji \X Party)
            PROVE  LET r == [old EXCEPT !.reacts = S] IN r \in Row /\ r.id = old.id /\ r.thread = old.thread
        BY <3>1 DEF Row
      <4>3. old.reacts \in SUBSET (Emoji \X Party)
        BY <3>1 DEF Row
      <4> DEFINE S == IF op.added THEN old.reacts \cup {<<op.emoji, op.who>>} ELSE old.reacts \ {<<op.emoji, op.who>>}
      <4>4. op.kind = "react" => S \in SUBSET (Emoji \X Party)
        BY <4>1, <4>3
      <4>5. Reacted(old, op) = [old EXCEPT !.reacts = S]
        BY DEF Reacted
      <4> HIDE DEF S
      <4>6. QED
        BY Zenon, <4>2, <4>4, <4>5
    <3> HIDE DEF rows, old
    <3>5. QED
      BY Zenon, <2>2, <2>4, <2>5, <3>1, <3>2, <3>3, <3>4
  <2>6. CASE rows # row[c]
    BY Zenon, <1>2, <1>3, <2>1, <2>5, <2>6 DEF op
  <2>7. QED
    BY Zenon, <2>3, <2>6
<1>7. QED
  BY Zenon, <1>5, <1>6

(* A fold marks the message it posts, in the thread of its post.            *)
LEMMA FoldThreadsOk ==
  ASSUME FeedOk, RowsOk, ThreadsOk, Fold
  PROVE  ThreadsOk'
<1> DEFINE op == feed[tip + 1]
<1>1. /\ tip \in Nat /\ tip < Len(feed) /\ Len(feed) \in Nat
      /\ op \in Op /\ op.chan \in Channel /\ op.seq \in Seqs
      /\ feed' = feed /\ canon' = canon /\ tip' = tip + 1
      /\ \A d \in Channel, x \in Seqs : row[d][x] # None =>
           row'[d][x] # None /\ row'[d][x].id = row[d][x].id /\ row'[d][x].thread = row[d][x].thread
      /\ \A d \in Channel, x \in Seqs : row[d][x] = None /\ row'[d][x] # None =>
           OpOn(op, "post", d, x) /\ row'[d][x].id = op.id /\ row'[d][x].thread = op.thread
      /\ \/ UNCHANGED <<root, reply>>
         \/ /\ op.kind = "post" /\ row'[op.chan][op.seq] # None /\ row'[op.chan][op.seq].thread = op.thread
            /\ IF op.thread = 0
               THEN root' = root \cup {<<op.chan, op.seq>>} /\ UNCHANGED reply
               ELSE reply' = reply \cup {<<op.chan, op.thread, op.seq>>} /\ UNCHANGED root
  BY Zenon, FoldKeeps
<1>2. tip + 1 \in 1..tip + 1 /\ \A i \in 1..tip : i \in 1..tip + 1
  BY <1>1
<1>3. \A j \in 1..Len(feed') : PostOk(feed', canon', j)
  BY Zenon, <1>1 DEF ThreadsOk
<1>4. ASSUME NEW c \in Channel, NEW s \in Seqs, row'[c][s] # None
      PROVE  PostedAs(feed', tip', c, s, row'[c][s])
  <2>1. CASE row[c][s] # None
    <3>1. PostedAs(feed, tip, c, s, row[c][s])
      BY Zenon, <2>1 DEF ThreadsOk
    <3>2. QED
      BY Zenon, <1>1, <1>2, <2>1, <3>1 DEF PostedAs
  <2>2. CASE row[c][s] = None
    <3>1. OpOn(op, "post", c, s) /\ row'[c][s].id = op.id /\ row'[c][s].thread = op.thread
      BY Zenon, <1>1, <1>4, <2>2
    <3>2. QED
      BY Zenon, <1>1, <1>2, <3>1 DEF PostedAs
  <2>3. QED
    BY Zenon, <2>1, <2>2
<1> HIDE DEF op
<1>5. MarkersOk'
  <2>1. /\ root \subseteq Channel \X Seqs
        /\ \A c \in Channel, s \in Seqs : <<c, s>> \in root => row[c][s] # None /\ row[c][s].thread = 0
        /\ \A c \in Channel, t \in Seqs, s \in Seqs : <<c, t, s>> \in reply => row[c][s] # None /\ row[c][s].thread = t
    BY Zenon DEF ThreadsOk, MarkersOk
  <2>2. \A d \in Channel, x \in Seqs : row[d][x] # None => row'[d][x] # None /\ row'[d][x].thread = row[d][x].thread
    BY Zenon, <1>1
  <2>3. \/ root' = root
        \/ /\ root' = root \cup {<<op.chan, op.seq>>}
           /\ row'[op.chan][op.seq] # None /\ row'[op.chan][op.seq].thread = 0
    BY <1>1
  <2>4. \/ reply' = reply
        \/ /\ reply' = reply \cup {<<op.chan, op.thread, op.seq>>}
           /\ row'[op.chan][op.seq] # None /\ row'[op.chan][op.seq].thread = op.thread
    BY <1>1
  <2>5. root' \subseteq Channel \X Seqs
    BY <1>1, <2>1, <2>3
  <2>6. ASSUME NEW c \in Channel, NEW s \in Seqs, <<c, s>> \in root'
        PROVE  row'[c][s] # None /\ row'[c][s].thread = 0
    <3>1. <<c, s>> \in root \/ (row'[c][s] # None /\ row'[c][s].thread = 0)
      BY <2>3, <2>6
    <3>2. CASE <<c, s>> \in root
      <4>1. row[c][s] # None /\ row[c][s].thread = 0
        BY Zenon, <2>1, <3>2
      <4>2. QED
        BY Zenon, <2>2, <4>1
    <3>3. QED
      BY Zenon, <3>1, <3>2
  <2>7. ASSUME NEW c \in Channel, NEW t \in Seqs, NEW s \in Seqs, <<c, t, s>> \in reply'
        PROVE  row'[c][s] # None /\ row'[c][s].thread = t
    <3>1. <<c, t, s>> \in reply \/ (row'[c][s] # None /\ row'[c][s].thread = t)
      BY <2>4, <2>7
    <3>2. CASE <<c, t, s>> \in reply
      <4>1. row[c][s] # None /\ row[c][s].thread = t
        BY Zenon, <2>1, <3>2
      <4>2. QED
        BY Zenon, <2>2, <4>1
    <3>3. QED
      BY Zenon, <3>1, <3>2
  <2>8. QED
    BY Zenon, <2>5, <2>6, <2>7 DEF MarkersOk
<1>6. QED
  BY Zenon, <1>3, <1>4, <1>5 DEF ThreadsOk

(* Nothing is posted and nothing is marked at first.                        *)
LEMMA InitThreadsOk ==
  ASSUME ClientInit
  PROVE  ThreadsOk
<1>1. /\ feed = <<>> /\ root = {} /\ reply = {}
      /\ row = [c \in Channel |-> [s \in Seqs |-> None]]
  BY Zenon DEF ClientInit, Init
<1>2. Len(feed) = 0 /\ \A j \in 1..0 : FALSE
  BY <1>1
<1>3. \A c \in Channel, s \in Seqs : row[c][s] = None
  BY <1>1
<1>4. MarkersOk
  BY <1>1 DEF MarkersOk
<1>5. QED
  BY <1>2, <1>3, <1>4 DEF ThreadsOk

(* Whatever the step, heads and markers stay those of the posts.            *)
LEMMA StepThreadsOk ==
  ASSUME IndexInv, ThreadsOk, [Next]_vars
  PROVE  ThreadsOk'
<1>1. FeedOk /\ RowsOk
  BY Zenon DEF IndexInv
<1>2. CASE FeedStep /\ UNCHANGED <<index, walk>>
  <2>1. UNCHANGED index
    BY Zenon, <1>2
  <2>2. QED
    BY <1>1, <1>2, <2>1, FeedThreadsOk
<1>3. CASE Fold
  BY <1>1, <1>3, FoldThreadsOk
<1>4. CASE UNCHANGED <<source, index>>
  <2>1. feed' = feed /\ canon' = canon /\ tip' = tip /\ row' = row /\ root' = root /\ reply' = reply
    BY <1>4 DEF source, index
  <2>2. MarkersOk'
    BY <2>1 DEF ThreadsOk, MarkersOk
  <2>3. QED
    BY Zenon, <2>1, <2>2 DEF ThreadsOk
<1>5. QED
  BY Zenon, <1>2, <1>3, <1>4, StepParts

------------------------------------------------------------------------------
(* The walk of a reader.                                                    *)

Walks ==
  [stage : {"paging", "done"}, chan : Channel, thread : 0..MaxSeq, cursor : Nat, seen : Seq(Seqs), want : SUBSET Seqs]

\* In the direction the walk goes, message x comes after y.
After(w, x, y) == IF w.thread = 0 THEN x < y ELSE y < x

\* What the walk has still to read.
Unread(w) == {s \in Markers(w.chan, w.thread) : w.cursor = 0 \/ After(w, s, w.cursor)}

\* What was collected is in order and marked.
Collected(w) == w \in Walks /\ Ascends(w.seen) /\ Elems(w.seen) \subseteq Markers(w.chan, w.thread)

\* Nothing is behind the cursor but what was collected.
Reading(w) ==
  /\ Collected(w)
  /\ w.thread # 0 => row[w.chan][w.thread] # None /\ row[w.chan][w.thread].thread = 0
  /\ w.want \subseteq Markers(w.chan, w.thread)
  /\ \A x \in w.want : x \in Elems(w.seen) \/ x \in Unread(w)
  /\ \A x \in Seqs, y \in Elems(w.seen) : w.cursor = 0 \/ After(w, x, w.cursor) => After(w, x, y)

WalkInv ==
  walk.stage # "none" =>
    \/ walk.stage = "paging" /\ Reading(walk)
    \/ walk.stage = "done" /\ Collected(walk) /\ walk.want \subseteq Elems(walk.seen)

\* A page of the walk w read correctly.
PageRight(w, page) ==
  /\ page.ok = TRUE /\ page.more \in BOOLEAN
  /\ page.seqs \in Seq(Unread(w)) /\ Ascends(page.seqs)
  /\ ~page.more => Elems(page.seqs) = Unread(w)
  /\ page.more => /\ Len(page.seqs) # 0
                  /\ \A x \in Unread(w) :
                       \/ x \in Elems(page.seqs)
                       \/ After(w, x, IF w.thread = 0 THEN page.seqs[1] ELSE page.seqs[Len(page.seqs)])

(* The markers of a thread are finitely many.                               *)
LEMMA MarkersFinite ==
  ASSUME NEW c, NEW t
  PROVE  Markers(c, t) \subseteq Seqs /\ IsFiniteSet(Markers(c, t)) /\ Seqs \subseteq Nat
<1>1. MaxSeq \in Nat
  BY ChatAssumption
<1>2. Seqs \subseteq Nat /\ IsFiniteSet(Seqs)
  BY <1>1, FS_Interval DEF Seqs
<1>3. Markers(c, t) \subseteq Seqs
  BY Zenon DEF Markers
<1>4. QED
  BY <1>2, <1>3, FS_Subset

(* A head is that of a post to a channel no other is nested in, in the      *)
(* thread canonical chat has it in; a reply is not itself replied to.       *)
LEMMA PostOf ==
  ASSUME RowsOk, ThreadsOk, Len(feed) \in Nat, NEW c \in Channel, NEW s \in Seqs, row[c][s] # None
  PROVE  /\ \E i \in 1..Len(feed) : OpOn(feed[i], "post", c, s) /\ feed[i].id = row[c][s].id /\ feed[i].thread = row[c][s].thread
         /\ Namespace(c)
         /\ canon[c][s].thread = row[c][s].thread
         /\ row[c][s].thread # 0 => canon[c][row[c][s].thread].thread = 0
<1>1. PICK i \in 1..tip : OpOn(feed[i], "post", c, s) /\ feed[i].id = row[c][s].id /\ feed[i].thread = row[c][s].thread
  BY Zenon DEF ThreadsOk, PostedAs
<1>2. i \in 1..Len(feed)
  BY DEF RowsOk
<1>3. PostOk(feed, canon, i)
  BY Zenon, <1>2 DEF ThreadsOk
<1>4. feed[i].kind = "post" /\ feed[i].chan = c /\ feed[i].seq = s /\ feed[i].thread = row[c][s].thread
  BY Zenon, <1>1 DEF OpOn
<1>5. Namespace(c) /\ canon[c][s].thread = row[c][s].thread /\ (row[c][s].thread # 0 => canon[c][row[c][s].thread].thread = 0)
  BY <1>3, <1>4 DEF PostOk, IsRoot
<1>6. QED
  BY Zenon, <1>1, <1>2, <1>5

(* No channel has another nested in it: roots are those of posts, and a     *)
(* post is to a channel whose id has no slash.                              *)
LEMMA RootScanIs ==
  ASSUME RowsOk, ThreadsOk, Len(feed) \in Nat, NEW c \in Channel, NEW before
  PROVE  RootScan(c, before) = Newest({s \in Markers(c, 0) : before = 0 \/ s < before})
<1> DEFINE own == {s \in Seqs : <<c, s>> \in root /\ (before = 0 \/ s < before)}
           nested == {z \in root : <<c, z[1]>> \in Nested}
           alien == SetToSeq(nested)
           others == [i \in DOMAIN alien |-> alien[i][2]]
<1>1. ASSUME NEW z \in root
      PROVE  <<c, z[1]>> \notin Nested
  <2>1. z[1] \in Channel /\ z[2] \in Seqs /\ z = <<z[1], z[2]>>
    BY DEF ThreadsOk, MarkersOk
  <2>2. <<z[1], z[2]>> \in root
    BY <2>1
  <2>3. row[z[1]][z[2]] # None
    BY Zenon, <2>1, <2>2 DEF ThreadsOk, MarkersOk
  <2>4. Namespace(z[1])
    BY Zenon, <2>1, <2>3, PostOf
  <2>5. QED
    BY Zenon, <2>4 DEF Namespace
<1>2. nested = {}
  BY Zenon, <1>1
<1>3. others = <<>>
  <2>1. Cardinality(nested) = 0
    BY <1>2, FS_EmptySet
  <2>2. alien = CHOOSE f \in [1..0 -> {}] : IsInjective(f)
    BY Zenon, <1>2, <2>1 DEF SetToSeq
  <2>3. <<>> \in [1..0 -> {}] /\ IsInjective(<<>>)
    BY DEF IsInjective
  <2>4. alien \in [1..0 -> {}]
    BY Zenon, <2>2, <2>3
  <2> HIDE DEF alien
  <2>5. QED
    BY <2>4
<1>4. own = {s \in Markers(c, 0) : before = 0 \/ s < before}
  BY DEF Markers
<1>5. RootScan(c, before) = (IF before = 0 THEN others ELSE <<>>) \o Newest(own)
  BY Zenon DEF RootScan
<1>6. own \in SUBSET Nat /\ IsFiniteSet(own)
  BY MarkersFinite, FS_Subset, <1>4
<1> HIDE DEF own, others
<1>7. Newest(own) \in Seq(own)
  <2> DEFINE a == Ascending(own)
  <2>1. a \in Seq(own) /\ Len(a) \in Nat
    BY <1>6, AscendingElems
  <2> HIDE DEF a
  <2>2. (\A i \in 1..Len(a) : Len(a) - i + 1 \in 1..Len(a)) /\ (\A i \in 1..Len(a) : a[i] \in own)
    BY <2>1
  <2>3. [i \in 1..Len(a) |-> a[Len(a) - i + 1]] \in Seq(own)
    BY <2>1, <2>2
  <2>4. QED
    BY Zenon, <2>3 DEF Newest, Reverse, a
<1>8. QED
  BY <1>3, <1>4, <1>5, <1>7

(* A page of roots is the newest of those unread, oldest first.             *)
LEMMA RootsPageRight ==
  ASSUME RowsOk, ThreadsOk, Len(feed) \in Nat, NEW w \in Walks, w.thread = 0
  PROVE  PageRight(w, PageAt(w))
<1> DEFINE c == w.chan
           S == {s \in Markers(c, 0) : w.cursor = 0 \/ s < w.cursor}
           page == PageOf(Newest(S))
           turned == [page EXCEPT !.seqs = Reverse(@)]
<1>1. c \in Channel
  BY DEF Walks
<1>2. S \in SUBSET Nat /\ IsFiniteSet(S) /\ S \subseteq Seqs
  BY MarkersFinite, FS_Subset
<1>3. Unread(w) = S
  BY DEF Unread, After
<1>4. \A s \in S : <<c, s>> \in root /\ s \in Seqs
  BY DEF Markers
<1> HIDE DEF S, c
<1>5. /\ page.ok = TRUE /\ page.more \in BOOLEAN
      /\ page.seqs \in Seq(S) /\ Reverse(page.seqs) \in Seq(S) /\ Ascends(Reverse(page.seqs))
      /\ ~page.more => Elems(Reverse(page.seqs)) = S
      /\ page.more => Len(Reverse(page.seqs)) # 0
                      /\ \A x \in S : x \in Elems(Reverse(page.seqs)) \/ x < Reverse(page.seqs)[1]
  BY <1>2, NewestPage
<1>6. \A i \in DOMAIN page.seqs : page.seqs[i] \in S
  BY <1>5
<1>7. \A i \in DOMAIN page.seqs : row[c][page.seqs[i]] # None /\ row[c][page.seqs[i]].thread = 0
  BY Zenon, <1>1, <1>4, <1>6 DEF ThreadsOk, MarkersOk
<1>8. PageOf(RootScan(c, w.cursor)) = page
  BY Zenon, <1>1, RootScanIs DEF S
<1>9. turned.ok = page.ok /\ turned.more = page.more /\ turned.seqs = Reverse(page.seqs)
  BY DEF PageOf
<1> HIDE DEF page
<1>10. PageAt(w) = turned
  BY Zenon, <1>7, <1>8 DEF PageAt, RootsPage, c
<1> HIDE DEF turned
<1>11. QED
  BY <1>3, <1>5, <1>9, <1>10 DEF PageRight, After

(* A page of the replies of a root is the oldest of those unread.           *)
LEMMA ThreadPageRight ==
  ASSUME RowsOk, ThreadsOk, NEW w \in Walks, w.thread # 0,
         row[w.chan][w.thread] # None, row[w.chan][w.thread].thread = 0
  PROVE  PageRight(w, PageAt(w))
<1> DEFINE c == w.chan
           t == w.thread
           S == {s \in Seqs : <<c, t, s>> \in reply /\ s > w.cursor}
           page == PageOf(Ascending(S))
<1>1. c \in Channel /\ t \in Seqs /\ w.cursor \in Nat /\ MaxSeq \in Nat
  BY ChatAssumption DEF Walks, Seqs
<1>2. S \in SUBSET Nat /\ IsFiniteSet(S) /\ S \subseteq Seqs
  <2>1. S \subseteq Markers(c, t)
    BY DEF Markers
  <2>2. QED
    BY <2>1, MarkersFinite, FS_Subset
<1>3. Unread(w) = S
  BY <1>1 DEF Unread, After, Markers, Seqs
<1>4. \A s \in S : <<c, t, s>> \in reply /\ s \in Seqs
  OBVIOUS
<1> HIDE DEF S
<1>5. /\ page.ok = TRUE /\ page.more \in BOOLEAN
      /\ page.seqs \in Seq(S) /\ Ascends(page.seqs)
      /\ ~page.more => Elems(page.seqs) = S
      /\ page.more => Len(page.seqs) # 0
                      /\ \A x \in S : x \in Elems(page.seqs) \/ page.seqs[Len(page.seqs)] < x
  BY <1>2, OldestPage
<1>6. \A i \in DOMAIN page.seqs : page.seqs[i] \in S
  BY <1>5
<1>7. \A i \in DOMAIN page.seqs : row[c][page.seqs[i]] # None /\ row[c][page.seqs[i]].thread = t
  <2>1. ASSUME NEW s \in S
        PROVE  row[c][s] # None /\ row[c][s].thread = t
    <3>1. \A d \in Channel, u \in Seqs, x \in Seqs : <<d, u, x>> \in reply => row[d][x] # None /\ row[d][x].thread = u
      BY Zenon DEF ThreadsOk, MarkersOk
    <3>2. <<c, t, s>> \in reply /\ s \in Seqs
      BY <1>4
    <3>3. QED
      BY Zenon, <1>1, <3>1, <3>2
  <2>2. QED
    BY Zenon, <1>6, <2>1
<1>8. PageAt(w) = page
  <2>1. PageAt(w) = ThreadPage(c, t, w.cursor)
    BY Zenon DEF PageAt
  <2>2. ThreadPage(c, t, w.cursor) =
          IF row[c][t] = None \/ row[c][t].thread # 0 THEN PageOf(<<>>)
          ELSE IF \E i \in DOMAIN page.seqs : row[c][page.seqs[i]] = None \/ row[c][page.seqs[i]].thread # t
          THEN Failed
          ELSE page
    BY Zenon DEF ThreadPage, S
  <2> HIDE DEF page
  <2>3. QED
    BY Zenon, <1>7, <2>1, <2>2
<1> HIDE DEF page
<1>9. QED
  BY <1>3, <1>5, <1>8 DEF PageRight, After

\* ab is a sequence over T with the elements of a and those of b.
Joined(T, a, b, ab) == ab \in Seq(T) /\ Len(ab) = Len(a) + Len(b) /\ Elems(ab) = Elems(a) \cup Elems(b)

\* Of two elements of ab, the first is before the second in a or in b, or it is of a and the other of b.
InTurn(a, b, ab) ==
  \A i, j \in DOMAIN ab : i < j =>
    \/ \E k, l \in DOMAIN a : k < l /\ ab[i] = a[k] /\ ab[j] = a[l]
    \/ \E k, l \in DOMAIN b : k < l /\ ab[i] = b[k] /\ ab[j] = b[l]
    \/ ab[i] \in Elems(a) /\ ab[j] \in Elems(b)

(* Two sequences, one after the other.                                      *)
LEMMA JoinIs ==
  ASSUME NEW T, NEW a \in Seq(T), NEW b \in Seq(T)
  PROVE  Joined(T, a, b, a \o b) /\ InTurn(a, b, a \o b)
<1> DEFINE m == Len(a)
           n == Len(b)
           ab == a \o b
<1>1. /\ ab \in Seq(T) /\ Len(ab) = m + n /\ m \in Nat /\ n \in Nat
      /\ \A i \in 1..m + n : ab[i] = IF i <= m THEN a[i] ELSE b[i - m]
      /\ DOMAIN a = 1..m /\ DOMAIN b = 1..n /\ DOMAIN ab = 1..m + n
  OBVIOUS
<1> HIDE DEF m, n, ab
<1>2. \A i \in 1..m + n :
        \/ i \in 1..m /\ i <= m /\ ab[i] = a[i]
        \/ i - m \in 1..n /\ ~(i <= m) /\ ab[i] = b[i - m]
  BY <1>1
<1>3. (\A i \in 1..m : a[i] \in Elems(a)) /\ (\A i \in 1..n : b[i] \in Elems(b))
  BY <1>1 DEF Elems
<1>4. ASSUME NEW i \in 1..m + n, NEW j \in 1..m + n, i < j
      PROVE  \/ \E k, l \in DOMAIN a : k < l /\ ab[i] = a[k] /\ ab[j] = a[l]
             \/ \E k, l \in DOMAIN b : k < l /\ ab[i] = b[k] /\ ab[j] = b[l]
             \/ ab[i] \in Elems(a) /\ ab[j] \in Elems(b)
  <2>1. CASE j <= m
    <3>1. i \in 1..m /\ j \in 1..m /\ ab[i] = a[i] /\ ab[j] = a[j]
      BY <1>1, <1>4, <2>1
    <3>2. QED
      BY Zenon, <1>1, <1>4, <3>1
  <2>2. CASE ~(i <= m)
    <3>1. i - m \in 1..n /\ j - m \in 1..n /\ i - m < j - m /\ ab[i] = b[i - m] /\ ab[j] = b[j - m]
      BY <1>1, <1>4, <2>2
    <3>2. QED
      BY Zenon, <1>1, <3>1
  <2>3. CASE i <= m /\ ~(j <= m)
    <3>1. i \in 1..m /\ j - m \in 1..n /\ ab[i] = a[i] /\ ab[j] = b[j - m]
      BY <1>1, <1>4, <2>3
    <3>2. QED
      BY Zenon, <1>3, <3>1
  <2>4. QED
    BY <1>1, <2>1, <2>2, <2>3
<1>5. ASSUME NEW x \in Elems(ab)
      PROVE  x \in Elems(a) \cup Elems(b)
  <2>1. PICK i \in 1..m + n : x = ab[i]
    BY <1>1 DEF Elems
  <2>2. QED
    BY Zenon, <1>2, <1>3, <2>1
<1>6. ASSUME NEW x \in Elems(a)
      PROVE  x \in Elems(ab)
  <2>1. PICK i \in 1..m : x = a[i]
    BY <1>1 DEF Elems
  <2>2. i \in 1..m + n /\ ab[i] = x
    BY <1>1, <2>1
  <2>3. QED
    BY Zenon, <1>1, <2>2 DEF Elems
<1>7. ASSUME NEW x \in Elems(b)
      PROVE  x \in Elems(ab)
  <2>1. PICK i \in 1..n : x = b[i]
    BY <1>1 DEF Elems
  <2>2. i + m \in 1..m + n /\ ab[i + m] = x
    BY <1>1, <2>1
  <2>3. QED
    BY Zenon, <1>1, <2>2 DEF Elems
<1>8. Elems(ab) = Elems(a) \cup Elems(b)
  BY Zenon, <1>5, <1>6, <1>7
<1>9. Len(ab) = Len(a) + Len(b)
  BY Zenon, <1>1 DEF m, n
<1>10. InTurn(a, b, ab)
  BY Zenon, <1>1, <1>4 DEF InTurn
<1>11. QED
  BY Zenon, <1>1, <1>8, <1>9, <1>10 DEF Joined, ab

(* Two runs of numbers, the first before the second.                        *)
LEMMA JoinAscends ==
  ASSUME NEW a \in Seq(Seqs), NEW b \in Seq(Seqs), Ascends(a), Ascends(b),
         \A x \in Elems(a), y \in Elems(b) : x < y
  PROVE  a \o b \in Seq(Seqs) /\ Ascends(a \o b) /\ Elems(a \o b) = Elems(a) \cup Elems(b)
<1> DEFINE ab == a \o b
<1>1. Joined(Seqs, a, b, ab) /\ InTurn(a, b, ab)
  BY Zenon, JoinIs
<1> HIDE DEF ab
<1>2. ASSUME NEW i \in DOMAIN ab, NEW j \in DOMAIN ab, i < j
      PROVE  ab[i] < ab[j]
  <2>1. CASE \E k, l \in DOMAIN a : k < l /\ ab[i] = a[k] /\ ab[j] = a[l]
    BY Zenon, <2>1 DEF Ascends
  <2>2. CASE \E k, l \in DOMAIN b : k < l /\ ab[i] = b[k] /\ ab[j] = b[l]
    BY Zenon, <2>2 DEF Ascends
  <2>3. CASE ab[i] \in Elems(a) /\ ab[j] \in Elems(b)
    BY Zenon, <2>3
  <2>4. QED
    BY Zenon, <1>1, <1>2, <2>1, <2>2, <2>3 DEF InTurn
<1>3. QED
  BY <1>1, <1>2 DEF Joined, Ascends, ab

(* Turning a page: what was read is added on the side the walk goes.        *)
LEMMA TurnedOk ==
  ASSUME NEW w, Reading(w), w.stage = "paging", NEW page, PageRight(w, page), NEW w2, w2 = Turned(w, page)
  PROVE  \/ w2.stage = "paging" /\ Reading(w2)
         \/ w2.stage = "done" /\ Collected(w2) /\ w2.want \subseteq Elems(w2.seen)
<1> DEFINE seen == IF w.thread = 0 THEN page.seqs \o w.seen ELSE w.seen \o page.seqs
           last == IF w.thread = 0 THEN page.seqs[1] ELSE page.seqs[Len(page.seqs)]
           marked == Markers(w.chan, w.thread)
<1>1. /\ w.stage = "paging" /\ w.chan \in Channel /\ w.thread \in 0..MaxSeq /\ w.cursor \in Nat
      /\ w.seen \in Seq(Seqs) /\ w.want \in SUBSET Seqs /\ MaxSeq \in Nat
      /\ w = [stage |-> w.stage, chan |-> w.chan, thread |-> w.thread, cursor |-> w.cursor, seen |-> w.seen, want |-> w.want]
      /\ Ascends(w.seen) /\ Elems(w.seen) \subseteq marked
  BY ChatAssumption DEF Reading, Collected, Walks
<1>2. /\ page.ok = TRUE /\ page.more \in BOOLEAN
      /\ page.seqs \in Seq(Unread(w)) /\ Ascends(page.seqs)
      /\ ~page.more => Elems(page.seqs) = Unread(w)
      /\ page.more => Len(page.seqs) # 0
      /\ page.more => \A x \in Unread(w) : x \in Elems(page.seqs) \/ After(w, x, last)
  BY Zenon DEF PageRight
<1>3. /\ Unread(w) \subseteq marked /\ marked \subseteq Seqs /\ Seqs \subseteq Nat
      /\ \A x \in Unread(w) : w.cursor = 0 \/ After(w, x, w.cursor)
  BY MarkersFinite DEF Unread
<1>4. /\ \A x \in w.want : x \in Elems(w.seen) \/ x \in Unread(w)
      /\ \A x \in Seqs, y \in Elems(w.seen) : w.cursor = 0 \/ After(w, x, w.cursor) => After(w, x, y)
      /\ w.want \subseteq marked
      /\ w.thread # 0 => row[w.chan][w.thread] # None /\ row[w.chan][w.thread].thread = 0
  BY Zenon DEF Reading
<1> HIDE DEF marked
<1>5. page.seqs \in Seq(Seqs) /\ Elems(page.seqs) \subseteq Unread(w)
  <2>1. page.seqs \in Seq(Unread(w)) /\ Unread(w) \subseteq Seqs
    BY Zenon, <1>2, <1>3
  <2>2. \A i \in DOMAIN page.seqs : page.seqs[i] \in Unread(w)
    BY <2>1
  <2>3. page.seqs \in Seq(Seqs)
    BY <2>1
  <2>4. QED
    BY Zenon, <2>2, <2>3 DEF Elems
<1>6. \A x \in Elems(page.seqs), y \in Elems(w.seen) : After(w, x, y)
  BY Zenon, <1>3, <1>4, <1>5
<1>7. seen \in Seq(Seqs) /\ Ascends(seen) /\ Elems(seen) = Elems(w.seen) \cup Elems(page.seqs)
  <2>1. CASE w.thread = 0
    <3>1. \A x \in Elems(page.seqs), y \in Elems(w.seen) : x < y
      BY Zenon, <1>6, <2>1 DEF After
    <3>2. page.seqs \o w.seen \in Seq(Seqs) /\ Ascends(page.seqs \o w.seen)
          /\ Elems(page.seqs \o w.seen) = Elems(page.seqs) \cup Elems(w.seen)
      BY Zenon, <1>1, <1>2, <1>5, <3>1, JoinAscends
    <3>3. QED
      BY <2>1, <3>2
  <2>2. CASE w.thread # 0
    <3>1. \A x \in Elems(w.seen), y \in Elems(page.seqs) : x < y
      BY Zenon, <1>6, <2>2 DEF After
    <3>2. w.seen \o page.seqs \in Seq(Seqs) /\ Ascends(w.seen \o page.seqs)
          /\ Elems(w.seen \o page.seqs) = Elems(w.seen) \cup Elems(page.seqs)
      BY Zenon, <1>1, <1>2, <1>5, <3>1, JoinAscends
    <3>3. QED
      BY <2>2, <3>2
  <2>3. QED
    BY <2>1, <2>2
<1>8. Elems(seen) \subseteq marked
  BY Zenon, <1>1, <1>3, <1>5, <1>7
<1>9. w2 = [w EXCEPT !.stage = IF ~page.ok THEN "failed" ELSE IF page.more THEN "paging" ELSE "done",
                     !.seen = seen,
                     !.cursor = IF ~page.more THEN w.cursor ELSE IF w.thread = 0 THEN NextBefore(page) ELSE NextReply(page)]
  BY <1>1 DEF Turned
<1> HIDE DEF seen
<1>10. CASE ~page.more
  <2>1. /\ w2.stage = "done" /\ w2.chan = w.chan /\ w2.thread = w.thread /\ w2.cursor = w.cursor
        /\ w2.seen = seen /\ w2.want = w.want /\ w2 \in Walks
    BY <1>1, <1>2, <1>7, <1>9, <1>10 DEF Walks
  <2>2. w2.want \subseteq Elems(w2.seen)
    BY Zenon, <1>2, <1>4, <1>7, <1>10, <2>1
  <2>3. QED
    BY Zenon, <1>7, <1>8, <2>1, <2>2 DEF Collected, marked
<1>11. CASE page.more
  <2>1. last \in Elems(page.seqs) /\ last = (IF w.thread = 0 THEN NextBefore(page) ELSE NextReply(page))
    <3>1. Len(page.seqs) \in Nat /\ Len(page.seqs) # 0 /\ DOMAIN page.seqs = 1..Len(page.seqs)
      BY <1>2, <1>11
    <3>2. 1 \in 1..Len(page.seqs) /\ Len(page.seqs) \in 1..Len(page.seqs)
      BY <3>1
    <3>3. QED
      BY <3>1, <3>2 DEF Elems, NextBefore, NextReply, Last
  <2>2. last \in Seqs /\ last \in Nat /\ last # 0
    <3>1. last \in Seqs
      BY Zenon, <1>3, <1>5, <2>1
    <3> HIDE DEF last
    <3>2. QED
      BY <1>1, <3>1 DEF Seqs
  <2>3. /\ w2.stage = "paging" /\ w2.chan = w.chan /\ w2.thread = w.thread /\ w2.cursor = last
        /\ w2.seen = seen /\ w2.want = w.want /\ w2 \in Walks
    <3> HIDE DEF last
    <3>1. w2 = [w EXCEPT !.stage = "paging", !.seen = seen, !.cursor = last]
      BY <1>2, <1>9, <1>11, <2>1
    <3>2. QED
      BY <1>1, <1>7, <2>2, <3>1 DEF Walks
  <2>4. \A y \in Elems(page.seqs) : y = last \/ After(w, last, y)
    <3>1. Len(page.seqs) \in Nat /\ Len(page.seqs) # 0 /\ DOMAIN page.seqs = 1..Len(page.seqs)
      BY <1>2, <1>11
    <3> DEFINE k == Len(page.seqs)
    <3>2. \A i \in 1..k : (i = k \/ i < k) /\ (i = 1 \/ 1 < i) /\ k \in 1..k /\ 1 \in 1..k
      BY <3>1
    <3>3. \A i, j \in 1..k : i < j => page.seqs[i] < page.seqs[j]
      BY Zenon, <1>2, <3>1 DEF Ascends
    <3>4. \A y \in Elems(page.seqs) : \E i \in 1..k : y = page.seqs[i]
      BY Zenon, <3>1 DEF Elems
    <3> HIDE DEF k
    <3>5. ASSUME NEW y \in Elems(page.seqs)
          PROVE  y = last \/ After(w, last, y)
      <4>1. PICK i \in 1..k : y = page.seqs[i]
        BY Zenon, <3>4
      <4>2. CASE w.thread = 0
        <5>1. last = page.seqs[1] /\ (i = 1 \/ 1 < i) /\ 1 \in 1..k
          BY Zenon, <3>2, <4>2
        <5>2. QED
          BY Zenon, <3>3, <4>1, <4>2, <5>1 DEF After
      <4>3. CASE w.thread # 0
        <5>1. last = page.seqs[k] /\ (i = k \/ i < k) /\ k \in 1..k
          BY Zenon, <3>2, <4>3 DEF k
        <5>2. QED
          BY Zenon, <3>3, <4>1, <4>3, <5>1 DEF After
      <4>4. QED
        BY Zenon, <4>2, <4>3
    <3>6. QED
      BY <3>5
  <2> HIDE DEF last
  <2>5. ASSUME NEW x \in Seqs, NEW y \in Elems(seen), After(w, x, last)
        PROVE  After(w, x, y)
    <3>0. x \in Nat /\ last \in Nat /\ y \in Nat
      BY <1>3, <1>7, <1>8, <2>2
    <3>1. CASE y \in Elems(page.seqs)
      <4>1. y = last \/ After(w, last, y)
        BY <2>4, <3>1
      <4>2. QED
        BY <2>5, <3>0, <4>1 DEF After
    <3>2. CASE y \in Elems(w.seen)
      <4>1. After(w, last, y)
        BY <1>6, <2>1, <3>2
      <4>2. QED
        BY <2>5, <3>0, <4>1 DEF After
    <3>3. QED
      BY <1>7, <3>1, <3>2
  <2>6. ASSUME NEW x \in w.want
        PROVE  x \in Elems(seen) \/ x \in Unread(w2)
    <3>1. x \in Elems(w.seen) \/ x \in Elems(page.seqs) \/ After(w, x, last)
      BY Zenon, <1>2, <1>4, <1>11, <2>6
    <3>2. After(w, x, last) => x \in Unread(w2)
      BY Zenon, <1>4, <2>3, <2>6 DEF Unread, After, marked
    <3>3. QED
      BY Zenon, <1>7, <3>1, <3>2
  <2>7. Reading(w2)
    <3>1. Collected(w2)
      BY Zenon, <1>7, <1>8, <2>3 DEF Collected, marked
    <3>2. \A x \in Seqs, y \in Elems(w2.seen) : w2.cursor = 0 \/ After(w2, x, w2.cursor) => After(w2, x, y)
      BY Zenon, <2>2, <2>3, <2>5 DEF After
    <3>3. \A x \in w2.want : x \in Elems(w2.seen) \/ x \in Unread(w2)
      BY Zenon, <2>3, <2>6
    <3>4. QED
      BY Zenon, <1>4, <2>3, <3>1, <3>2, <3>3 DEF Reading, marked
  <2>8. QED
    BY <2>3, <2>7
<1>12. QED
  BY <1>2, <1>10, <1>11

(* A reader that opens a walk, or goes on with it, reads correctly.         *)
LEMMA WalkStepInv ==
  ASSUME IndexInv, ThreadsOk, WalkInv, WalkStep
  PROVE  WalkInv'
<1>1. RowsOk /\ ThreadsOk /\ Len(feed) \in Nat
  BY DEF IndexInv, FeedOk
<1>2. UNCHANGED <<source, index>>
  BY Zenon DEF WalkStep, TurnPage, OpenWalk
<1>3. row' = row /\ root' = root /\ reply' = reply
  BY <1>2 DEF index
<1>4. ASSUME \/ walk'.stage = "paging" /\ Reading(walk')
             \/ walk'.stage = "done" /\ Collected(walk') /\ walk'.want \subseteq Elems(walk'.seen)
      PROVE  WalkInv'
  <2>1. \A c, t : Markers(c, t)' = Markers(c, t)
    BY Zenon, <1>3 DEF Markers
  <2>2. QED
    BY Zenon, <1>3, <1>4, <2>1 DEF WalkInv, Reading, Collected, Unread
<1>5. ASSUME NEW w, Reading(w), w.stage = "paging", walk' = Turned(w, PageAt(w))
      PROVE  WalkInv'
  <2>1. w \in Walks
    BY Zenon, <1>5 DEF Reading, Collected
  <2>2. PageRight(w, PageAt(w))
    <3>1. CASE w.thread = 0
      BY Zenon, <1>1, <2>1, <3>1, RootsPageRight
    <3>2. CASE w.thread # 0
      BY Zenon, <1>1, <1>5, <2>1, <3>2, ThreadPageRight DEF Reading
    <3>3. QED
      BY <3>1, <3>2
  <2>3. \/ walk'.stage = "paging" /\ Reading(walk')
        \/ walk'.stage = "done" /\ Collected(walk') /\ walk'.want \subseteq Elems(walk'.seen)
    BY Zenon, <1>5, <2>2, TurnedOk
  <2>4. QED
    BY <1>4, <2>3
<1>6. CASE TurnPage
  BY Zenon, <1>5, <1>6 DEF TurnPage, WalkInv
<1>7. ASSUME NEW c \in Channel, NEW t \in 0..MaxSeq, OpenWalk(c, t)
      PROVE  WalkInv'
  <2> DEFINE want == IF t # 0 /\ row[c][t] = None THEN {} ELSE Markers(c, t)
             w == [stage |-> "paging", chan |-> c, thread |-> t, cursor |-> 0, seen |-> <<>>, want |-> want]
  <2>1. walk' = Turned(w, PageAt(w))
    BY Zenon, <1>7 DEF OpenWalk
  <2>2. Markers(c, t) \subseteq Seqs /\ want \in SUBSET Seqs /\ want \subseteq Markers(c, t)
    BY MarkersFinite
  <2> HIDE DEF want
  <2>3. /\ w.stage = "paging" /\ w.chan = c /\ w.thread = t /\ w.cursor = 0 /\ w.seen = <<>> /\ w.want = want
        /\ w \in Walks /\ Ascends(w.seen) /\ Elems(w.seen) = {}
    BY <2>2 DEF Walks, Ascends, Elems
  <2> HIDE DEF w
  <2>4. Collected(w)
    BY Zenon, <2>3 DEF Collected
  <2>5. CASE t = 0 \/ (row[c][t] # None /\ row[c][t].thread = 0)
    <3>1. \A x \in w.want : x \in Unread(w)
      BY Zenon, <2>2, <2>3 DEF Unread
    <3>2. Reading(w)
      BY Zenon, <2>2, <2>3, <2>4, <2>5, <3>1 DEF Reading
    <3>3. QED
      BY Zenon, <1>5, <2>1, <2>3, <3>2
  <2>6. CASE t # 0 /\ (row[c][t] = None \/ row[c][t].thread # 0)
    <3>1. PageAt(w) = PageOf(<<>>)
      BY Zenon, <2>3, <2>6 DEF PageAt, ThreadPage
    <3> DEFINE page == PageOf(<<>>)
    <3>2. page.ok = TRUE /\ page.seqs = <<>> /\ ~page.more
      <4>1. Limit \in Nat /\ Len(<<>>) = 0 /\ SubSeq(<<>>, 1, 0) = <<>>
        BY ChatAssumption
      <4>2. ~(Len(<<>>) > Limit)
        BY <4>1
      <4>3. QED
        BY Zenon, <4>1, <4>2, PageOfIs
    <3>3. want = {}
      <4>1. CASE row[c][t] = None
        BY <2>6, <4>1 DEF want
      <4>2. ASSUME row[c][t] # None, NEW s \in Markers(c, t)
            PROVE  FALSE
        <5>1. t \in Seqs /\ s \in Seqs
          BY <2>2, <2>6, <4>2, ChatAssumption DEF Seqs
        <5>2. canon[c][t].thread = row[c][t].thread
          BY Zenon, <1>1, <4>2, <5>1, PostOf
        <5>3. row[c][s] # None /\ row[c][s].thread = t
          <6>1. <<c, t, s>> \in reply
            BY <2>6, <4>2 DEF Markers
          <6>2. QED
            BY Zenon, <1>1, <5>1, <6>1 DEF ThreadsOk, MarkersOk
        <5>4. canon[c][t].thread = 0
          BY Zenon, <1>1, <2>6, <5>1, <5>3, PostOf
        <5>5. QED
          BY <2>6, <4>2, <5>2, <5>4
      <4>3. QED
        BY Zenon, <2>2, <4>1, <4>2
    <3> HIDE DEF page
    <3>4. walk' = [w EXCEPT !.stage = "done", !.seen = <<>>, !.cursor = 0]
      <4>1. walk' = [w EXCEPT !.stage = IF ~page.ok THEN "failed" ELSE IF page.more THEN "paging" ELSE "done",
                              !.seen = IF w.thread = 0 THEN page.seqs \o @ ELSE @ \o page.seqs,
                              !.cursor = IF ~page.more THEN @ ELSE IF w.thread = 0 THEN NextBefore(page) ELSE NextReply(page)]
        BY Zenon, <2>1, <3>1 DEF Turned, page
      <4>2. w.thread # 0 /\ <<>> \o <<>> = <<>> /\ w \in Walks
        BY <2>3, <2>6
      <4>3. QED
        BY <2>3, <3>2, <4>1, <4>2 DEF Walks
    <3>5. walk'.stage = "done" /\ walk'.want = {} /\ walk' \in Walks /\ walk'.seen = <<>>
      BY <2>3, <3>3, <3>4 DEF Walks
    <3>6. Ascends(walk'.seen) /\ Elems(walk'.seen) = {}
      BY Zenon, <2>3, <3>5
    <3>7. QED
      BY Zenon, <1>4, <3>5, <3>6 DEF Collected
  <2>7. QED
    BY <2>5, <2>6
<1>8. QED
  BY Zenon, <1>6, <1>7 DEF WalkStep

(* A fold only adds markers, and a walk keeps what it has of them.          *)
LEMMA FoldWalkInv ==
  ASSUME IndexInv, ThreadsOk, WalkInv, Fold
  PROVE  WalkInv'
<1>1. FeedOk /\ RowsOk
  BY Zenon DEF IndexInv
<1>2. /\ walk' = walk
      /\ \A d \in Channel, x \in Seqs : row[d][x] # None =>
           row'[d][x] # None /\ row'[d][x].id = row[d][x].id /\ row'[d][x].thread = row[d][x].thread
      /\ root \subseteq root' /\ reply \subseteq reply'
  <2> DEFINE op == feed[tip + 1]
  <2>1. /\ walk' = walk
        /\ \A d \in Channel, x \in Seqs : row[d][x] # None =>
             row'[d][x] # None /\ row'[d][x].id = row[d][x].id /\ row'[d][x].thread = row[d][x].thread
        /\ \/ UNCHANGED <<root, reply>>
           \/ IF op.thread = 0
              THEN root' = root \cup {<<op.chan, op.seq>>} /\ UNCHANGED reply
              ELSE reply' = reply \cup {<<op.chan, op.thread, op.seq>>} /\ UNCHANGED root
    BY Zenon, <1>1, FoldKeeps
  <2> HIDE DEF op
  <2>2. root \subseteq root' /\ reply \subseteq reply'
    BY <2>1
  <2>3. QED
    BY Zenon, <2>1, <2>2
<1>3. \A c, t : Markers(c, t) \subseteq Markers(c, t)'
  BY Zenon, <1>2 DEF Markers
<1>4. CASE walk.stage = "paging" /\ Reading(walk)
  <2>1. walk \in Walks /\ MaxSeq \in Nat
    BY ChatAssumption, <1>4 DEF Reading, Collected
  <2>2. walk.chan \in Channel /\ (walk.thread # 0 => walk.thread \in Seqs)
    BY <2>1 DEF Walks, Seqs
  <2>3. walk.thread # 0 => row'[walk.chan][walk.thread] # None /\ row'[walk.chan][walk.thread].thread = 0
    BY Zenon, <1>2, <1>4, <2>2 DEF Reading
  <2>4. \A x \in walk.want : x \in Elems(walk.seen) \/ x \in Unread(walk)'
    BY Zenon, <1>2, <1>3, <1>4 DEF Reading, Unread
  <2>5. Reading(walk)'
    BY Zenon, <1>2, <1>3, <1>4, <2>3, <2>4 DEF Reading, Collected
  <2>6. QED
    BY Zenon, <1>2, <1>4, <2>5 DEF WalkInv
<1>5. CASE walk.stage = "done" /\ Collected(walk) /\ walk.want \subseteq Elems(walk.seen)
  BY Zenon, <1>2, <1>3, <1>5 DEF WalkInv, Collected
<1>6. CASE walk.stage = "none"
  BY Zenon, <1>2, <1>6 DEF WalkInv
<1>7. QED
  BY Zenon, <1>4, <1>5, <1>6 DEF WalkInv

(* Whatever the step, a walk under way reads correctly.                     *)
LEMMA StepWalkInv ==
  ASSUME IndexInv, ThreadsOk, WalkInv, [Next]_vars
  PROVE  WalkInv'
<1>1. ASSUME UNCHANGED <<index, walk>>
      PROVE  WalkInv'
  <2>1. row' = row /\ root' = root /\ reply' = reply /\ walk' = walk
    BY <1>1 DEF index
  <2>2. QED
    BY Zenon, <2>1 DEF WalkInv, Reading, Collected, Unread, Markers
<1>2. CASE UNCHANGED <<index, walk>>
  BY <1>1, <1>2
<1>3. CASE Fold
  BY Zenon, <1>3, FoldWalkInv
<1>4. CASE WalkStep
  BY Zenon, <1>4, WalkStepInv
<1>5. QED
  BY Zenon, <1>2, <1>3, <1>4, StepParts

(* What reads correctly is complete in the end.                             *)
LEMMA WalkWhole ==
  ASSUME WalkInv
  PROVE  WalkComplete
<1> SUFFICES ASSUME walk.stage # "none"
             PROVE  /\ walk.stage # "failed"
                    /\ \A i \in 1..Len(walk.seen) - 1 : walk.seen[i] < walk.seen[i + 1]
                    /\ Elems(walk.seen) \subseteq Markers(walk.chan, walk.thread)
                    /\ walk.stage = "done" => walk.want \subseteq Elems(walk.seen)
  BY Zenon DEF WalkComplete, Elems
<1>1. Collected(walk) /\ (walk.stage = "paging" \/ (walk.stage = "done" /\ walk.want \subseteq Elems(walk.seen)))
  BY Zenon DEF WalkInv, Reading
<1>2. walk.seen \in Seq(Seqs)
  BY <1>1 DEF Collected, Walks
<1>3. \A i \in 1..Len(walk.seen) - 1 : walk.seen[i] < walk.seen[i + 1]
  <2>1. Len(walk.seen) \in Nat /\ DOMAIN walk.seen = 1..Len(walk.seen) /\ Ascends(walk.seen)
    BY <1>1, <1>2 DEF Collected
  <2>2. \A i \in 1..Len(walk.seen) - 1 : i \in 1..Len(walk.seen) /\ i + 1 \in 1..Len(walk.seen) /\ i < i + 1
    BY <2>1
  <2>3. QED
    BY Zenon, <2>1, <2>2 DEF Ascends
<1>4. QED
  BY <1>1, <1>3 DEF Collected

(* A reader that pages through a channel's roots, or through the replies of *)
(* a root, while operations are folded between its pages, is never refused  *)
(* a page and in the end has every message that was there when it opened,   *)
(* once and in order, whatever ids channels have (index.rs:975-1095).       *)
THEOREM WalkCompleteHolds == Spec => []WalkComplete
<1>1. ClientInit => IndexInv /\ ThreadsOk /\ WalkInv
  <2>1. ClientInit => WalkInv
    BY DEF ClientInit, Init, NoWalk, WalkInv
  <2>2. QED
    BY <2>1, InitIndexInv, InitThreadsOk
<1>2. (IndexInv /\ ThreadsOk /\ WalkInv) /\ [Next]_vars => (IndexInv /\ ThreadsOk /\ WalkInv)'
  BY StepIndexInv, StepThreadsOk, StepWalkInv
<1>3. IndexInv /\ ThreadsOk /\ WalkInv => WalkComplete
  BY WalkWhole
<1>4. QED
  BY <1>1, <1>2, <1>3, PTL DEF Spec

------------------------------------------------------------------------------
(* The window of a client: rows in pairs, each before the next.             *)

\* Row r may stand anywhere before q.
Pair(r, q) == r.id # q.id /\ (IF r.pending THEN q.pending ELSE q.pending \/ r.seq < q.seq)

Neat(rows) == \A i, j \in DOMAIN rows : i < j => Pair(rows[i], rows[j])

(* The values of a function on a finite set.                                *)
LEMMA ImageFinite ==
  ASSUME NEW f, NEW S, f = [x \in S |-> f[x]], IsFiniteSet(S)
  PROVE  IsFiniteSet({f[x] : x \in S})
<1> DEFINE T == {f[x] : x \in S}
<1>1. f \in Surjection(S, T)
  BY DEF Surjection
<1>2. QED
  BY <1>1, FS_Surjection

(* The least of some numbers.                                               *)
LEMMA FirstIs ==
  ASSUME NEW S \in SUBSET Nat, IsFiniteSet(S), 0 \notin S
  PROVE  /\ S = {} => First(S) = 0
         /\ S # {} => First(S) \in S /\ First(S) # 0 /\ \A x \in S : First(S) <= x
<1>1. S = {} => First(S) = 0
  BY DEF First
<1>2. ASSUME S # {}
      PROVE  First(S) \in S /\ \A x \in S : First(S) <= x
  <2> DEFINE a == Ascending(S)
  <2>1. a \in Seq(S) /\ Ascends(a) /\ Elems(a) = S /\ Len(a) \in Nat
    BY AscendingElems
  <2> HIDE DEF a
  <2>2. DOMAIN a = 1..Len(a)
    BY <2>1
  <2>3. ASSUME NEW x \in S
        PROVE  1 \in DOMAIN a /\ a[1] \in S /\ a[1] <= x
    <3>1. PICK i \in DOMAIN a : x = a[i]
      BY <2>1 DEF Elems
    <3>2. 1 \in DOMAIN a /\ (i = 1 \/ 1 < i)
      BY <2>1, <2>2
    <3>3. a[1] \in S /\ a[1] \in Nat
      BY <2>1, <3>2 DEF Elems
    <3>4. i = 1 \/ a[1] < a[i]
      BY Zenon, <2>1, <3>2 DEF Ascends
    <3>5. QED
      BY <3>1, <3>2, <3>3, <3>4
  <2>4. \E x \in S : \A y \in S : x =< y
    BY Zenon, <1>2, <2>3
  <2>5. First(S) = CHOOSE x \in S : \A y \in S : x =< y
    BY Zenon, <1>2 DEF First, Min
  <2>6. QED
    BY <2>4, <2>5
<1>3. QED
  BY <1>1, <1>2

(* The places of a sequence.                                                *)
LEMMA PlacesAre ==
  ASSUME NEW T, NEW rows \in Seq(T)
  PROVE  /\ DOMAIN rows = 1..Len(rows) /\ Len(rows) \in Nat
         /\ DOMAIN rows \subseteq Nat /\ 0 \notin DOMAIN rows
         /\ IsFiniteSet(DOMAIN rows) /\ Cardinality(DOMAIN rows) = Len(rows)
<1> DEFINE n == Len(rows)
<1>1. DOMAIN rows = 1..n /\ n \in Nat /\ n \in Int /\ 1 \in Int
  OBVIOUS
<1> HIDE DEF n
<1>2. IsFiniteSet(1..n) /\ Cardinality(1..n) = IF 1 > n THEN 0 ELSE n - 1 + 1
  BY Zenon, <1>1, FS_Interval
<1>3. Cardinality(1..n) = n
  BY <1>1, <1>2
<1>4. QED
  BY <1>1, <1>2, <1>3 DEF n

(* Rows before the placeholders behind them.                                *)
LEMMA JoinNeat ==
  ASSUME NEW T, NEW a \in Seq(T), NEW b \in Seq(T), Neat(a), Neat(b),
         \A x \in Elems(a), y \in Elems(b) : Pair(x, y)
  PROVE  Joined(T, a, b, a \o b) /\ Neat(a \o b)
<1> DEFINE ab == a \o b
<1>1. Joined(T, a, b, ab) /\ InTurn(a, b, ab)
  BY Zenon, JoinIs
<1> HIDE DEF ab
<1>2. ASSUME NEW i \in DOMAIN ab, NEW j \in DOMAIN ab, i < j
      PROVE  Pair(ab[i], ab[j])
  <2>1. CASE \E k, l \in DOMAIN a : k < l /\ ab[i] = a[k] /\ ab[j] = a[l]
    BY Zenon, <2>1 DEF Neat
  <2>2. CASE \E k, l \in DOMAIN b : k < l /\ ab[i] = b[k] /\ ab[j] = b[l]
    BY Zenon, <2>2 DEF Neat
  <2>3. CASE ab[i] \in Elems(a) /\ ab[j] \in Elems(b)
    BY Zenon, <2>3
  <2>4. QED
    BY Zenon, <1>1, <1>2, <2>1, <2>2, <2>3 DEF InTurn
<1>3. QED
  BY Zenon, <1>1, <1>2 DEF Neat, ab

(* The rows at some of the places.                                          *)
LEMMA PickedIs ==
  ASSUME NEW T, NEW rows \in Seq(T), NEW places \in SUBSET DOMAIN rows
  PROVE  /\ Picked(rows, places) \in Seq(T) /\ Len(Picked(rows, places)) <= Len(rows)
         /\ Elems(Picked(rows, places)) = {rows[i] : i \in places}
         /\ Neat(rows) => Neat(Picked(rows, places))
<1> DEFINE at == Ascending(places)
           part == Picked(rows, places)
<1>1. /\ DOMAIN rows = 1..Len(rows) /\ Len(rows) \in Nat
      /\ IsFiniteSet(DOMAIN rows) /\ Cardinality(DOMAIN rows) = Len(rows)
  BY Zenon, PlacesAre
<1>2. places \in SUBSET Nat /\ IsFiniteSet(places) /\ Cardinality(places) <= Len(rows)
  BY <1>1, FS_Subset
<1>3. at \in Seq(places) /\ Ascends(at) /\ Elems(at) = places /\ Len(at) = Cardinality(places)
  BY <1>2, AscendingElems
<1>4. part = [i \in DOMAIN at |-> rows[at[i]]]
  BY Zenon DEF Picked
<1> HIDE DEF at, part
<1>5. DOMAIN at = 1..Len(at) /\ Len(at) \in Nat /\ \A i \in DOMAIN at : at[i] \in places
  BY <1>3
<1>6. DOMAIN part = DOMAIN at /\ (\A i \in DOMAIN part : part[i] = rows[at[i]])
  BY <1>4
<1>7. \A i \in DOMAIN at : rows[at[i]] \in T
  BY <1>1, <1>5
<1>8. part \in Seq(T) /\ Len(part) <= Len(rows)
  <2>1. part = [i \in 1..Len(at) |-> part[i]]
    BY ONLY <1>4, <1>5
  <2>2. \A i \in 1..Len(at) : part[i] \in T
    BY Zenon, <1>5, <1>6, <1>7
  <2>3. part \in Seq(T) /\ Len(part) = Len(at)
    BY ONLY <1>5, <2>1, <2>2
  <2>4. Len(at) <= Len(rows)
    BY Zenon, <1>2, <1>3
  <2>5. QED
    BY Zenon, <2>3, <2>4
<1>9. Elems(part) = {rows[i] : i \in places}
  <2>1. ASSUME NEW x \in Elems(part) PROVE x \in {rows[i] : i \in places}
    <3>1. PICK i \in DOMAIN part : x = part[i]
      BY Zenon DEF Elems
    <3>2. at[i] \in places /\ x = rows[at[i]]
      BY Zenon, <1>5, <1>6, <3>1
    <3>3. QED
      BY Zenon, <3>2
  <2>2. ASSUME NEW p \in places PROVE rows[p] \in Elems(part)
    <3>1. PICK i \in DOMAIN at : p = at[i]
      BY Zenon, <1>3 DEF Elems
    <3>2. part[i] = rows[p] /\ i \in DOMAIN part
      BY Zenon, <1>6, <3>1
    <3>3. QED
      BY Zenon, <3>2 DEF Elems
  <2>3. QED
    BY Zenon, <2>1, <2>2
<1>10. Neat(rows) => Neat(part)
  <2> SUFFICES ASSUME Neat(rows), NEW i \in DOMAIN part, NEW j \in DOMAIN part, i < j
               PROVE  Pair(part[i], part[j])
    BY Zenon DEF Neat
  <2>1. at[i] < at[j]
    BY Zenon, <1>3, <1>6 DEF Ascends
  <2>2. at[i] \in DOMAIN rows /\ at[j] \in DOMAIN rows
    BY Zenon, <1>5, <1>6
  <2>3. QED
    BY Zenon, <1>6, <2>1, <2>2 DEF Neat
<1>11. QED
  BY Zenon, <1>8, <1>9, <1>10 DEF part

(* A run of rows, from one place to another.                                *)
LEMMA RunIs ==
  ASSUME NEW T, NEW rows \in Seq(T), NEW m \in Nat, NEW n \in Nat, m >= 1, n <= Len(rows)
  PROVE  /\ SubSeq(rows, m, n) \in Seq(T) /\ Len(SubSeq(rows, m, n)) = IF m <= n THEN n - m + 1 ELSE 0
         /\ Elems(SubSeq(rows, m, n)) \subseteq Elems(rows) /\ Elems(SubSeq(rows, m, n)) = {rows[i] : i \in m..n}
         /\ Neat(rows) => Neat(SubSeq(rows, m, n))
<1> DEFINE part == SubSeq(rows, m, n)
<1>1. /\ part \in Seq(T) /\ Len(part) = IF m <= n THEN n - m + 1 ELSE 0
      /\ DOMAIN part = 1..Len(part)
      /\ \A i \in 1..Len(part) : part[i] = rows[i + m - 1]
  OBVIOUS
<1> HIDE DEF part
<1>2. \A i \in DOMAIN part : i + m - 1 \in m..n /\ i + m - 1 \in DOMAIN rows
  BY <1>1
<1>3. \A i \in m..n : i - m + 1 \in DOMAIN part /\ (i - m + 1) + m - 1 = i
  BY <1>1
<1>4. \A i \in m..n : part[i - m + 1] = rows[i]
  BY <1>1, <1>3
<1>5. Elems(part) = {rows[i] : i \in m..n}
  <2>1. ASSUME NEW x \in Elems(part) PROVE x \in {rows[i] : i \in m..n}
    BY Zenon, <1>1, <1>2 DEF Elems
  <2>2. ASSUME NEW i \in m..n PROVE rows[i] \in Elems(part)
    BY Zenon, <1>3, <1>4 DEF Elems
  <2>3. QED
    BY Zenon, <2>1, <2>2
<1>6. Elems(part) \subseteq Elems(rows)
  BY Zenon, <1>1, <1>2 DEF Elems
<1>7. Neat(rows) => Neat(part)
  <2>1. \A i, j \in DOMAIN part : i < j => i + m - 1 < j + m - 1
    BY <1>1
  <2>2. QED
    BY Zenon, <1>1, <1>2, <2>1 DEF Neat
<1>8. QED
  BY Zenon, <1>1, <1>5, <1>6, <1>7 DEF part

(* The last rows.                                                           *)
LEMMA YoungestIs ==
  ASSUME NEW T, NEW rows \in Seq(T), NEW n \in Nat
  PROVE  /\ Youngest(rows, n) \in Seq(T) /\ Len(Youngest(rows, n)) <= n
         /\ Elems(Youngest(rows, n)) \subseteq Elems(rows)
         /\ Neat(rows) => Neat(Youngest(rows, n))
         /\ Neat(rows) => \A x \in Elems(rows) :
              x \in Elems(Youngest(rows, n)) \/ (Len(Youngest(rows, n)) = n /\ \A y \in Elems(Youngest(rows, n)) : Pair(x, y))
<1> DEFINE m == IF Len(rows) > n THEN Len(rows) - n + 1 ELSE 1
           part == Youngest(rows, n)
<1>1. m \in Nat /\ m >= 1 /\ Len(rows) \in Nat /\ Len(rows) <= Len(rows)
      /\ (IF m <= Len(rows) THEN Len(rows) - m + 1 ELSE 0) <= n
  OBVIOUS
<1>2. part = SubSeq(rows, m, Len(rows))
  BY Zenon DEF Youngest
<1> HIDE DEF m, part
<1>3. LET run == SubSeq(rows, m, Len(rows)) IN
      /\ run \in Seq(T) /\ Len(run) = IF m <= Len(rows) THEN Len(rows) - m + 1 ELSE 0
      /\ Elems(run) \subseteq Elems(rows) /\ (Neat(rows) => Neat(run))
      /\ Elems(run) = {rows[i] : i \in m..Len(rows)}
  BY ONLY rows \in Seq(T), <1>1, RunIs
<1>4. /\ part \in Seq(T) /\ Len(part) <= n /\ Elems(part) \subseteq Elems(rows) /\ (Neat(rows) => Neat(part))
      /\ Elems(part) = {rows[i] : i \in m..Len(rows)} /\ Len(part) = IF m <= Len(rows) THEN Len(rows) - m + 1 ELSE 0
  BY ONLY <1>1, <1>2, <1>3
<1>5. ASSUME Neat(rows), NEW x \in Elems(rows), x \notin Elems(part)
      PROVE  Len(part) = n /\ \A y \in Elems(part) : Pair(x, y)
  <2>1. PICK k \in DOMAIN rows : x = rows[k]
    BY Zenon DEF Elems
  <2>2. k \in 1..Len(rows) /\ DOMAIN rows = 1..Len(rows) /\ k \notin m..Len(rows)
    BY <1>4, <1>5, <2>1
  <2>3. k < m /\ m # 1 /\ \A i \in m..Len(rows) : k < i /\ i \in DOMAIN rows
    BY <1>1, <2>2
  <2>4. Len(part) = n
    BY <1>1, <1>4, <2>3 DEF m
  <2>5. QED
    BY Zenon, <1>4, <1>5, <2>1, <2>3, <2>4 DEF Neat
<1>6. QED
  BY Zenon, <1>4, <1>5 DEF part

\* Among committed rows, an id and a sequence name the same message.
Agree(S) == \A r, q \in S : ~r.pending /\ ~q.pending => (r.id = q.id <=> r.seq = q.seq)

(* Rows by sequence.                                                        *)
LEMMA InOrderIs ==
  ASSUME NEW R, IsFiniteSet(R), \A r \in R : r.seq \in Nat, \A r, q \in R : r.seq = q.seq => r = q
  PROVE  /\ InOrder(R) \in Seq(R) /\ Elems(InOrder(R)) = R
         /\ \A i, j \in DOMAIN InOrder(R) : i < j => InOrder(R)[i].seq < InOrder(R)[j].seq
<1> DEFINE f == [r \in R |-> r.seq]
           S == {r.seq : r \in R}
           at == Ascending(S)
           rows == InOrder(R)
<1>1. S = {f[r] : r \in R}
  OBVIOUS
<1>2. IsFiniteSet(S) /\ S \in SUBSET Nat
  <2>1. f = [r \in R |-> f[r]]
    OBVIOUS
  <2> HIDE DEF f
  <2>2. IsFiniteSet({f[r] : r \in R})
    BY <2>1, ImageFinite
  <2>3. QED
    BY <1>1, <2>2
<1>3. at \in Seq(S) /\ Ascends(at) /\ Elems(at) = S /\ Len(at) \in Nat
  BY <1>2, AscendingElems
<1>4. rows = [i \in DOMAIN at |-> CHOOSE r \in R : r.seq = at[i]]
  BY Zenon DEF InOrder
<1> HIDE DEF at, rows
<1>5. DOMAIN at = 1..Len(at) /\ \A i \in DOMAIN at : at[i] \in S
  BY <1>3
<1>6. ASSUME NEW i \in DOMAIN at
      PROVE  rows[i] \in R /\ rows[i].seq = at[i]
  <2>1. \E r \in R : r.seq = at[i]
    BY <1>5
  <2>2. rows[i] = CHOOSE r \in R : r.seq = at[i]
    BY <1>4
  <2>3. QED
    BY Zenon, <2>1, <2>2
<1>7. DOMAIN rows = DOMAIN at
  BY <1>4
<1>8. rows \in Seq(R)
  BY <1>3, <1>4, <1>5, <1>6
<1>9. ASSUME NEW r \in R
      PROVE  r \in Elems(rows)
  <2>1. PICK i \in DOMAIN at : at[i] = r.seq
    BY <1>3 DEF Elems
  <2>2. rows[i] = r
    BY <1>6, <2>1
  <2>3. QED
    BY Zenon, <1>7, <2>2 DEF Elems
<1>10. Elems(rows) = R
  <2>1. ASSUME NEW x \in Elems(rows)
        PROVE  x \in R
    <3>1. PICK i \in DOMAIN rows : x = rows[i]
      BY Zenon DEF Elems
    <3>2. QED
      BY Zenon, <1>6, <1>7, <3>1
  <2>2. QED
    BY Zenon, <1>9, <2>1
<1>11. ASSUME NEW i \in DOMAIN rows, NEW j \in DOMAIN rows, i < j
       PROVE  rows[i].seq < rows[j].seq
  <2>1. at[i] < at[j] /\ rows[i].seq = at[i] /\ rows[j].seq = at[j]
    BY Zenon, <1>3, <1>6, <1>7, <1>11 DEF Ascends
  <2>2. QED
    BY ONLY <2>1
<1>12. QED
  BY Zenon, <1>8, <1>10, <1>11 DEF rows

\* The committed rows and the placeholders of rows.
Parted(T, rows, com, pend) ==
  /\ com \in Seq(T) /\ pend \in Seq(T) /\ Neat(com) /\ Neat(pend)
  /\ \A x \in Elems(com), y \in Elems(pend) : Pair(x, y)
  /\ Elems(rows) = Elems(com) \cup Elems(pend)
  /\ (\A x \in Elems(com) : ~x.pending) /\ \A x \in Elems(pend) : x.pending

(* Committed rows and placeholders apart.                                   *)
LEMMA SplitIs ==
  ASSUME NEW T, NEW rows \in Seq(T), Neat(rows),
         NEW com, com = Picked(rows, Committed(rows)), NEW pend, pend = Picked(rows, Pending(rows))
  PROVE  Parted(T, rows, com, pend)
<1>1. Committed(rows) \in SUBSET DOMAIN rows /\ Pending(rows) \in SUBSET DOMAIN rows
  BY DEF Committed, Pending
<1>2. /\ com \in Seq(T) /\ pend \in Seq(T) /\ Neat(com) /\ Neat(pend)
      /\ Elems(com) = {rows[i] : i \in Committed(rows)} /\ Elems(pend) = {rows[i] : i \in Pending(rows)}
  BY Zenon, <1>1, PickedIs
<1>3. ASSUME NEW i \in Committed(rows), NEW j \in Pending(rows)
      PROVE  Pair(rows[i], rows[j])
  <2>1. i \in DOMAIN rows /\ j \in DOMAIN rows /\ ~rows[i].pending /\ rows[j].pending
    BY DEF Committed, Pending
  <2>2. i < j \/ j < i \/ i = j
    <3>1. i \in Nat /\ j \in Nat
      BY <2>1
    <3>2. QED
      BY <3>1
  <2>3. QED
    BY Zenon, <2>1, <2>2 DEF Neat, Pair
<1>4. /\ (\A i \in Committed(rows) : ~rows[i].pending) /\ (\A i \in Pending(rows) : rows[i].pending)
      /\ DOMAIN rows = Committed(rows) \cup Pending(rows)
  BY DEF Committed, Pending
<1>5. (\A x \in Elems(com) : ~x.pending) /\ (\A x \in Elems(pend) : x.pending)
  BY Zenon, <1>2, <1>4
<1>6. Elems(rows) = Elems(com) \cup Elems(pend)
  BY Zenon, <1>2, <1>4 DEF Elems
<1>7. ASSUME NEW x \in Elems(com), NEW y \in Elems(pend)
      PROVE  Pair(x, y)
  <2>1. PICK i \in Committed(rows) : x = rows[i]
    BY Zenon, <1>2
  <2>2. PICK j \in Pending(rows) : y = rows[j]
    BY Zenon, <1>2
  <2>3. QED
    BY Zenon, <1>3, <2>1, <2>2
<1>8. QED
  BY Zenon, <1>2, <1>5, <1>6, <1>7 DEF Parted

(* As many rows as fit.                                                     *)
LEMMA FittedIs ==
  ASSUME NEW T, NEW com \in Seq(T), NEW pend \in Seq(T), NEW n \in Nat, Len(pend) <= n,
         Neat(com), Neat(pend), \A x \in Elems(com), y \in Elems(pend) : Pair(x, y)
  PROVE  /\ Fitted(com, pend, n) \in Seq(T) /\ Neat(Fitted(com, pend, n)) /\ Len(Fitted(com, pend, n)) <= n
         /\ Elems(Fitted(com, pend, n)) \subseteq Elems(com) \cup Elems(pend)
         /\ Elems(pend) \subseteq Elems(Fitted(com, pend, n))
         /\ \A x \in Elems(com) :
              x \in Elems(Fitted(com, pend, n))
              \/ (Len(Fitted(com, pend, n)) = n /\ \A y \in Elems(Fitted(com, pend, n)) : Pair(x, y))
<1> DEFINE young == Youngest(com, n - Len(pend))
<1>1. n - Len(pend) \in Nat /\ Len(pend) \in Nat
  OBVIOUS
<1>2. /\ young \in Seq(T) /\ Len(young) <= n - Len(pend) /\ Elems(young) \subseteq Elems(com) /\ Neat(young)
      /\ \A x \in Elems(com) : x \in Elems(young) \/ (Len(young) = n - Len(pend) /\ \A y \in Elems(young) : Pair(x, y))
  BY Zenon, <1>1, YoungestIs
<1>3. Fitted(com, pend, n) = young \o pend
  BY Zenon DEF Fitted
<1> HIDE DEF young
<1>4. /\ Fitted(com, pend, n) \in Seq(T) /\ Len(Fitted(com, pend, n)) = Len(young) + Len(pend)
      /\ Elems(Fitted(com, pend, n)) = Elems(young) \cup Elems(pend) /\ Neat(Fitted(com, pend, n))
  <2>1. \A x \in Elems(young), y \in Elems(pend) : Pair(x, y)
    BY Zenon, <1>2
  <2>2. Joined(T, young, pend, young \o pend) /\ Neat(young \o pend)
    BY Zenon, <1>2, <2>1, JoinNeat
  <2>3. QED
    BY ONLY <1>3, <2>2 DEF Joined
<1>5. Len(young) + Len(pend) <= n
  <2>1. Len(young) \in Nat
    BY <1>2
  <2>2. QED
    BY <1>1, <1>2, <2>1
<1>6. ASSUME NEW x \in Elems(com), x \notin Elems(Fitted(com, pend, n))
      PROVE  Len(Fitted(com, pend, n)) = n /\ \A y \in Elems(Fitted(com, pend, n)) : Pair(x, y)
  <2>1. Len(young) = n - Len(pend) /\ \A y \in Elems(young) : Pair(x, y)
    BY Zenon, <1>2, <1>4, <1>6
  <2>2. Len(young) + Len(pend) = n
    BY <1>1, <2>1
  <2>3. QED
    BY Zenon, <1>4, <2>1, <2>2
<1>7. QED
  BY Zenon, <1>2, <1>4, <1>5, <1>6

(* Each placeholder of some is one of the rows they are among.              *)
LEMMA PendingMost ==
  ASSUME NEW T, NEW rows \in Seq(T), NEW part \in Seq(T), Neat(part),
         Elems(part) \subseteq Elems(rows), \A x \in Elems(part) : x.pending
  PROVE  Cardinality(Pending(rows)) \in Nat /\ Len(part) <= Cardinality(Pending(rows))
<1> DEFINE f == [k \in DOMAIN part |-> CHOOSE i \in Pending(rows) : rows[i] = part[k]]
<1>1. IsFiniteSet(Pending(rows)) /\ Cardinality(DOMAIN part) = Len(part) /\ DOMAIN part = 1..Len(part) /\ Len(part) \in Nat
  <2>1. IsFiniteSet(DOMAIN rows) /\ Pending(rows) \in SUBSET DOMAIN rows
    BY Zenon, PlacesAre DEF Pending
  <2>2. QED
    BY Zenon, <2>1, FS_Subset, PlacesAre
<1>2. ASSUME NEW k \in DOMAIN part
      PROVE  f[k] \in Pending(rows) /\ rows[f[k]] = part[k]
  <2>1. part[k] \in Elems(rows) /\ part[k].pending
    BY Zenon DEF Elems
  <2>2. \E i \in Pending(rows) : rows[i] = part[k]
    BY <2>1 DEF Elems, Pending
  <2>3. f[k] = CHOOSE i \in Pending(rows) : rows[i] = part[k]
    OBVIOUS
  <2> HIDE DEF f
  <2>4. QED
    BY Zenon, <2>2, <2>3
<1>3. DOMAIN f = DOMAIN part /\ f = [k \in DOMAIN part |-> f[k]]
  OBVIOUS
<1> HIDE DEF f
<1>4. ASSUME NEW k \in DOMAIN part, NEW l \in DOMAIN part, f[k] = f[l]
      PROVE  k = l
  <2>1. part[k] = part[l]
    BY Zenon, <1>2, <1>4
  <2>2. k < l \/ l < k \/ k = l
    BY <1>1
  <2>3. QED
    BY Zenon, <2>1, <2>2 DEF Neat, Pair
<1>5. f \in Injection(DOMAIN part, Pending(rows))
  <2>1. f \in [DOMAIN part -> Pending(rows)]
    BY <1>2, <1>3
  <2>2. QED
    BY <1>3, <1>4, <2>1 DEF Injection, IsInjective
<1>6. Cardinality(DOMAIN part) <= Cardinality(Pending(rows))
  BY Zenon, <1>1, <1>5, FS_Injection
<1>7. Cardinality(Pending(rows)) \in Nat
  BY Zenon, <1>1, FS_CardinalityType
<1>8. QED
  BY Zenon, <1>1, <1>6, <1>7

\* Row x may be missing from these rows: placeholders fill them, or it is older than they are
\* but for message v, and there are n.
Lost(x, rows, n, v) ==
  IF x.pending THEN Cardinality(Pending(rows)) >= Window - 1
  ELSE Len(rows) >= n /\ \A y \in Elems(rows) : y.pending \/ y.seq = v \/ x.seq < y.seq

LEMMA BoundedRoomIs ==
  ASSUME NEW T, NEW rows \in Seq(T), Neat(rows)
  PROVE  /\ BoundedRoom(rows) \in Seq(T) /\ Neat(BoundedRoom(rows)) /\ Len(BoundedRoom(rows)) <= Window
         /\ Elems(BoundedRoom(rows)) \subseteq Elems(rows)
         /\ \A x \in Elems(rows), v \in Nat : x \in Elems(BoundedRoom(rows)) \/ Lost(x, BoundedRoom(rows), Window, v)
<1> DEFINE com == Picked(rows, Committed(rows))
           pend == Picked(rows, Pending(rows))
           most == IF com = <<>> THEN Window ELSE Window - 1
           young == Youngest(pend, most)
<1>1. /\ com \in Seq(T) /\ pend \in Seq(T) /\ Neat(com) /\ Neat(pend)
      /\ Elems(com) \subseteq Elems(rows) /\ Elems(pend) \subseteq Elems(rows)
      /\ \A x \in Elems(com), y \in Elems(pend) : Pair(x, y)
      /\ Elems(rows) = Elems(com) \cup Elems(pend)
      /\ (\A x \in Elems(com) : ~x.pending) /\ \A x \in Elems(pend) : x.pending
  <2>1. Parted(T, rows, com, pend)
    BY Zenon, SplitIs
  <2> HIDE DEF com, pend
  <2>2. Elems(com) \subseteq Elems(rows) /\ Elems(pend) \subseteq Elems(rows)
    BY Zenon, <2>1 DEF Parted
  <2>3. QED
    BY Zenon, <2>1, <2>2 DEF Parted
<1>2. Window \in Nat /\ most \in Nat /\ most <= Window /\ most >= Window - 1
  BY ClientAssumption
<1>3. BoundedRoom(rows) = IF Len(rows) <= Window THEN rows ELSE Fitted(com, young, Window)
  BY Zenon DEF BoundedRoom
<1> HIDE DEF com, pend, most
<1>4. /\ young \in Seq(T) /\ Len(young) <= most /\ Elems(young) \subseteq Elems(pend) /\ Neat(young)
      /\ \A x \in Elems(pend) : x \in Elems(young) \/ Len(young) = most
  BY Zenon, <1>1, <1>2, YoungestIs
<1> HIDE DEF young
<1>5. Len(young) <= Window
  BY <1>2, <1>4
<1>6. /\ Fitted(com, young, Window) \in Seq(T) /\ Neat(Fitted(com, young, Window))
      /\ Len(Fitted(com, young, Window)) <= Window
      /\ Elems(Fitted(com, young, Window)) \subseteq Elems(com) \cup Elems(young)
      /\ Elems(young) \subseteq Elems(Fitted(com, young, Window))
      /\ \A x \in Elems(com) :
           x \in Elems(Fitted(com, young, Window))
           \/ (Len(Fitted(com, young, Window)) = Window /\ \A y \in Elems(Fitted(com, young, Window)) : Pair(x, y))
  <2>1. \A x \in Elems(com), y \in Elems(young) : Pair(x, y)
    BY Zenon, <1>1, <1>4
  <2>2. QED
    BY Zenon, <1>1, <1>2, <1>4, <1>5, <2>1, FittedIs
<1> DEFINE fit == Fitted(com, young, Window)
<1>7. ASSUME NEW x \in Elems(rows), x \notin Elems(fit), NEW v \in Nat
      PROVE  Lost(x, fit, Window, v)
  <2>1. CASE x \in Elems(com)
    <3>1. ~x.pending /\ Len(fit) = Window /\ \A y \in Elems(fit) : Pair(x, y)
      BY Zenon, <1>1, <1>6, <1>7, <2>1
    <3>2. Len(fit) >= Window
      BY <1>2, <3>1
    <3> HIDE DEF fit
    <3>3. QED
      BY Zenon, <3>1, <3>2 DEF Lost, Pair
  <2>2. CASE x \in Elems(pend)
    <3>1. x.pending /\ Len(young) = most
      BY Zenon, <1>1, <1>4, <1>6, <1>7, <2>2
    <3>2. Cardinality(Pending(fit)) \in Nat /\ Len(young) <= Cardinality(Pending(fit))
      BY Zenon, <1>1, <1>4, <1>6, PendingMost
    <3> HIDE DEF fit
    <3>3. Cardinality(Pending(fit)) >= Window - 1
      BY <1>2, <3>1, <3>2
    <3>4. QED
      BY Zenon, <3>1, <3>3 DEF Lost
  <2>3. QED
    BY Zenon, <1>1, <2>1, <2>2
<1>8. QED
  BY Zenon, <1>1, <1>3, <1>4, <1>6, <1>7

(* A thread's window: the root, which is before every reply, and what fits. *)
LEMMA BoundedThreadIs ==
  ASSUME NEW T, NEW rows \in Seq(T), Neat(rows), NEW v \in Nat,
         \A r \in Elems(rows) : ~r.pending => r.seq \in Nat /\ (r.seq = v \/ (r.thread # 0 /\ r.seq > v))
  PROVE  /\ BoundedThread(rows) \in Seq(T) /\ Neat(BoundedThread(rows)) /\ Len(BoundedThread(rows)) <= Window + 1
         /\ Elems(BoundedThread(rows)) \subseteq Elems(rows)
         /\ \A x \in Elems(rows) : x \in Elems(BoundedThread(rows)) \/ Lost(x, BoundedThread(rows), Window + 1, v)
<1> DEFINE S == {i \in Committed(rows) : rows[i].seq > 0 /\ rows[i].thread = 0}
           first == First(S)
           top == IF first = 0 THEN <<>> ELSE <<rows[first]>>
           rest == IF first = 0 THEN rows ELSE RemoveAt(rows, first)
           room == Window + 1 - Len(top)
           com == Picked(rest, Committed(rest))
           young == Youngest(Picked(rest, Pending(rest)), room)
<1>1. BoundedThread(rows) = top \o Fitted(com, young, room)
  BY Zenon DEF BoundedThread
<1>2. /\ DOMAIN rows = 1..Len(rows) /\ Len(rows) \in Nat /\ S \subseteq DOMAIN rows
      /\ S \in SUBSET Nat /\ 0 \notin S /\ IsFiniteSet(S) /\ Window \in Nat /\ Window >= 1
  <2>1. DOMAIN rows = 1..Len(rows) /\ Len(rows) \in Nat /\ S \subseteq DOMAIN rows
    BY DEF Committed
  <2>2. IsFiniteSet(DOMAIN rows) /\ DOMAIN rows \subseteq Nat /\ 0 \notin DOMAIN rows
    BY Zenon, PlacesAre
  <2>3. S \in SUBSET Nat /\ 0 \notin S /\ IsFiniteSet(S)
    BY Zenon, <2>1, <2>2, FS_Subset
  <2>4. Window \in Nat /\ Window >= 1
    BY ClientAssumption
  <2>5. QED
    BY Zenon, <2>1, <2>3, <2>4
<1>3. (S = {} => first = 0) /\ (S # {} => first \in S /\ first # 0)
  BY Zenon, <1>2, FirstIs
<1>4. \A i \in S : ~rows[i].pending /\ rows[i].thread = 0 /\ rows[i] \in Elems(rows)
  BY DEF Committed, Pending, Elems
<1> HIDE DEF S, first
<1>5. first # 0 => first = 1 /\ 1 \in DOMAIN rows
  <2> SUFFICES ASSUME first # 0 PROVE first = 1 /\ 1 \in DOMAIN rows
    OBVIOUS
  <2>1. first \in S /\ first \in DOMAIN rows /\ 1 \in DOMAIN rows
    BY <1>2, <1>3
  <2>2. rows[first].seq = v /\ ~rows[first].pending
    BY Zenon, <1>4, <2>1
  <2>3. ASSUME 1 < first PROVE FALSE
    <3>1. Pair(rows[1], rows[first])
      BY Zenon, <2>1, <2>3 DEF Neat
    <3>2. ~rows[1].pending /\ rows[1].seq < v
      BY Zenon, <2>2, <3>1 DEF Pair
    <3>3. rows[1] \in Elems(rows)
      BY Zenon, <2>1 DEF Elems
    <3>4. rows[1].seq \in Nat /\ (rows[1].seq = v \/ rows[1].seq > v)
      BY Zenon, <3>2, <3>3
    <3>5. QED
      BY <3>2, <3>4
  <2>4. QED
    BY <1>2, <2>1, <2>3
<1>6. /\ top \in Seq(T) /\ Neat(top) /\ Len(top) \in {0, 1} /\ Elems(top) \subseteq Elems(rows)
      /\ rest \in Seq(T) /\ Neat(rest) /\ Elems(rest) \subseteq Elems(rows)
      /\ \A x \in Elems(top), y \in Elems(rest) : Pair(x, y)
      /\ Elems(rows) = Elems(top) \cup Elems(rest) /\ \A x \in Elems(top) : x.seq = v
  <2>1. CASE first = 0
    BY <2>1 DEF Neat, Elems
  <2>2. CASE first # 0
    <3>1. first = 1 /\ 1 \in DOMAIN rows /\ rows[1] \in T
      BY <1>5, <2>2
    <3>2. top = <<rows[1]>>
      BY Zenon, <2>2, <3>1
    <3>3. Elems(top) = {rows[1]} /\ top \in Seq(T) /\ Len(top) = 1 /\ DOMAIN top = {1}
      BY <3>1, <3>2 DEF Elems
    <3>4. Neat(top)
      BY <3>3 DEF Neat
    <3> DEFINE part == SubSeq(rows, 2, Len(rows))
    <3>5. part \in Seq(T) /\ Neat(part) /\ Elems(part) \subseteq Elems(rows) /\ Elems(part) = {rows[i] : i \in 2..Len(rows)}
      <4>1. 2 \in Nat /\ Len(rows) \in Nat /\ 2 >= 1 /\ Len(rows) <= Len(rows)
        BY <1>2
      <4>2. SubSeq(rows, 2, Len(rows)) \in Seq(T) /\ Neat(SubSeq(rows, 2, Len(rows)))
            /\ Elems(SubSeq(rows, 2, Len(rows))) \subseteq Elems(rows)
            /\ Elems(SubSeq(rows, 2, Len(rows))) = {rows[i] : i \in 2..Len(rows)}
        BY ONLY rows \in Seq(T), Neat(rows), <4>1, RunIs
      <4>3. QED
        BY Zenon, <4>2
    <3>6. rest = part
      <4>1. rest = SubSeq(rows, 1, 1 - 1) \o SubSeq(rows, 1 + 1, Len(rows))
        BY Zenon, <2>2, <3>1 DEF RemoveAt
      <4>2. 1 - 1 = 0 /\ 1 + 1 = 2 /\ SubSeq(rows, 1, 0) = <<>>
        BY <1>2
      <4> HIDE DEF part
      <4>3. rest = <<>> \o part
        BY Zenon, <4>1, <4>2 DEF part
      <4>4. QED
        BY <3>5, <4>3
    <3> HIDE DEF part, rest, top
    <3>7. \A i \in 2..Len(rows) : i \in DOMAIN rows /\ 1 < i
      BY <1>2
    <3>8. \A y \in Elems(rest) : Pair(rows[1], y)
      BY Zenon, <3>1, <3>5, <3>6, <3>7 DEF Neat
    <3>9. rows[1] \in Elems(rows)
      BY Zenon, <3>1 DEF Elems
    <3>10. Elems(rows) = Elems(top) \cup Elems(rest)
      <4>1. \A i \in DOMAIN rows : i = 1 \/ i \in 2..Len(rows)
        BY <1>2
      <4>2. \A i \in DOMAIN rows : rows[i] \in Elems(top) \cup Elems(rest)
        BY Zenon, <3>3, <3>5, <3>6, <4>1
      <4>3. Elems(top) \subseteq Elems(rows) /\ Elems(rest) \subseteq Elems(rows)
        BY Zenon, <3>3, <3>5, <3>6, <3>9
      <4>4. Elems(rows) \subseteq Elems(top) \cup Elems(rest)
        BY ONLY Zenon, <4>2 DEF Elems
      <4>5. QED
        BY Zenon, <4>3, <4>4
    <3>11. rows[1].seq = v
      <4>1. 1 \in S
        BY Zenon, <1>3, <2>2, <3>1
      <4>2. ~rows[1].pending /\ rows[1].thread = 0
        BY Zenon, <1>4, <4>1
      <4>3. QED
        BY Zenon, <3>9, <4>2
    <3>12. QED
      BY Zenon, <3>3, <3>4, <3>5, <3>6, <3>8, <3>9, <3>10, <3>11
  <2>3. QED
    BY <2>1, <2>2
<1> HIDE DEF top, rest
<1>7. room \in Nat /\ room + Len(top) = Window + 1
  <2>1. Window \in Nat /\ Window >= 1 /\ (Len(top) = 0 \/ Len(top) = 1)
    BY <1>2, <1>6
  <2>2. Len(top) \in Int /\ room = Window + 1 - Len(top)
    BY <2>1
  <2> HIDE DEF room
  <2>3. QED
    BY ONLY <2>1, <2>2
<1> HIDE DEF room
<1> DEFINE pend == Picked(rest, Pending(rest))
<1>8. /\ com \in Seq(T) /\ pend \in Seq(T) /\ Neat(com) /\ Neat(pend)
      /\ Elems(com) \subseteq Elems(rest) /\ Elems(pend) \subseteq Elems(rest)
      /\ \A x \in Elems(com), y \in Elems(pend) : Pair(x, y)
      /\ Elems(rest) = Elems(com) \cup Elems(pend)
      /\ (\A x \in Elems(com) : ~x.pending) /\ \A x \in Elems(pend) : x.pending
  <2>1. rest \in Seq(T) /\ Neat(rest)
    BY Zenon, <1>6
  <2>2. Parted(T, rest, com, pend)
    BY ONLY Zenon, <2>1, SplitIs
  <2> HIDE DEF com, pend
  <2>3. Elems(com) \subseteq Elems(rest) /\ Elems(pend) \subseteq Elems(rest)
    BY Zenon, <2>2 DEF Parted
  <2>4. QED
    BY Zenon, <2>2, <2>3 DEF Parted
<1> HIDE DEF com, pend
<1>9. /\ young \in Seq(T) /\ Len(young) <= room /\ Elems(young) \subseteq Elems(pend) /\ Neat(young)
      /\ \A x \in Elems(pend) : x \in Elems(young) \/ Len(young) = room
  BY Zenon, <1>7, <1>8, YoungestIs DEF pend
<1> HIDE DEF young
<1> DEFINE fit == Fitted(com, young, room)
<1>10. /\ fit \in Seq(T) /\ Neat(fit) /\ Len(fit) <= room /\ Elems(fit) \subseteq Elems(com) \cup Elems(young)
       /\ Elems(young) \subseteq Elems(fit)
       /\ \A x \in Elems(com) : x \in Elems(fit) \/ (Len(fit) = room /\ \A y \in Elems(fit) : Pair(x, y))
  <2>1. \A x \in Elems(com), y \in Elems(young) : Pair(x, y)
    BY Zenon, <1>8, <1>9
  <2>2. QED
    BY Zenon, <1>7, <1>8, <1>9, <2>1, FittedIs
<1>11. BoundedThread(rows) = top \o fit
  BY Zenon, <1>1
<1> HIDE DEF fit
<1>12. Elems(fit) \subseteq Elems(rest)
  BY Zenon, <1>8, <1>9, <1>10
<1>13. /\ BoundedThread(rows) \in Seq(T) /\ Len(BoundedThread(rows)) = Len(top) + Len(fit)
       /\ Elems(BoundedThread(rows)) = Elems(top) \cup Elems(fit) /\ Neat(BoundedThread(rows))
  <2>1. \A x \in Elems(top), y \in Elems(fit) : Pair(x, y)
    BY Zenon, <1>6, <1>12
  <2>2. Joined(T, top, fit, top \o fit) /\ Neat(top \o fit)
    BY Zenon, <1>6, <1>10, <2>1, JoinNeat
  <2>3. QED
    BY ONLY <1>11, <2>2 DEF Joined
<1>14. Len(top) + Len(fit) <= Window + 1
  <2>1. Len(top) \in Nat /\ Len(fit) \in Nat
    BY <1>6, <1>10
  <2>2. QED
    BY <1>2, <1>7, <1>10, <2>1
<1> DEFINE kept == BoundedThread(rows)
<1>15. ASSUME NEW x \in Elems(rows), x \notin Elems(kept)
       PROVE  Lost(x, kept, Window + 1, v)
  <2>1. x \in Elems(com) \/ x \in Elems(pend)
    BY Zenon, <1>6, <1>8, <1>13, <1>15
  <2>2. CASE x \in Elems(com)
    <3>1. ~x.pending /\ Len(fit) = room /\ \A y \in Elems(fit) : Pair(x, y)
      BY Zenon, <1>8, <1>10, <1>13, <1>15, <2>2
    <3>2. Len(kept) >= Window + 1
      <4>1. Len(kept) = Len(top) + room /\ room + Len(top) = Window + 1 /\ room \in Nat
        BY Zenon, <1>7, <1>13, <3>1
      <4>2. Len(top) \in Nat /\ Window \in Nat
        BY <1>2, <1>6
      <4> HIDE DEF kept
      <4>3. QED
        BY ONLY <4>1, <4>2
    <3>3. \A y \in Elems(kept) : y.pending \/ y.seq = v \/ x.seq < y.seq
      BY Zenon, <1>6, <1>13, <3>1 DEF Pair
    <3> HIDE DEF kept
    <3>4. QED
      BY Zenon, <3>1, <3>2, <3>3 DEF Lost
  <2>3. CASE x \in Elems(pend)
    <3>1. x.pending /\ Len(young) = room
      BY Zenon, <1>8, <1>9, <1>10, <1>13, <1>15, <2>3
    <3>2. Cardinality(Pending(kept)) \in Nat /\ Len(young) <= Cardinality(Pending(kept))
      <4>1. kept \in Seq(T) /\ Elems(young) \subseteq Elems(kept) /\ \A y \in Elems(young) : y.pending
        BY Zenon, <1>8, <1>9, <1>10, <1>13
      <4>2. young \in Seq(T) /\ Neat(young)
        BY Zenon, <1>9
      <4> HIDE DEF kept
      <4>3. QED
        BY ONLY Zenon, <4>1, <4>2, PendingMost
    <3>3. room >= Window
      <4>1. room \in Nat /\ Window \in Nat /\ room + Len(top) = Window + 1
        BY Zenon, <1>2, <1>7
      <4>2. Len(top) \in {0, 1}
        BY Zenon, <1>6
      <4>3. CASE Len(top) = 0
        BY ONLY <4>1, <4>3
      <4>4. CASE Len(top) = 1
        BY ONLY <4>1, <4>4
      <4>5. QED
        BY ONLY Zenon, <4>2, <4>3, <4>4
    <3> HIDE DEF kept
    <3>4. Cardinality(Pending(kept)) >= Window - 1
      BY <1>2, <1>7, <3>1, <3>2, <3>3
    <3>5. QED
      BY Zenon, <3>1, <3>4 DEF Lost
  <2>4. QED
    BY Zenon, <2>1, <2>2, <2>3
<1>16. QED
  BY Zenon, <1>6, <1>12, <1>13, <1>14, <1>15

\* Row q is committed row x in the same revision or a later one.
Later(q, x) == ~q.pending /\ q.id = x.id /\ q.seq = x.seq /\ q.rev >= x.rev

\* What becomes of row x, if the placeholders of these messages may go.
Carries(x, next, ids) ==
  IF x.pending THEN x \in Elems(next) \/ x.id \in ids ELSE \E q \in Elems(next) : Later(q, x)

Owed(x, next, ids, n, v) == Carries(x, next, ids) \/ Lost(x, next, n, v)

(* What is carried and then bounded is owed to the window.                  *)
LEMMA CarriedOwed ==
  ASSUME NEW x, NEW mid, NEW next, NEW ids, NEW n, NEW v, Carries(x, mid, ids),
         \A y \in Elems(mid) : y \in Elems(next) \/ Lost(y, next, n, v)
  PROVE  Owed(x, next, ids, n, v)
<1>1. CASE x.pending
  BY Zenon, <1>1 DEF Carries, Owed
<1>2. CASE ~x.pending
  <2>1. PICK q \in Elems(mid) : Later(q, x)
    BY Zenon, <1>2 DEF Carries
  <2>2. CASE q \in Elems(next)
    BY Zenon, <1>2, <2>1, <2>2 DEF Carries, Owed
  <2>3. CASE Lost(q, next, n, v)
    BY Zenon, <1>2, <2>1, <2>3 DEF Lost, Later, Owed
  <2>4. QED
    BY Zenon, <2>2, <2>3
<1>3. QED
  BY Zenon, <1>1, <1>2

(* merge_message_send_result: one row for each message, in order.           *)
LEMMA MergedIs ==
  ASSUME NEW T, \A r \in T : r.seq \in Nat /\ r.rev \in Nat, NEW page \in Seq(T), NEW rows \in Seq(T), Neat(rows),
         \A c \in Elems(page) : ~c.pending, \A c, d \in Elems(page) : c.seq = d.seq => c = d,
         Agree(Elems(page) \cup Elems(rows))
  PROVE  /\ Merged(page, rows) \in Seq(T) /\ Neat(Merged(page, rows))
         /\ Elems(Merged(page, rows)) \subseteq Elems(page) \cup Elems(rows)
         /\ \A x \in Elems(rows) : Carries(x, Merged(page, rows), {c.id : c \in Elems(page)})
<1> DEFINE shown == {rows[i] : i \in Committed(rows)}
           read == {page[i] : i \in DOMAIN page}
           kept == {r \in shown : \A c \in read : c.seq = r.seq => ~Wins(c, r)}
           taken == {c \in read : \A r \in shown : r.seq = c.seq => Wins(c, r)}
           waiting == {i \in Pending(rows) : ~Settled(rows[i], read)}
           both == kept \cup taken
           front == InOrder(both)
           tail == Picked(rows, waiting)
<1>1. Merged(page, rows) = front \o tail /\ read = Elems(page)
  BY Zenon DEF Merged, Elems
<1>2. /\ DOMAIN rows = 1..Len(rows) /\ Len(rows) \in Nat /\ \A i \in DOMAIN rows : rows[i] \in T
      /\ DOMAIN page = 1..Len(page) /\ Len(page) \in Nat /\ \A i \in DOMAIN page : page[i] \in T
  OBVIOUS
<1>3. /\ \A i \in Committed(rows) : i \in DOMAIN rows /\ ~rows[i].pending
      /\ \A i \in Pending(rows) : i \in DOMAIN rows /\ rows[i].pending
  BY DEF Committed, Pending
<1>4. shown \subseteq T /\ shown \subseteq Elems(rows) /\ read \subseteq T /\ \A r \in shown : ~r.pending
  BY Zenon, <1>2, <1>3 DEF Elems
<1>5. IsFiniteSet(shown) /\ IsFiniteSet(read)
  <2>1. IsFiniteSet(DOMAIN rows) /\ IsFiniteSet(DOMAIN page)
    BY <1>2, FS_Interval
  <2>2. IsFiniteSet(Committed(rows))
    BY <2>1, FS_Subset DEF Committed
  <2>3. ASSUME NEW f, NEW S, IsFiniteSet(S)
        PROVE  IsFiniteSet({f[x] : x \in S})
    <3> DEFINE g == [x \in S |-> f[x]]
    <3>1. g = [x \in S |-> g[x]] /\ {f[x] : x \in S} = {g[x] : x \in S}
      OBVIOUS
    <3> HIDE DEF g
    <3>2. IsFiniteSet({g[x] : x \in S})
      BY <2>3, <3>1, ImageFinite
    <3>3. QED
      BY <3>1, <3>2
  <2>4. QED
    BY Zenon, <2>1, <2>2, <2>3
<1>6. \A r, q \in shown : r.seq = q.seq => r = q
  <2> SUFFICES ASSUME NEW i \in Committed(rows), NEW j \in Committed(rows), rows[i].seq = rows[j].seq, i # j
               PROVE  FALSE
    BY Zenon
  <2>1. i < j \/ j < i
    BY <1>2, <1>3
  <2>2. Pair(rows[i], rows[j]) \/ Pair(rows[j], rows[i])
    BY Zenon, <1>3, <2>1 DEF Neat
  <2>3. rows[i].seq < rows[j].seq \/ rows[j].seq < rows[i].seq
    BY Zenon, <1>3, <2>2 DEF Pair
  <2>4. rows[i].seq \in Nat /\ rows[j].seq \in Nat
    BY Zenon, <1>2, <1>3
  <2>5. QED
    BY <2>3, <2>4
<1>7. \A r \in kept, c \in taken : r.seq # c.seq
  OBVIOUS
<1>8. \A r, q \in both : r.seq = q.seq => r = q
  BY Zenon, <1>1, <1>6, <1>7
<1>9. both \subseteq T /\ IsFiniteSet(both) /\ (\A r \in both : ~r.pending) /\ both \subseteq Elems(page) \cup Elems(rows)
  <2>1. both \subseteq T /\ (\A r \in both : ~r.pending) /\ both \subseteq Elems(page) \cup Elems(rows)
    BY Zenon, <1>1, <1>4
  <2>2. IsFiniteSet(shown \cup read) /\ both \subseteq shown \cup read
    BY <1>5, FS_Union
  <2>3. both \in SUBSET (shown \cup read)
    BY Zenon, <2>2
  <2>4. IsFiniteSet(both)
    BY <2>2, <2>3, FS_Subset
  <2>5. QED
    BY Zenon, <2>1, <2>4
<1>10. \A x \in both, j \in waiting : Pair(x, rows[j])
  <2> TAKE x \in both, j \in waiting
  <2>1. j \in DOMAIN rows /\ rows[j].pending /\ ~Settled(rows[j], read)
    BY Zenon, <1>3
  <2>2. CASE x \in kept
    <3>1. PICK i \in Committed(rows) : x = rows[i]
      BY Zenon, <2>2
    <3>2. i \in DOMAIN rows /\ ~rows[i].pending
      BY Zenon, <1>3
    <3>3. i < j \/ j < i \/ i = j
      BY <1>2, <2>1, <3>2
    <3>4. QED
      BY Zenon, <2>1, <3>1, <3>2, <3>3 DEF Neat, Pair
  <2>3. CASE x \in taken
    <3>1. x \in read /\ x.id # rows[j].id
      BY Zenon, <2>1, <2>3 DEF Settled
    <3>2. QED
      BY Zenon, <1>9, <2>1, <3>1 DEF Pair
  <2>4. QED
    BY Zenon, <2>2, <2>3
<1>11. waiting \in SUBSET DOMAIN rows
  BY Zenon, <1>3
<1>12. ASSUME NEW i \in Pending(rows)
       PROVE  i \in waiting \/ rows[i].id \in {c.id : c \in Elems(page)}
  BY Zenon, <1>1 DEF Settled
<1>13. ASSUME NEW x \in shown
       PROVE  \E q \in both : Later(q, x)
  <2>1. ~x.pending /\ x \in T /\ x.rev \in Nat /\ x \in Elems(rows)
    BY Zenon, <1>4
  <2>2. CASE x \in kept
    <3>1. x.rev >= x.rev
      BY <2>1
    <3>2. QED
      BY Zenon, <2>1, <2>2, <3>1 DEF Later
  <2>3. CASE x \notin kept
    <3>1. PICK c \in read : c.seq = x.seq /\ Wins(c, x)
      BY Zenon, <2>3
    <3>2. c \in Elems(page) /\ ~c.pending
      BY Zenon, <1>1
    <3>3. c.id = x.id
      BY Zenon, <2>1, <3>1, <3>2 DEF Agree
    <3>4. c \in taken
      BY Zenon, <1>6, <3>1
    <3>5. QED
      BY Zenon, <3>1, <3>2, <3>3, <3>4 DEF Later, Wins
  <2>4. QED
    BY Zenon, <2>2, <2>3
<1>14. ASSUME NEW i \in DOMAIN rows
       PROVE  IF rows[i].pending THEN i \in Pending(rows) ELSE rows[i] \in shown
  BY DEF Pending, Committed
<1> HIDE DEF kept, taken, both, shown, read
<1>15. /\ front \in Seq(both) /\ Elems(front) = both
       /\ \A i, j \in DOMAIN front : i < j => front[i].seq < front[j].seq
  <2>1. \A r \in both : r.seq \in Nat
    BY Zenon, <1>9
  <2>2. QED
    BY Zenon, <1>8, <1>9, <2>1, InOrderIs
<1>16. /\ tail \in Seq(T) /\ Elems(tail) = {rows[i] : i \in waiting} /\ Neat(tail)
  BY Zenon, <1>11, PickedIs
<1> HIDE DEF front, tail, waiting
<1>17. front \in Seq(T) /\ Neat(front)
  <2>1. front \in Seq(T)
    BY <1>9, <1>15
  <2>2. ASSUME NEW i \in DOMAIN front, NEW j \in DOMAIN front, i < j
        PROVE  Pair(front[i], front[j])
    <3>1. front[i] \in both /\ front[j] \in both /\ front[i].seq < front[j].seq
      BY Zenon, <1>15, <2>2 DEF Elems
    <3>2. front[i].seq \in Nat /\ front[j].seq \in Nat
      BY Zenon, <1>9, <3>1
    <3>3. front[i].seq # front[j].seq
      BY <3>1, <3>2
    <3>4. QED
      BY Zenon, <1>9, <3>1, <3>3 DEF Agree, Pair
  <2>3. QED
    BY Zenon, <2>1, <2>2 DEF Neat
<1>18. /\ front \o tail \in Seq(T) /\ Elems(front \o tail) = Elems(front) \cup Elems(tail) /\ Neat(front \o tail)
  <2>1. ASSUME NEW x \in Elems(front), NEW y \in Elems(tail)
        PROVE  Pair(x, y)
    <3>1. PICK j \in waiting : y = rows[j]
      BY Zenon, <1>16
    <3>2. x \in both
      BY Zenon, <1>15
    <3>3. QED
      BY Zenon, <1>10, <3>1, <3>2
  <2>2. front \in Seq(T) /\ Neat(front) /\ tail \in Seq(T) /\ Neat(tail)
    BY Zenon, <1>16, <1>17
  <2>3. Joined(T, front, tail, front \o tail) /\ Neat(front \o tail)
    BY ONLY Zenon, <2>1, <2>2, JoinNeat
  <2>4. QED
    BY ONLY <2>3 DEF Joined
<1>19. Elems(tail) \subseteq Elems(rows)
  BY Zenon, <1>11, <1>16 DEF Elems
<1>20. ASSUME NEW x \in Elems(rows)
       PROVE  Carries(x, front \o tail, {c.id : c \in Elems(page)})
  <2>1. PICK i \in DOMAIN rows : x = rows[i]
    BY Zenon DEF Elems
  <2>2. CASE x.pending
    <3>1. i \in waiting \/ x.id \in {c.id : c \in Elems(page)}
      BY Zenon, <1>12, <1>14, <2>1, <2>2
    <3>2. i \in waiting => x \in Elems(front \o tail)
      BY Zenon, <1>16, <1>18, <2>1
    <3>3. QED
      BY Zenon, <2>2, <3>1, <3>2 DEF Carries
  <2>3. CASE ~x.pending
    <3>1. \E q \in both : Later(q, x)
      BY Zenon, <1>13, <1>14, <2>1, <2>3
    <3>2. both \subseteq Elems(front \o tail)
      BY Zenon, <1>15, <1>18
    <3>3. QED
      BY Zenon, <2>3, <3>1, <3>2 DEF Carries
  <2>4. QED
    BY Zenon, <2>2, <2>3
<1>21. QED
  BY Zenon, <1>1, <1>9, <1>15, <1>18, <1>19, <1>20

\* Rows that may stand in for each other.
Alike(r, q) == r.id = q.id /\ r.seq = q.seq /\ (r.pending <=> q.pending) /\ r.thread = q.thread

(* Where a row may stand, one alike may stand.                              *)
LEMMA PairAlike ==
  ASSUME NEW r, NEW q, NEW r2, NEW q2, Pair(r, q),
         r2.id = r.id, r2.seq = r.seq, r2.pending <=> r.pending, q2.id = q.id, q2.seq = q.seq, q2.pending <=> q.pending
  PROVE  Pair(r2, q2)
<1>1. r2.id # q2.id
  BY Zenon DEF Pair
<1>2. CASE r.pending
  BY Zenon, <1>1, <1>2 DEF Pair
<1>3. CASE ~r.pending
  BY Zenon, <1>1, <1>3 DEF Pair
<1>4. QED
  BY Zenon, <1>2, <1>3

(* Rows each changed in what they show.                                     *)
LEMMA AlikeIs ==
  ASSUME NEW T, NEW rows \in Seq(T), NEW next, next = [i \in DOMAIN rows |-> next[i]],
         \A i \in DOMAIN rows : next[i] \in T /\ Alike(next[i], rows[i])
  PROVE  /\ next \in Seq(T) /\ Len(next) = Len(rows) /\ (Neat(rows) => Neat(next))
         /\ \A x \in Elems(next) : \E y \in Elems(rows) : Alike(x, y)
<1>1. next \in Seq(T) /\ Len(next) = Len(rows) /\ DOMAIN next = DOMAIN rows
  <2>1. DOMAIN rows = 1..Len(rows) /\ Len(rows) \in Nat
    OBVIOUS
  <2>2. \A i \in 1..Len(rows) : next[i] \in T
    BY <2>1
  <2>3. next = [i \in 1..Len(rows) |-> next[i]]
    BY <2>1
  <2>4. QED
    BY <2>1, <2>2, <2>3
<1>2. Neat(rows) => Neat(next)
  <2> SUFFICES ASSUME Neat(rows), NEW i \in DOMAIN next, NEW j \in DOMAIN next, i < j
               PROVE  Pair(next[i], next[j])
    BY Zenon DEF Neat
  <2>1. Pair(rows[i], rows[j]) /\ Alike(next[i], rows[i]) /\ Alike(next[j], rows[j])
    BY Zenon, <1>1 DEF Neat
  <2>2. QED
    BY Zenon, <2>1, PairAlike DEF Alike
<1>3. \A x \in Elems(next) : \E y \in Elems(rows) : Alike(x, y)
  BY Zenon, <1>1 DEF Elems
<1>4. QED
  BY <1>1, <1>2, <1>3

\* The first place a row of this sequence may not come after, and the row put there.
Gap(rows, s) == First({i \in DOMAIN rows : rows[i].pending \/ rows[i].seq > s})
Placed(rows, new) == InsertAt(rows, IF Gap(rows, new.seq) = 0 THEN Len(rows) + 1 ELSE Gap(rows, new.seq), new)

(* merge_thread_reply, before the window is bounded: in place of its        *)
(* earlier state, or where its sequence puts it.                            *)
LEMMA InsertedIs ==
  ASSUME NEW T, \A r \in T : r.seq \in Nat, NEW others \in Seq(T), Neat(others), NEW new \in T, ~new.pending,
         Agree(Elems(others) \cup {new}), \A y \in Elems(others) : y.pending => y.id # new.id,
         ~\E i \in DOMAIN others : Is(others[i], new.seq)
  PROVE  Placed(others, new) \in Seq(T) /\ Neat(Placed(others, new)) /\ Elems(Placed(others, new)) = Elems(others) \cup {new}
<1> DEFINE S == {i \in DOMAIN others : others[i].pending \/ others[i].seq > new.seq}
           n == Len(others)
           before == Gap(others, new.seq)
           next == Placed(others, new)
           k == IF before = 0 THEN n + 1 ELSE before
           a == SubSeq(others, 1, k - 1)
           b == SubSeq(others, k, n)
<1>1. /\ DOMAIN others = 1..n /\ n \in Nat /\ \A i \in DOMAIN others : others[i] \in T /\ others[i].seq \in Nat /\ others[i] \in Elems(others)
      /\ new.seq \in Nat
  BY DEF Elems
<1>2. S \in SUBSET Nat /\ 0 \notin S /\ IsFiniteSet(S)
  <2>1. IsFiniteSet(DOMAIN others) /\ DOMAIN others \subseteq Nat /\ 0 \notin DOMAIN others
    BY Zenon, PlacesAre
  <2>2. QED
    BY Zenon, <2>1, FS_Subset
<1>3. (S = {} => before = 0) /\ (S # {} => before \in S /\ before # 0 /\ \A x \in S : before <= x)
  BY Zenon, <1>2, FirstIs DEF Gap
<1>4. next = (a \o <<new>>) \o b
  BY Zenon DEF InsertAt, Placed
<1> HIDE DEF n, before, next
<1>5. k \in Nat /\ k >= 1 /\ k - 1 \in Nat /\ k - 1 <= n /\ 1 \in Nat /\ 1 >= 1 /\ n <= n
      /\ (before # 0 => k = before /\ k \in S) /\ (before = 0 => k = n + 1)
  <2>1. S \subseteq 1..n
    BY Zenon, <1>1
  <2>2. before = 0 \/ (before \in 1..n /\ before \in S)
    BY Zenon, <1>3, <2>1
  <2> HIDE DEF S
  <2>3. k = IF before = 0 THEN n + 1 ELSE before
    OBVIOUS
  <2> HIDE DEF k
  <2>4. n \in Nat
    BY Zenon, <1>1
  <2>5. k \in Nat /\ k >= 1 /\ k - 1 \in Nat /\ k - 1 <= n /\ 1 \in Nat /\ 1 >= 1 /\ n <= n /\ (before = 0 => k = n + 1)
    <3>1. CASE before = 0
      <4>1. k = n + 1
        BY Zenon, <2>3, <3>1
      <4>2. QED
        BY ONLY <2>4, <4>1
    <3>2. CASE before # 0
      <4>1. k = before /\ k \in 1..n
        BY Zenon, <2>2, <2>3, <3>2
      <4>2. k \in Nat /\ k >= 1 /\ k - 1 \in Nat /\ k - 1 <= n /\ n <= n
        BY ONLY <2>4, <4>1
      <4>3. QED
        BY <3>2, <4>2
    <3>3. QED
      BY Zenon, <3>1, <3>2
  <2>6. before # 0 => k = before /\ k \in S
    BY ONLY <2>2, <2>3
  <2>7. QED
    BY ONLY <2>5, <2>6
<1>6. ASSUME NEW i \in 1..k - 1
      PROVE  i \in DOMAIN others /\ Pair(others[i], new)
  <2>1. i \in DOMAIN others /\ i \notin S
    <3>1. i \in DOMAIN others /\ i \in Nat /\ i < k
      BY <1>1, <1>5
    <3>2. CASE before = 0
      BY Zenon, <1>3, <3>1, <3>2
    <3>3. CASE before # 0
      <4>1. k = before /\ before \in Nat /\ i < before
        BY <1>5, <3>1, <3>3
      <4>2. ~(before <= i)
        BY <3>1, <4>1
      <4>3. QED
        BY Zenon, <1>3, <3>1, <4>2
    <3>4. QED
      BY Zenon, <3>2, <3>3
  <2>2. ~others[i].pending /\ ~(others[i].seq > new.seq)
    BY Zenon, <2>1
  <2>3. others[i].seq # new.seq
    BY Zenon, <2>1, <2>2 DEF Is
  <2>4. others[i].seq < new.seq
    BY <1>1, <2>1, <2>2, <2>3
  <2>5. others[i].id # new.id
    BY Zenon, <1>1, <2>1, <2>2, <2>3 DEF Agree
  <2>6. QED
    BY Zenon, <2>1, <2>2, <2>4, <2>5 DEF Pair
<1>7. ASSUME NEW i \in k..n
      PROVE  i \in DOMAIN others /\ Pair(new, others[i])
  <2>1. i \in DOMAIN others /\ before # 0 /\ k \in S /\ k \in DOMAIN others /\ (i = k \/ k < i)
    BY <1>1, <1>5
  <2>2. others[i].pending \/ others[i].seq > new.seq
    <3>1. others[k].pending \/ others[k].seq > new.seq
      BY Zenon, <2>1
    <3>2. k < i => Pair(others[k], others[i])
      BY Zenon, <2>1 DEF Neat
    <3>3. k < i => others[i].pending \/ (~others[k].pending /\ others[k].seq < others[i].seq)
      BY Zenon, <3>2 DEF Pair
    <3>4. QED
      BY <1>1, <2>1, <3>1, <3>3
  <2>3. others[i].pending \/ (new.seq < others[i].seq /\ new.seq # others[i].seq)
    BY <1>1, <2>1, <2>2
  <2>4. new.id # others[i].id
    BY Zenon, <1>1, <2>1, <2>3 DEF Agree
  <2>5. QED
    BY Zenon, <2>1, <2>3, <2>4 DEF Pair
<1> HIDE DEF k, S
<1>8. a \in Seq(T) /\ Neat(a) /\ Elems(a) = {others[i] : i \in 1..k - 1}
  <2>1. k - 1 <= Len(others)
    BY Zenon, <1>5 DEF n
  <2>2. QED
    BY ONLY others \in Seq(T), Neat(others), <1>5, <2>1, RunIs
<1>9. b \in Seq(T) /\ Neat(b) /\ Elems(b) = {others[i] : i \in k..n}
  <2>1. n <= Len(others)
    BY Zenon, <1>5 DEF n
  <2>2. QED
    BY ONLY others \in Seq(T), Neat(others), <1>1, <1>5, <2>1, RunIs
<1> HIDE DEF a, b
<1>10. <<new>> \in Seq(T) /\ Neat(<<new>>) /\ Elems(<<new>>) = {new}
  BY DEF Neat, Elems
<1> DEFINE c == a \o <<new>>
<1>11. c \in Seq(T) /\ Neat(c) /\ Elems(c) = Elems(a) \cup {new}
  <2>1. ASSUME NEW x \in Elems(a), NEW y \in Elems(<<new>>)
        PROVE  Pair(x, y)
    <3>1. PICK i \in 1..k - 1 : x = others[i]
      BY Zenon, <1>8
    <3>2. y = new
      BY Zenon, <1>10
    <3>3. QED
      BY Zenon, <1>6, <3>1, <3>2
  <2>2. a \in Seq(T) /\ Neat(a) /\ <<new>> \in Seq(T) /\ Neat(<<new>>)
    BY Zenon, <1>8, <1>10
  <2>3. Joined(T, a, <<new>>, a \o <<new>>) /\ Neat(a \o <<new>>)
    BY ONLY Zenon, <2>1, <2>2, JoinNeat
  <2>4. QED
    BY Zenon, <1>10, <2>3 DEF Joined
<1> HIDE DEF c
<1>12. next = c \o b
  BY Zenon, <1>4 DEF c
<1>13. \A x \in Elems(c), y \in Elems(b) : Pair(x, y)
  <2>1. \A i \in 1..k - 1, j \in k..n : i < j
    BY <1>1, <1>5
  <2>2. \A i \in 1..k - 1, j \in k..n : Pair(others[i], others[j])
    BY Zenon, <1>6, <1>7, <2>1 DEF Neat
  <2>3. ASSUME NEW x \in Elems(c), NEW y \in Elems(b)
        PROVE  Pair(x, y)
    <3>1. PICK j \in k..n : y = others[j]
      BY Zenon, <1>9
    <3>2. CASE x = new
      BY Zenon, <1>7, <3>1, <3>2
    <3>3. CASE x \in Elems(a)
      <4>1. PICK i \in 1..k - 1 : x = others[i]
        BY Zenon, <1>8, <3>3
      <4>2. QED
        BY Zenon, <2>2, <3>1, <4>1
    <3>4. QED
      BY Zenon, <1>11, <3>2, <3>3
  <2>4. QED
    BY Zenon, <2>3
<1>14. next \in Seq(T) /\ Neat(next) /\ Elems(next) = Elems(c) \cup Elems(b)
  <2>1. c \in Seq(T) /\ Neat(c) /\ b \in Seq(T) /\ Neat(b)
    BY Zenon, <1>9, <1>11
  <2>2. Joined(T, c, b, c \o b) /\ Neat(c \o b)
    BY ONLY Zenon, <1>13, <2>1, JoinNeat
  <2>3. QED
    BY ONLY <1>12, <2>2 DEF Joined
<1>15. Elems(a) \cup Elems(b) = Elems(others)
  <2>1. \A i \in DOMAIN others : i \in 1..k - 1 \/ i \in k..n
    BY <1>1, <1>5
  <2>2. QED
    BY Zenon, <1>6, <1>7, <1>8, <1>9, <2>1 DEF Elems
<1>16. QED
  BY Zenon, <1>11, <1>14, <1>15 DEF next

(* And bounded: the thread's window with the reply in it.                   *)
LEMMA ReplyMergedIs ==
  ASSUME NEW T, \A r \in T : r.seq \in Nat /\ r.rev \in Nat, NEW rows \in Seq(T), Neat(rows), NEW new \in T, ~new.pending,
         Agree(Elems(rows) \cup {new}), NEW v \in Nat,
         \A r \in Elems(rows) \cup {new} : ~r.pending => r.seq \in Nat /\ (r.seq = v \/ (r.thread # 0 /\ r.seq > v))
  PROVE  /\ ReplyMerged(rows, new) \in Seq(T) /\ Neat(ReplyMerged(rows, new)) /\ Len(ReplyMerged(rows, new)) <= Window + 1
         /\ Elems(ReplyMerged(rows, new)) \subseteq Elems(rows) \cup {new}
         /\ \A x \in Elems(rows) : Owed(x, ReplyMerged(rows, new), {new.id}, Window + 1, v)
<1> DEFINE gone == {i \in Pending(rows) : rows[i].id = new.id}
           others == Picked(rows, DOMAIN rows \ gone)
           here == {i \in DOMAIN others : Is(others[i], new.seq)}
           at == First(here)
           placed == Placed(others, new)
           next == IF at # 0 THEN (IF others[at].rev <= new.rev THEN [others EXCEPT ![at] = new] ELSE others) ELSE placed
<1>1. ReplyMerged(rows, new) = BoundedThread(next)
  BY Zenon DEF ReplyMerged, Placed, Gap
<1>2. /\ others \in Seq(T) /\ Neat(others) /\ Elems(others) = {rows[i] : i \in DOMAIN rows \ gone}
  BY PickedIs
<1>3. Elems(others) \subseteq Elems(rows) /\ \A y \in Elems(others) : y.pending => y.id # new.id
  BY Zenon, <1>2 DEF Elems, Pending
<1>4. ASSUME NEW x \in Elems(rows)
       PROVE  x \in Elems(others) \/ (x.pending /\ x.id = new.id)
  <2>1. PICK i \in DOMAIN rows : x = rows[i]
    BY Zenon DEF Elems
  <2>2. i \in gone => x.pending /\ x.id = new.id
    BY Zenon, <2>1 DEF Pending
  <2>3. QED
    BY Zenon, <1>2, <2>1, <2>2
<1> HIDE DEF others
<1>5. DOMAIN others = 1..Len(others) /\ Len(others) \in Nat /\ \A i \in DOMAIN others : others[i] \in T /\ others[i] \in Elems(others)
  BY <1>2 DEF Elems
<1>6. /\ here = {} => at = 0
      /\ here # {} => at \in here /\ at # 0
  <2>1. IsFiniteSet(DOMAIN others) /\ here \subseteq DOMAIN others /\ DOMAIN others \subseteq Nat /\ 0 \notin DOMAIN others
    BY Zenon, <1>2, PlacesAre
  <2>2. here \in SUBSET Nat /\ 0 \notin here /\ IsFiniteSet(here)
    BY Zenon, <2>1, FS_Subset
  <2>3. QED
    BY Zenon, <2>2, FirstIs
<1>7. Agree(Elems(others) \cup {new})
  BY Zenon, <1>3 DEF Agree
<1>8. \A y \in Elems(others) : y.rev \in Nat /\ y.rev >= y.rev
  <2> TAKE y \in Elems(others)
  <2>1. y.rev \in Nat
    BY Zenon, <1>5 DEF Elems
  <2>2. QED
    BY <2>1
<1>9. /\ next \in Seq(T) /\ Neat(next) /\ Elems(next) \subseteq Elems(others) \cup {new}
      /\ \A y \in Elems(others) : Carries(y, next, {new.id})
  <2>1. CASE here = {}
    <3>1. ~\E i \in DOMAIN others : Is(others[i], new.seq)
      BY Zenon, <2>1
    <3>2. placed \in Seq(T) /\ Neat(placed) /\ Elems(placed) = Elems(others) \cup {new}
      <4>1. others \in Seq(T) /\ Neat(others)
        BY Zenon, <1>2
      <4>2. \A y \in Elems(others) : y.pending => y.id # new.id
        BY Zenon, <1>3
      <4> HIDE DEF gone
      <4>3. QED
        BY ONLY \A r \in T : r.seq \in Nat /\ r.rev \in Nat, new \in T, ~new.pending, <1>7, <3>1, <4>1, <4>2, InsertedIs
    <3>3. next = placed
      BY Zenon, <1>6, <2>1
    <3>4. Elems(others) \subseteq Elems(next)
      BY Zenon, <3>2, <3>3
    <3>5. \A y \in Elems(others) : Carries(y, next, {new.id})
      BY Zenon, <1>8, <3>4 DEF Carries, Later
    <3>6. QED
      BY Zenon, <3>2, <3>3, <3>5
  <2>2. CASE here # {}
    <3>1. at \in DOMAIN others /\ at # 0 /\ ~others[at].pending /\ others[at].seq = new.seq
      BY Zenon, <1>6, <2>2 DEF Is
    <3> HIDE DEF at, here
    <3>2. next = others \/ (next = [others EXCEPT ![at] = new] /\ others[at].rev <= new.rev)
      BY Zenon, <3>1
    <3>3. CASE next = others
      <4>1. \A y \in Elems(others) : Carries(y, others, {new.id})
        BY Zenon, <1>8 DEF Carries, Later
      <4>2. QED
        BY Zenon, <1>2, <3>3, <4>1
    <3> HIDE DEF next
    <3>4. CASE next = [others EXCEPT ![at] = new] /\ others[at].rev <= new.rev
      <4>1. others[at].id = new.id
        BY Zenon, <1>5, <1>7, <3>1 DEF Agree
      <4>2. DOMAIN next = DOMAIN others /\ next \in Seq(T)
            /\ \A i \in DOMAIN others : next[i] = IF i = at THEN new ELSE others[i]
        BY <1>2, <3>1, <3>4
      <4>3. \A i \in DOMAIN others :
              next[i].id = others[i].id /\ next[i].seq = others[i].seq /\ (next[i].pending <=> others[i].pending)
        BY Zenon, <3>1, <4>1, <4>2
      <4>4. Neat(next)
        <5> SUFFICES ASSUME NEW i \in DOMAIN next, NEW j \in DOMAIN next, i < j
                     PROVE  Pair(next[i], next[j])
          BY Zenon DEF Neat
        <5>1. Pair(others[i], others[j])
          BY Zenon, <1>2, <4>2 DEF Neat
        <5>2. QED
          BY Zenon, <4>2, <4>3, <5>1, PairAlike
      <4>5. Elems(next) \subseteq Elems(others) \cup {new}
        BY Zenon, <4>2 DEF Elems
      <4>6. ASSUME NEW y \in Elems(others)
            PROVE  Carries(y, next, {new.id})
        <5>1. PICK i \in DOMAIN others : y = others[i]
          BY Zenon DEF Elems
        <5>2. next[i] \in Elems(next)
          BY Zenon, <4>2 DEF Elems
        <5>3. CASE i = at
          <6>1. next[i] = new /\ new.rev >= y.rev
            <7>1. new.rev \in Nat /\ y.rev \in Nat
              BY Zenon, <1>8
            <7>2. next[i] = new /\ y.rev <= new.rev
              BY Zenon, <3>1, <3>4, <4>2, <5>1, <5>3
            <7>3. QED
              BY <7>1, <7>2
          <6>2. QED
            BY Zenon, <3>1, <4>1, <5>1, <5>2, <5>3, <6>1 DEF Carries, Later
        <5>4. CASE i # at
          <6>1. y \in Elems(next)
            BY Zenon, <4>2, <5>1, <5>2, <5>4
          <6>2. QED
            BY Zenon, <1>8, <6>1 DEF Carries, Later
        <5>5. QED
          BY Zenon, <5>3, <5>4
      <4>7. QED
        BY Zenon, <4>2, <4>4, <4>5, <4>6
    <3>5. QED
      BY <3>2, <3>3, <3>4
  <2>3. QED
    BY <2>1, <2>2
<1> HIDE DEF next
<1>10. Elems(next) \subseteq Elems(rows) \cup {new}
  BY Zenon, <1>3, <1>9
<1>11. /\ BoundedThread(next) \in Seq(T) /\ Neat(BoundedThread(next)) /\ Len(BoundedThread(next)) <= Window + 1
      /\ Elems(BoundedThread(next)) \subseteq Elems(next)
      /\ \A x \in Elems(next) : x \in Elems(BoundedThread(next)) \/ Lost(x, BoundedThread(next), Window + 1, v)
  <2>1. \A r \in Elems(next) : ~r.pending => r.seq \in Nat /\ (r.seq = v \/ (r.thread # 0 /\ r.seq > v))
    BY Zenon, <1>10
  <2>2. QED
    BY Zenon, <1>9, <2>1, BoundedThreadIs
<1>12. ASSUME NEW x \in Elems(rows)
       PROVE  Owed(x, BoundedThread(next), {new.id}, Window + 1, v)
  <2>1. CASE x \in Elems(others)
    BY Zenon, <1>9, <1>11, <2>1, CarriedOwed
  <2>2. CASE x.pending /\ x.id = new.id
    BY Zenon, <2>2 DEF Owed, Carries
  <2>3. QED
    BY Zenon, <1>4, <2>1, <2>2
<1>13. QED
  BY Zenon, <1>1, <1>10, <1>11, <1>12

------------------------------------------------------------------------------
(* The client's window.                                                     *)

Screen ==
  [id : Id, seq : 0..MaxSeq, pending : BOOLEAN, rev : Nat, deleted : BOOLEAN,
   body : Body \cup {Empty}, reacts : SUBSET (Emoji \X Party), thread : 0..MaxSeq]

\* Row r may be on screen in view v: sent from here, or a post of the room, of the thread if v is one.
Fits(f, ids, v, r) ==
  IF r.pending THEN r.id \in ids
  ELSE PostedAs(f, Len(f), Room, r.seq, r) /\ (v # 0 => r.seq = v \/ r.thread = v)

PageFits(f, v, page) ==
  /\ page \in Seq(Screen) /\ \A r \in Elems(page) : ~r.pending /\ Fits(f, {}, v, r)
  /\ \A r, q \in Elems(page) : r.seq = q.seq => r = q

WinFits(f, ids, v, rows) ==
  /\ rows \in Seq(Screen) /\ Neat(rows) /\ Len(rows) <= (IF v = 0 THEN Window ELSE Window + 1)
  /\ \A r \in Elems(rows) : Fits(f, ids, v, r)

WinInv ==
  /\ cur \in Nat
  /\ view = None => win = <<>> /\ load = None
  /\ view # None =>
       /\ view \in 0..MaxSeq /\ (view # 0 => IsRoot(canon, Room, view))
       /\ WinFits(feed, sent, view, win)
       /\ load # None /\ load.page # None => PageFits(feed, view, load.page)

(* Posts of one room never share an id or a sequence.                       *)
LEMMA PostsAgree ==
  ASSUME FeedOk, ThreadsOk, NEW S,
         \A r \in S : ~r.pending => PostedAs(feed, Len(feed), Room, r.seq, r)
  PROVE  Agree(S)
<1>1. feed \in Seq(Op) /\ Len(feed) \in Nat
  BY DEF FeedOk
<1>2. ASSUME NEW i \in 1..Len(feed), NEW j \in 1..Len(feed), i < j,
             feed[i].kind = "post", feed[j].kind = "post", feed[i].chan = Room, feed[j].chan = Room
      PROVE  feed[i].id # feed[j].id /\ feed[i].seq # feed[j].seq
  <2>1. i \in 1..j - 1 /\ feed[i] \in Op /\ feed[j] \in Op
    BY <1>1, <1>2
  <2>2. PostOk(feed, canon, j) /\ Follows(feed, j)
    BY Zenon DEF FeedOk, ThreadsOk
  <2>3. feed[i].id # feed[j].id
    BY Zenon, <1>2, <2>1, <2>2 DEF PostOk
  <2>4. feed[i].seq < feed[j].seq
    BY Zenon, <1>2, <2>1, <2>2 DEF Follows
  <2>5. feed[i].seq \in Nat /\ feed[j].seq \in Nat
    <3>1. \A x \in Op : x.seq \in Seqs
      BY DEF Op
    <3>2. Seqs \subseteq Nat
      BY DEF Seqs
    <3>3. QED
      BY Zenon, <2>1, <3>1, <3>2
  <2>6. QED
    BY <2>3, <2>4, <2>5
<1>3. SUFFICES ASSUME NEW r \in S, NEW q \in S, ~r.pending, ~q.pending
               PROVE  r.id = q.id <=> r.seq = q.seq
  BY Zenon DEF Agree
<1>4. PICK i \in 1..Len(feed) : OpOn(feed[i], "post", Room, r.seq) /\ feed[i].id = r.id
  BY Zenon, <1>3 DEF PostedAs
<1>5. PICK j \in 1..Len(feed) : OpOn(feed[j], "post", Room, q.seq) /\ feed[j].id = q.id
  BY Zenon, <1>3 DEF PostedAs
<1>6. /\ feed[i].kind = "post" /\ feed[i].chan = Room /\ feed[i].seq = r.seq
      /\ feed[j].kind = "post" /\ feed[j].chan = Room /\ feed[j].seq = q.seq
  BY Zenon, <1>4, <1>5 DEF OpOn
<1>7. i < j \/ j < i \/ i = j
  BY <1>1
<1>8. CASE i = j
  BY Zenon, <1>4, <1>5, <1>6, <1>8
<1>9. CASE i < j
  BY Zenon, <1>2, <1>4, <1>5, <1>6, <1>9
<1>10. CASE j < i
  BY Zenon, <1>2, <1>4, <1>5, <1>6, <1>10
<1>11. QED
  BY Zenon, <1>7, <1>8, <1>9, <1>10

(* A thread's rows but its root are replies, after it.                      *)
LEMMA ReplyAfter ==
  ASSUME FeedOk, NEW ids, NEW v \in Nat, v # 0, NEW r \in Screen, ~r.pending, Fits(feed, ids, v, r)
  PROVE  r.seq \in Nat /\ (r.seq = v \/ (r.thread # 0 /\ r.seq > v))
<1>1. feed \in Seq(Op) /\ Len(feed) \in Nat
  BY DEF FeedOk
<1>2. r.seq \in Nat
  BY DEF Screen
<1>3. ASSUME r.seq # v
      PROVE  r.thread # 0 /\ r.seq > v
  <2>1. r.thread = v /\ PostedAs(feed, Len(feed), Room, r.seq, r)
    BY Zenon, <1>3 DEF Fits
  <2>2. PICK i \in 1..Len(feed) : OpOn(feed[i], "post", Room, r.seq) /\ feed[i].thread = r.thread
    BY Zenon, <2>1 DEF PostedAs
  <2>3. feed[i].kind = "post" /\ feed[i].seq = r.seq /\ Follows(feed, i)
    BY Zenon, <2>2 DEF FeedOk, OpOn
  <2>4. feed[i].thread < feed[i].seq
    BY Zenon, <2>3 DEF Follows
  <2>5. v < r.seq
    BY Zenon, <2>1, <2>2, <2>3, <2>4
  <2>6. QED
    BY <1>2, <2>1, <2>5
<1>4. QED
  BY <1>2, <1>3

(* What fits goes on fitting as the feed grows and more is sent.            *)
LEMMA FitsLonger ==
  ASSUME FeedOk, NEW f, Len(f) \in Nat, Len(f) >= Len(feed), \A i \in 1..Len(feed) : f[i] = feed[i],
         NEW ids, NEW more, ids \subseteq more, NEW v, NEW r, Fits(feed, ids, v, r)
  PROVE  Fits(f, more, v, r)
<1>1. Len(feed) \in Nat
  BY DEF FeedOk
<1>2. 1..Len(feed) \subseteq 1..Len(f)
  BY <1>1
<1>3. PostedAs(feed, Len(feed), Room, r.seq, r) => PostedAs(f, Len(f), Room, r.seq, r)
  BY Zenon, <1>2 DEF PostedAs
<1>4. QED
  BY Zenon, <1>3 DEF Fits

(* Whatever is on screen is bounded.                                        *)
LEMMA BoundedIs ==
  ASSUME FeedOk, view \in 0..MaxSeq, NEW ids, NEW rows \in Seq(Screen), Neat(rows),
         \A r \in Elems(rows) : Fits(feed, ids, view, r)
  PROVE  /\ WinFits(feed, ids, view, Bounded(rows)) /\ Elems(Bounded(rows)) \subseteq Elems(rows)
         /\ \A x \in Elems(rows) : x \in Elems(Bounded(rows)) \/ Lost(x, Bounded(rows), WindowBound, view)
<1>1. view \in Nat
  BY ChatAssumption
<1>2. CASE view = 0
  <2>1. Bounded(rows) = BoundedRoom(rows)
    BY Zenon, <1>2 DEF Bounded
  <2>2. /\ BoundedRoom(rows) \in Seq(Screen) /\ Neat(BoundedRoom(rows)) /\ Len(BoundedRoom(rows)) <= Window
        /\ Elems(BoundedRoom(rows)) \subseteq Elems(rows)
        /\ \A x \in Elems(rows) : x \in Elems(BoundedRoom(rows)) \/ Lost(x, BoundedRoom(rows), Window, view)
    BY Zenon, <1>1, BoundedRoomIs
  <2>3. WindowBound = Window
    BY Zenon, <1>2 DEF WindowBound
  <2>4. QED
    BY Zenon, <1>2, <2>1, <2>2, <2>3 DEF WinFits
<1>3. CASE view # 0
  <2>1. Bounded(rows) = BoundedThread(rows)
    BY Zenon, <1>3 DEF Bounded
  <2>2. \A r \in Elems(rows) : r \in Screen
    BY DEF Elems
  <2>3. \A r \in Elems(rows) : ~r.pending => r.seq \in Nat /\ (r.seq = view \/ (r.thread # 0 /\ r.seq > view))
    BY Zenon, <1>1, <1>3, <2>2, ReplyAfter
  <2>4. /\ BoundedThread(rows) \in Seq(Screen) /\ Neat(BoundedThread(rows)) /\ Len(BoundedThread(rows)) <= Window + 1
        /\ Elems(BoundedThread(rows)) \subseteq Elems(rows)
        /\ \A x \in Elems(rows) : x \in Elems(BoundedThread(rows)) \/ Lost(x, BoundedThread(rows), Window + 1, view)
    BY Zenon, <1>1, <2>3, BoundedThreadIs
  <2>5. WindowBound = Window + 1
    BY Zenon, <1>3 DEF WindowBound
  <2>6. QED
    BY Zenon, <1>3, <2>1, <2>4, <2>5 DEF WinFits
<1>4. QED
  BY Zenon, <1>2, <1>3

\* The messages posted so far.
Posts == {feed[j].id : j \in {k \in 1..Len(feed) : feed[k].kind = "post"}}

\* What a window of rows owes to what is on screen.
Keeping(rows) == \A x \in Elems(win) : Owed(x, rows, Posts, WindowBound, view)

LEMMA OwedMore ==
  ASSUME NEW x, NEW next, NEW ids, NEW more, ids \subseteq more, NEW n, NEW v, Owed(x, next, ids, n, v)
  PROVE  Owed(x, next, more, n, v)
BY Zenon DEF Owed, Carries

(* A page lands.                                                            *)
LEMMA LandedIs ==
  ASSUME FeedOk, ThreadsOk, view \in 0..MaxSeq, NEW page, PageFits(feed, view, page), WinFits(feed, sent, view, win)
  PROVE  /\ WinFits(feed, sent, view, Landed(page, win)) /\ Keeping(Landed(page, win))
         /\ Elems(Landed(page, win)) \subseteq Elems(page) \cup Elems(win)
<1> DEFINE S == Elems(page) \cup Elems(win)
<1>1. page \in Seq(Screen) /\ win \in Seq(Screen) /\ Neat(win)
  BY Zenon DEF PageFits, WinFits
<1>2. (\A r \in Screen : r.seq \in Nat /\ r.rev \in Nat) /\ (\A c \in Elems(page) : ~c.pending)
      /\ \A c, d \in Elems(page) : c.seq = d.seq => c = d
  BY DEF Screen, PageFits
<1>3. ASSUME NEW r \in S
      PROVE  Fits(feed, sent, view, r)
  BY Zenon DEF PageFits, WinFits, Fits
<1>4. Agree(S)
  <2>1. \A r \in S : ~r.pending => PostedAs(feed, Len(feed), Room, r.seq, r)
    BY Zenon, <1>3 DEF Fits
  <2> HIDE DEF S
  <2>2. QED
    BY Zenon, <2>1, PostsAgree
<1> DEFINE mid == Merged(page, win)
           ids == {c.id : c \in Elems(page)}
<1>5. mid \in Seq(Screen) /\ Neat(mid) /\ Elems(mid) \subseteq S /\ \A x \in Elems(win) : Carries(x, mid, ids)
  BY Zenon, <1>1, <1>2, <1>4, MergedIs
<1>6. ids \subseteq Posts
  <2>1. ASSUME NEW c \in Elems(page) PROVE c.id \in Posts
    BY Zenon, <1>2, <1>3 DEF Fits, PostedAs, OpOn, Posts
  <2>2. QED
    BY Zenon, <2>1
<1> HIDE DEF mid, ids
<1>7. /\ WinFits(feed, sent, view, Bounded(mid)) /\ Elems(Bounded(mid)) \subseteq Elems(mid)
      /\ \A x \in Elems(mid) : x \in Elems(Bounded(mid)) \/ Lost(x, Bounded(mid), WindowBound, view)
  <2>1. \A r \in Elems(mid) : Fits(feed, sent, view, r)
    BY Zenon, <1>3, <1>5
  <2>2. QED
    BY Zenon, <1>5, <2>1, BoundedIs
<1>8. Landed(page, win) = Bounded(mid)
  BY Zenon DEF Landed, mid
<1>9. ASSUME NEW x \in Elems(win)
      PROVE  Owed(x, Bounded(mid), Posts, WindowBound, view)
  <2>1. Owed(x, Bounded(mid), ids, WindowBound, view)
    BY Zenon, <1>5, <1>7, CarriedOwed
  <2>2. QED
    BY Zenon, <1>6, <2>1, OwedMore
<1>10. Elems(Bounded(mid)) \subseteq Elems(page) \cup Elems(win)
  BY Zenon, <1>5, <1>7
<1>11. QED
  BY Zenon, <1>7, <1>8, <1>9, <1>10 DEF Keeping

(* A delta changes a row in what it shows, never in what it is.             *)
LEMMA ChangedAlike ==
  ASSUME NEW r \in Screen
  PROVE  /\ \A op \in Op : op.kind \in {"edit", "delete", "react"} =>
              Changed(r, op) \in Screen /\ Alike(Changed(r, op), r) /\ Changed(r, op).rev >= r.rev
         /\ \A e \in Emoji, p \in Party, a \in BOOLEAN :
              ReactedOn(r, e, p, a) \in Screen /\ Alike(ReactedOn(r, e, p, a), r) /\ ReactedOn(r, e, p, a).rev >= r.rev
<1>1. ASSUME NEW e \in Emoji, NEW p \in Party, NEW a \in BOOLEAN
      PROVE  ReactedOn(r, e, p, a) \in Screen /\ Alike(ReactedOn(r, e, p, a), r) /\ ReactedOn(r, e, p, a).rev >= r.rev
  BY DEF ReactedOn, Screen, Alike
<1>2. ASSUME NEW op \in Op, op.kind \in {"edit", "delete", "react"}
      PROVE  Changed(r, op) \in Screen /\ Alike(Changed(r, op), r) /\ Changed(r, op).rev >= r.rev
  <2>1. CASE op.kind = "edit"
    <3>1. op.body \in Body /\ op.rev \in Nat
      BY <2>1 DEF Op
    <3>2. Changed(r, op) = EditedOn(r, op)
      BY <2>1 DEF Changed
    <3>3. EditedOn(r, op) \in Screen /\ Alike(EditedOn(r, op), r)
      BY <3>1 DEF EditedOn, Screen, Alike
    <3>4. EditedOn(r, op).rev >= r.rev
      <4>1. EditedOn(r, op).rev = r.rev \/ (EditedOn(r, op).rev = op.rev /\ ~(r.rev >= op.rev))
        BY DEF EditedOn, Screen
      <4>2. r.rev \in Nat
        BY DEF Screen
      <4>3. QED
        BY ONLY <3>1, <4>1, <4>2
    <3>5. QED
      BY <3>2, <3>3, <3>4
  <2>2. CASE op.kind = "delete"
    <3>1. Changed(r, op) = TombstoneOn(r)
      BY <2>2 DEF Changed
    <3>2. TombstoneOn(r) \in Screen /\ Alike(TombstoneOn(r), r)
      BY DEF TombstoneOn, Screen, Alike
    <3>3. TombstoneOn(r).rev >= r.rev
      <4>1. TombstoneOn(r).rev = r.rev /\ r.rev \in Nat
        BY DEF TombstoneOn, Screen
      <4>2. QED
        BY ONLY <4>1
    <3>4. QED
      BY <3>1, <3>2, <3>3
  <2>3. CASE op.kind = "react"
    <3>1. op.emoji \in Emoji /\ op.who \in Party /\ op.added \in BOOLEAN
      BY <2>3 DEF Op
    <3>2. Changed(r, op) = ReactedOn(r, op.emoji, op.who, op.added)
      BY <2>3 DEF Changed
    <3>3. QED
      BY Zenon, <1>1, <3>1, <3>2
  <2>4. QED
    BY Zenon, <1>2, <2>1, <2>2, <2>3
<1>3. QED
  BY Zenon, <1>1, <1>2

(* Rows changed so stay on screen.                                          *)
LEMMA AlikeFits ==
  ASSUME NEW f, NEW ids, NEW v, NEW rows, WinFits(f, ids, v, rows), NEW next,
         next = [i \in DOMAIN rows |-> next[i]], \A i \in DOMAIN rows : next[i] \in Screen /\ Alike(next[i], rows[i])
  PROVE  WinFits(f, ids, v, next)
<1>1. rows \in Seq(Screen) /\ Neat(rows) /\ Len(rows) <= (IF v = 0 THEN Window ELSE Window + 1)
      /\ \A r \in Elems(rows) : Fits(f, ids, v, r)
  BY Zenon DEF WinFits
<1>2. /\ next \in Seq(Screen) /\ Len(next) = Len(rows) /\ Neat(next)
      /\ \A x \in Elems(next) : \E y \in Elems(rows) : Alike(x, y)
  BY Zenon, <1>1, AlikeIs
<1>3. ASSUME NEW x \in Elems(next)
      PROVE  Fits(f, ids, v, x)
  <2>1. PICK y \in Elems(rows) : Alike(x, y)
    BY Zenon, <1>2
  <2>2. Fits(f, ids, v, y) /\ x.id = y.id /\ x.seq = y.seq /\ (x.pending <=> y.pending) /\ x.thread = y.thread
    BY Zenon, <1>1, <2>1 DEF Alike
  <2>3. QED
    BY Zenon, <2>2 DEF Fits, PostedAs
<1>4. Len(next) <= (IF v = 0 THEN Window ELSE Window + 1)
  BY Zenon, <1>1, <1>2
<1>5. QED
  BY Zenon, <1>2, <1>3, <1>4 DEF WinFits

(* A page that was read fits, whatever was folded since, and shows heads.   *)
LEMMA PageRowsFit ==
  ASSUME FeedOk, RowsOk, ThreadsOk, view \in 0..MaxSeq, view # 0 => IsRoot(canon, Room, view)
  PROVE  /\ PageFits(feed, view, PageRows)
         /\ \A r \in Elems(PageRows) : r.seq \in Seqs /\ row[Room][r.seq] # None /\ r = Shown(row[Room][r.seq], r.seq)
<1> DEFINE w == [stage |-> "paging", chan |-> Room, thread |-> view, cursor |-> 0, seen |-> <<>>, want |-> {}]
           page == PageAt(w)
           seqs == IF view = 0 \/ row[Room][view] = None THEN page.seqs ELSE <<view>> \o page.seqs
<1>1. Room \in Channel /\ Len(feed) \in Nat /\ w \in Walks /\ w.thread = view /\ w.chan = Room /\ w.cursor = 0
      /\ (view = 0 \/ view \in Seqs)
  BY ClientAssumption, ChatAssumption DEF Walks, FeedOk, Seqs
<1>2. page = IF view = 0 THEN RootsPage(Room, 0) ELSE ThreadPage(Room, view, 0)
  BY Zenon, <1>1 DEF PageAt
<1> HIDE DEF w
<1>3. PageRows = [i \in DOMAIN seqs |-> Shown(row[Room][seqs[i]], seqs[i])]
  BY Zenon, <1>2 DEF PageRows
<1>4. view # 0 /\ row[Room][view] # None => row[Room][view].thread = 0
  <2> SUFFICES ASSUME view # 0, row[Room][view] # None PROVE row[Room][view].thread = 0
    OBVIOUS
  <2>1. canon[Room][view].thread = row[Room][view].thread
    BY Zenon, <1>1, PostOf
  <2>2. QED
    BY Zenon, <2>1 DEF IsRoot
<1>5. ASSUME NEW s \in Markers(Room, view)
      PROVE  s \in Seqs /\ row[Room][s] # None /\ row[Room][s].thread = view
  BY <1>1 DEF ThreadsOk, MarkersOk, Markers
<1>6. page.seqs \in Seq(Seqs) /\ \A i \in DOMAIN page.seqs : page.seqs[i] \in Markers(Room, view)
  <2>1. CASE view = 0 \/ row[Room][view] # None
    <3>1. PageRight(w, page)
      <4>1. CASE view = 0
        BY Zenon, <1>1, <4>1, RootsPageRight
      <4>2. CASE view # 0 /\ row[Room][view] # None
        BY Zenon, <1>1, <1>4, <4>2, ThreadPageRight
      <4>3. QED
        BY <2>1, <4>1, <4>2
    <3>2. page.seqs \in Seq(Unread(w)) /\ Unread(w) \subseteq Markers(Room, view) /\ Markers(Room, view) \subseteq Seqs
      BY <1>1, <1>5, <3>1 DEF PageRight, Unread
    <3> HIDE DEF page
    <3>3. QED
      BY <3>2
  <2>2. CASE view # 0 /\ row[Room][view] = None
    <3>1. page = PageOf(<<>>)
      BY Zenon, <1>2, <2>2 DEF ThreadPage
    <3>2. page.seqs = <<>>
      BY <3>1 DEF PageOf
    <3> HIDE DEF page
    <3>3. QED
      BY <3>2
  <2>3. QED
    BY <2>1, <2>2
<1> HIDE DEF page
<1>7. seqs \in Seq(Seqs) /\ \A i \in DOMAIN seqs : row[Room][seqs[i]] # None /\ (seqs[i] = view \/ row[Room][seqs[i]].thread = view)
  <2>1. CASE view = 0 \/ row[Room][view] = None
    BY <1>5, <1>6, <2>1
  <2>2. CASE view # 0 /\ row[Room][view] # None
    <3>1. seqs = <<view>> \o page.seqs
      BY Zenon, <2>2
    <3>2. view \in Seqs
      BY <1>1, <2>2
    <3>3. /\ DOMAIN seqs = 1..1 + Len(page.seqs) /\ Len(page.seqs) \in Nat /\ DOMAIN page.seqs = 1..Len(page.seqs)
          /\ \A i \in DOMAIN seqs : seqs[i] = IF i = 1 THEN view ELSE page.seqs[i - 1]
      BY <1>6, <3>1
    <3>4. seqs \in Seq(Seqs)
      BY <1>6, <3>1, <3>2
    <3> HIDE DEF seqs
    <3>5. ASSUME NEW i \in DOMAIN seqs
          PROVE  row[Room][seqs[i]] # None /\ (seqs[i] = view \/ row[Room][seqs[i]].thread = view)
      <4>1. CASE i = 1
        BY Zenon, <2>2, <3>3, <4>1
      <4>2. CASE i # 1
        <5>1. i - 1 \in DOMAIN page.seqs /\ seqs[i] = page.seqs[i - 1]
          BY <3>3, <4>2
        <5>2. QED
          BY Zenon, <1>5, <1>6, <5>1
      <4>3. QED
        BY <4>1, <4>2
    <3>6. QED
      BY Zenon, <3>4, <3>5
  <2>3. QED
    BY <2>1, <2>2
<1> HIDE DEF seqs
<1>8. ASSUME NEW s \in Seqs, row[Room][s] # None, s = view \/ row[Room][s].thread = view
      PROVE  LET r == Shown(row[Room][s], s) IN
             r \in Screen /\ ~r.pending /\ r.seq = s /\ Fits(feed, {}, view, r)
  <2> DEFINE r == Shown(row[Room][s], s)
  <2>1. row[Room][s] \in Row
    BY <1>1, <1>8 DEF RowsOk, Rows
  <2>2. r \in Screen /\ ~r.pending /\ r.seq = s /\ r.id = row[Room][s].id /\ r.thread = row[Room][s].thread
    BY <2>1 DEF Shown, Screen, Row, Seqs
  <2> HIDE DEF r
  <2>3. \E i \in 1..Len(feed) : OpOn(feed[i], "post", Room, s) /\ feed[i].id = row[Room][s].id /\ feed[i].thread = row[Room][s].thread
    BY Zenon, <1>1, <1>8, PostOf
  <2>4. PostedAs(feed, Len(feed), Room, r.seq, r)
    BY Zenon, <2>2, <2>3 DEF PostedAs
  <2>5. Fits(feed, {}, view, r)
    BY Zenon, <1>8, <2>2, <2>4 DEF Fits
  <2>6. QED
    BY Zenon, <2>2, <2>5 DEF r
<1>9. ASSUME NEW i \in DOMAIN seqs
      PROVE  LET r == PageRows[i] IN
             /\ r \in Screen /\ ~r.pending /\ Fits(feed, {}, view, r)
             /\ r.seq \in Seqs /\ row[Room][r.seq] # None /\ r = Shown(row[Room][r.seq], r.seq)
  <2>1. seqs[i] \in Seqs /\ row[Room][seqs[i]] # None /\ (seqs[i] = view \/ row[Room][seqs[i]].thread = view)
    BY <1>7
  <2>2. PageRows[i] = Shown(row[Room][seqs[i]], seqs[i])
    BY <1>3
  <2>3. QED
    BY Zenon, <1>8, <2>1, <2>2
<1>10. DOMAIN PageRows = DOMAIN seqs /\ PageRows \in Seq(Screen)
  <2>1. DOMAIN seqs = 1..Len(seqs) /\ Len(seqs) \in Nat
    BY <1>7
  <2>2. PageRows = [i \in 1..Len(seqs) |-> PageRows[i]]
    BY <1>3, <2>1
  <2>3. \A i \in 1..Len(seqs) : PageRows[i] \in Screen
    BY Zenon, <1>9, <2>1
  <2>4. QED
    BY <2>1, <2>2, <2>3
<1>11. \A r \in Elems(PageRows) :
         /\ ~r.pending /\ Fits(feed, {}, view, r)
         /\ r.seq \in Seqs /\ row[Room][r.seq] # None /\ r = Shown(row[Room][r.seq], r.seq)
  <2> TAKE r \in Elems(PageRows)
  <2>1. PICK i \in DOMAIN seqs : r = PageRows[i]
    BY Zenon, <1>10 DEF Elems
  <2>2. QED
    BY Zenon, <1>9, <2>1
<1>12. \A r, q \in Elems(PageRows) : r.seq = q.seq => r = q
  BY Zenon, <1>11
<1>13. QED
  BY Zenon, <1>10, <1>11, <1>12 DEF PageFits

(* Rows each as it was or, if committed, changed to a later revision.       *)
LEMMA ChangedKeeps ==
  ASSUME NEW rows, DOMAIN rows = DOMAIN win,
         \A i \in DOMAIN win :
           rows[i] = win[i] \/ (~win[i].pending /\ Alike(rows[i], win[i]) /\ rows[i].rev >= win[i].rev),
         win \in Seq(Screen)
  PROVE  Keeping(rows)
<1> SUFFICES ASSUME NEW i \in DOMAIN win PROVE Carries(win[i], rows, Posts)
  BY Zenon DEF Keeping, Owed, Elems
<1>1. win[i].rev >= win[i].rev
  <2>1. \A r \in Screen : r.rev \in Nat
    BY DEF Screen
  <2>2. win[i] \in Screen
    BY ONLY win \in Seq(Screen), i \in DOMAIN win
  <2>3. win[i].rev \in Nat
    BY Zenon, <2>1, <2>2
  <2>4. QED
    BY ONLY <2>3
<1>2. rows[i] \in Elems(rows)
  BY Zenon DEF Elems
<1>3. QED
  BY Zenon, <1>1, <1>2 DEF Carries, Later, Alike

(* A delta goes where its sequence puts it.                                 *)
LEMMA SplicedIs ==
  ASSUME FeedOk, ThreadsOk, view \in 0..MaxSeq, WinFits(feed, sent, view, win),
         NEW j \in 1..Len(feed), feed[j].chan = Room
  PROVE  /\ WinFits(feed, sent, view, Spliced(win, feed[j])) /\ Keeping(Spliced(win, feed[j]))
         /\ feed[j].kind = "post" =>
              Elems(Spliced(win, feed[j])) \subseteq Elems(win) \cup {Shown(Posted(feed[j]), feed[j].seq)}
<1> DEFINE op == feed[j]
           x == Shown(Posted(op), op.seq)
<1>1. op \in Op
  BY DEF FeedOk
<1>2. win \in Seq(Screen) /\ Neat(win) /\ \A r \in Elems(win) : Fits(feed, sent, view, r)
  BY Zenon DEF WinFits
<1>3. ASSUME op.kind = "post"
      PROVE  x \in Screen /\ ~x.pending /\ x.thread = op.thread /\ PostedAs(feed, Len(feed), Room, x.seq, x)
  <2>1. op.id \in Id /\ op.body \in Body /\ op.thread \in 0..MaxSeq /\ op.seq \in Seqs
    BY <1>1, <1>3 DEF Op
  <2>2. x \in Screen /\ ~x.pending /\ x.thread = op.thread /\ x.id = op.id /\ x.seq = op.seq
    BY <2>1 DEF Shown, Posted, Screen, Seqs
  <2> HIDE DEF x
  <2>3. OpOn(op, "post", Room, x.seq) /\ op.id = x.id /\ op.thread = x.thread
    BY Zenon, <1>3, <2>2 DEF OpOn
  <2>4. PostedAs(feed, Len(feed), Room, x.seq, x)
    BY Zenon, <2>3 DEF PostedAs
  <2>5. QED
    BY <2>2, <2>4
<1>4. CASE op.kind = "post" /\ view = 0 /\ op.thread = 0
  <2>1. Spliced(win, op) = Landed(<<x>>, win)
    BY <1>4 DEF Spliced
  <2>2. Fits(feed, {}, view, x)
    BY Zenon, <1>3, <1>4 DEF Fits
  <2> HIDE DEF x
  <2>3. <<x>> \in Seq(Screen) /\ Elems(<<x>>) = {x}
    BY <1>3, <1>4 DEF Elems
  <2>4. PageFits(feed, view, <<x>>)
    BY Zenon, <1>3, <1>4, <2>2, <2>3 DEF PageFits
  <2>5. /\ WinFits(feed, sent, view, Landed(<<x>>, win)) /\ Keeping(Landed(<<x>>, win))
        /\ Elems(Landed(<<x>>, win)) \subseteq Elems(win) \cup {x}
    BY Zenon, <2>3, <2>4, LandedIs
  <2>6. QED
    BY Zenon, <2>1, <2>5 DEF x
<1>5. CASE op.kind = "post" /\ view # 0 /\ op.thread = view
  <2>1. Spliced(win, op) = ReplyMerged(win, x)
    BY <1>5 DEF Spliced
  <2>2. x \in Screen /\ ~x.pending /\ Fits(feed, sent, view, x)
    BY Zenon, <1>3, <1>5 DEF Fits
  <2> HIDE DEF x
  <2>3. \A r \in Elems(win) \cup {x} : r \in Screen /\ Fits(feed, sent, view, r)
    BY <1>2, <2>2 DEF Elems
  <2>4. Agree(Elems(win) \cup {x})
    <3>1. \A r \in Elems(win) \cup {x} : ~r.pending => PostedAs(feed, Len(feed), Room, r.seq, r)
      BY Zenon, <2>3 DEF Fits
    <3>2. QED
      BY Zenon, <3>1, PostsAgree
  <2>5. view \in Nat /\ \A r \in Screen : r.seq \in Nat /\ r.rev \in Nat
    BY ChatAssumption DEF Screen
  <2>6. \A r \in Elems(win) \cup {x} : ~r.pending => r.seq \in Nat /\ (r.seq = view \/ (r.thread # 0 /\ r.seq > view))
    BY Zenon, <1>5, <2>3, <2>5, ReplyAfter
  <2>7. /\ ReplyMerged(win, x) \in Seq(Screen) /\ Neat(ReplyMerged(win, x)) /\ Len(ReplyMerged(win, x)) <= Window + 1
        /\ Elems(ReplyMerged(win, x)) \subseteq Elems(win) \cup {x}
        /\ \A y \in Elems(win) : Owed(y, ReplyMerged(win, x), {x.id}, Window + 1, view)
    BY Zenon, <1>2, <2>2, <2>4, <2>5, <2>6, ReplyMergedIs
  <2>8. WinFits(feed, sent, view, ReplyMerged(win, x))
    BY Zenon, <1>5, <2>3, <2>7 DEF WinFits
  <2>9. Keeping(ReplyMerged(win, x))
    <3>1. WindowBound = Window + 1
      BY Zenon, <1>5 DEF WindowBound
    <3>2. {x.id} \subseteq Posts
      BY Zenon, <2>2 DEF Fits, PostedAs, OpOn, Posts
    <3>3. QED
      BY Zenon, <2>7, <3>1, <3>2, OwedMore DEF Keeping
  <2>10. QED
    BY Zenon, <2>1, <2>7, <2>8, <2>9 DEF x
<1>6. CASE op.kind \in {"edit", "delete", "react"}
  <2> DEFINE next == [i \in DOMAIN win |-> IF Is(win[i], op.seq) THEN Changed(win[i], op) ELSE win[i]]
  <2>1. Spliced(win, op) = next
    BY <1>6 DEF Spliced
  <2>2. \A i \in DOMAIN win : win[i] \in Screen
    BY <1>2
  <2>3. ASSUME NEW i \in DOMAIN win
        PROVE  /\ next[i] \in Screen /\ Alike(next[i], win[i])
               /\ next[i] = win[i] \/ (~win[i].pending /\ Alike(next[i], win[i]) /\ next[i].rev >= win[i].rev)
    <3>1. Changed(win[i], op) \in Screen /\ Alike(Changed(win[i], op), win[i]) /\ Changed(win[i], op).rev >= win[i].rev
      BY Zenon, <1>1, <1>6, <2>2, ChangedAlike
    <3>2. Alike(win[i], win[i])
      BY Zenon DEF Alike
    <3>3. (next[i] = Changed(win[i], op) /\ ~win[i].pending) \/ next[i] = win[i]
      <4>1. Is(win[i], op.seq) => ~win[i].pending
        BY Zenon DEF Is
      <4>2. QED
        BY Zenon, <4>1
    <3> HIDE DEF next
    <3>4. QED
      BY Zenon, <2>2, <3>1, <3>2, <3>3
  <2>4. next = [i \in DOMAIN win |-> next[i]] /\ DOMAIN next = DOMAIN win
    OBVIOUS
  <2> HIDE DEF next
  <2>5. WinFits(feed, sent, view, next) /\ Keeping(next)
    BY Zenon, <1>2, <2>3, <2>4, AlikeFits, ChangedKeeps
  <2>6. op.kind # "post"
    BY <1>6
  <2>7. QED
    BY Zenon, <2>1, <2>5, <2>6
<1>7. CASE op.kind = "post" /\ ~(view = 0 /\ op.thread = 0) /\ ~(view # 0 /\ op.thread = view)
  <2>1. Spliced(win, op) = win
    BY <1>7 DEF Spliced
  <2>2. Keeping(win)
    BY Zenon, <1>2, ChangedKeeps
  <2>3. QED
    BY Zenon, <2>1, <2>2
<1>8. op.kind \in {"post", "edit", "delete", "react"}
  BY <1>1 DEF Op
<1>9. QED
  BY <1>4, <1>5, <1>6, <1>7, <1>8

(* A placeholder behind the rows, before the window is bounded.             *)
LEMMA SentFits ==
  ASSUME WinFits(feed, sent, view, win), NEW m \in Id, Send(m)
  PROVE  LET rows == Append(win, Placeholder(m)) IN
         /\ rows \in Seq(Screen) /\ Neat(rows)
         /\ Elems(win) \subseteq Elems(rows) /\ Elems(rows) \subseteq Elems(win) \cup {Placeholder(m)}
         /\ \A r \in Elems(rows) : Fits(feed, sent \cup {m}, view, r)
<1> DEFINE x == Placeholder(m)
<1>1. m \notin sent /\ \A i \in 1..Len(feed) : feed[i].kind = "post" => feed[i].id # m
  BY Zenon DEF Send
<1>2. x \in Screen /\ x.pending /\ x.id = m
  BY ChatAssumption DEF Placeholder, Screen
<1> HIDE DEF x
<1>3. win \in Seq(Screen) /\ Neat(win) /\ \A r \in Elems(win) : Fits(feed, sent, view, r)
  BY Zenon DEF WinFits
<1>4. \A r \in Elems(win) : r.id # m
  <2> TAKE r \in Elems(win)
  <2>1. CASE r.pending
    BY Zenon, <1>1, <1>3, <2>1 DEF Fits
  <2>2. CASE ~r.pending
    BY Zenon, <1>1, <1>3, <2>2 DEF Fits, PostedAs, OpOn
  <2>3. QED
    BY <2>1, <2>2
<1>5. Append(win, x) \in Seq(Screen) /\ Neat(Append(win, x)) /\ Elems(Append(win, x)) = Elems(win) \cup {x}
  <2>1. <<x>> \in Seq(Screen) /\ Neat(<<x>>) /\ Elems(<<x>>) = {x}
    BY <1>2 DEF Neat, Elems
  <2>2. \A y \in Elems(win), z \in Elems(<<x>>) : Pair(y, z)
    BY Zenon, <1>2, <1>4, <2>1 DEF Pair
  <2>3. Joined(Screen, win, <<x>>, win \o <<x>>) /\ Neat(win \o <<x>>)
    BY ONLY Zenon, <1>3, <2>1, <2>2, JoinNeat
  <2>4. Append(win, x) = win \o <<x>>
    BY <1>2, <1>3
  <2>5. QED
    BY Zenon, <2>1, <2>3, <2>4 DEF Joined
<1>6. \A r \in Elems(Append(win, x)) : Fits(feed, sent \cup {m}, view, r)
  BY Zenon, <1>2, <1>3, <1>5 DEF Fits
<1>7. QED
  BY Zenon, <1>5, <1>6 DEF x

(* The steps of the client keep what is on screen a window.                 *)
LEMMA ClientKeeps ==
  ASSUME IndexInv, ThreadsOk, WinInv, UNCHANGED source,
         \/ \E v \in 0..MaxSeq : Open(v)
         \/ Resync \/ Read \/ Land \/ Deliver
         \/ \E m \in Id : Send(m)
         \/ \E s \in Seqs, e \in Emoji, a \in BOOLEAN : Tap(s, e, a)
  PROVE  WinInv'
<1>1. FeedOk /\ RowsOk /\ feed \in Seq(Op) /\ Len(feed) \in Nat
  <2>1. FeedOk /\ RowsOk /\ feed \in Seq(Op)
    BY Zenon DEF IndexInv, FeedOk
  <2>2. QED
    BY ONLY <2>1
<1>2. feed' = feed /\ canon' = canon
  BY DEF source
<1>3. ASSUME NEW v \in 0..MaxSeq, Open(v)
      PROVE  WinInv'
  <2>1. /\ view = None /\ view' = v /\ cur' \in 0..Len(feed) /\ load' = Asked /\ win' = win /\ sent' = sent
        /\ v # 0 => v \in DOMAIN canon[Room] /\ canon[Room][v].thread = 0
    BY Zenon, <1>3 DEF Open
  <2>2. win = <<>>
    BY Zenon, <2>1 DEF WinInv
  <2>3. v # None /\ cur' \in Nat /\ load'.page = None
    BY <2>1, ClientAssumption DEF Asked
  <2>4. WinFits(feed, sent, v, <<>>)
    <3>1. /\ <<>> \in Seq(Screen) /\ Len(<<>>) = 0 /\ Neat(<<>>) /\ Elems(<<>>) = {}
          /\ 0 <= (IF v = 0 THEN Window ELSE Window + 1)
      BY ClientAssumption DEF Neat, Elems
    <3>2. QED
      BY <3>1 DEF WinFits
  <2>5. QED
    BY Zenon, <1>2, <2>1, <2>2, <2>3, <2>4 DEF WinInv, IsRoot
<1>4. CASE Resync
  <2>1. view # None /\ view' = view /\ win' = win /\ cur' = cur /\ sent' = sent /\ load' = Asked
    BY Zenon, <1>4 DEF Resync
  <2>2. load'.page = None
    BY <2>1 DEF Asked
  <2>3. QED
    BY Zenon, <1>2, <2>1, <2>2 DEF WinInv
<1>5. CASE Read
  <2>1. load # None /\ view' = view /\ win' = win /\ cur' = cur /\ sent' = sent /\ load' = [at |-> tip, page |-> PageRows]
    BY Zenon, <1>5 DEF Read
  <2>2. load'.page = PageRows
    BY <2>1
  <2>3. view # None /\ view \in 0..MaxSeq /\ (view # 0 => IsRoot(canon, Room, view)) /\ WinFits(feed, sent, view, win) /\ cur \in Nat
    BY Zenon, <2>1 DEF WinInv
  <2>4. PageFits(feed, view, PageRows)
    BY Zenon, <1>1, <2>3, PageRowsFit
  <2>5. QED
    BY Zenon, <1>2, <2>1, <2>2, <2>3, <2>4 DEF WinInv
<1>6. CASE Land
  <2>1. /\ load # None /\ load.page # None /\ view' = view /\ cur' = cur /\ sent' = sent /\ load' = None
        /\ win' = Landed(load.page, win)
    BY Zenon, <1>6 DEF Land
  <2>2. /\ view # None /\ view \in 0..MaxSeq /\ (view # 0 => IsRoot(canon, Room, view)) /\ WinFits(feed, sent, view, win) /\ cur \in Nat
        /\ PageFits(feed, view, load.page)
    BY Zenon, <2>1 DEF WinInv
  <2>3. WinFits(feed, sent, view, Landed(load.page, win))
    BY Zenon, <1>1, <2>2, LandedIs
  <2>4. QED
    BY Zenon, <1>2, <2>1, <2>2, <2>3 DEF WinInv
<1>7. CASE Deliver
  <2>1. /\ view # None /\ cur < Len(feed) /\ cur' = cur + 1 /\ view' = view /\ sent' = sent /\ load' = load
        /\ win' = IF feed[cur'].chan = Room THEN Spliced(win, feed[cur']) ELSE win
    BY Zenon, <1>7 DEF Deliver
  <2>2. /\ view \in 0..MaxSeq /\ (view # 0 => IsRoot(canon, Room, view)) /\ WinFits(feed, sent, view, win) /\ cur \in Nat
        /\ load # None /\ load.page # None => PageFits(feed, view, load.page)
    BY Zenon, <2>1 DEF WinInv
  <2>3. cur' \in 1..Len(feed) /\ cur' \in Nat
    BY <1>1, <2>1, <2>2
  <2>4. WinFits(feed, sent, view, win')
    <3>1. CASE feed[cur'].chan = Room
      BY Zenon, <1>1, <2>1, <2>2, <2>3, <3>1, SplicedIs
    <3>2. CASE feed[cur'].chan # Room
      BY Zenon, <2>1, <2>2, <3>2
    <3>3. QED
      BY <3>1, <3>2
  <2>5. QED
    BY Zenon, <1>2, <2>1, <2>2, <2>3, <2>4 DEF WinInv
<1>8. ASSUME NEW m \in Id, Send(m)
      PROVE  WinInv'
  <2> DEFINE rows == Append(win, Placeholder(m))
  <2>1. /\ view # None /\ view' = view /\ cur' = cur /\ load' = load /\ sent' = sent \cup {m}
        /\ win' = Bounded(rows)
    BY Zenon, <1>8 DEF Send
  <2>2. /\ view \in 0..MaxSeq /\ (view # 0 => IsRoot(canon, Room, view)) /\ WinFits(feed, sent, view, win) /\ cur \in Nat
        /\ load # None /\ load.page # None => PageFits(feed, view, load.page)
    BY Zenon, <2>1 DEF WinInv
  <2>3. rows \in Seq(Screen) /\ Neat(rows) /\ \A r \in Elems(rows) : Fits(feed, sent \cup {m}, view, r)
    BY Zenon, <1>8, <2>2, SentFits
  <2> HIDE DEF rows
  <2>4. WinFits(feed, sent \cup {m}, view, Bounded(rows))
    BY Zenon, <1>1, <2>2, <2>3, BoundedIs
  <2>5. QED
    BY Zenon, <1>2, <2>1, <2>2, <2>4 DEF WinInv
<1>9. ASSUME NEW s \in Seqs, NEW e \in Emoji, NEW a \in BOOLEAN, Tap(s, e, a)
      PROVE  WinInv'
  <2> DEFINE next == [i \in DOMAIN win |-> IF Is(win[i], s) THEN ReactedOn(win[i], e, Me, a) ELSE win[i]]
  <2>1. view # None /\ view' = view /\ cur' = cur /\ load' = load /\ sent' = sent /\ win' = next
    BY Zenon, <1>9 DEF Tap
  <2>2. /\ view \in 0..MaxSeq /\ (view # 0 => IsRoot(canon, Room, view)) /\ WinFits(feed, sent, view, win) /\ cur \in Nat
        /\ load # None /\ load.page # None => PageFits(feed, view, load.page)
    BY Zenon, <2>1 DEF WinInv
  <2>3. \A i \in DOMAIN win : win[i] \in Screen
    BY <2>2 DEF WinFits
  <2>4. ASSUME NEW i \in DOMAIN win
        PROVE  next[i] \in Screen /\ Alike(next[i], win[i])
    <3>1. ReactedOn(win[i], e, Me, a) \in Screen /\ Alike(ReactedOn(win[i], e, Me, a), win[i])
      BY Zenon, <2>3, ChangedAlike, ClientAssumption
    <3>2. Alike(win[i], win[i])
      BY Zenon DEF Alike
    <3>3. next[i] = ReactedOn(win[i], e, Me, a) \/ next[i] = win[i]
      BY Zenon
    <3> HIDE DEF next
    <3>4. QED
      BY Zenon, <2>3, <3>1, <3>2, <3>3
  <2>5. next = [i \in DOMAIN win |-> next[i]]
    OBVIOUS
  <2> HIDE DEF next
  <2>6. WinFits(feed, sent, view, next)
    BY Zenon, <2>2, <2>4, <2>5, AlikeFits
  <2>7. QED
    BY Zenon, <1>2, <2>1, <2>2, <2>6 DEF WinInv
<1>10. QED
  BY Zenon, <1>3, <1>4, <1>5, <1>6, <1>7, <1>8, <1>9

(* The feed, the fold and readers leave the window as it is, and it fits.   *)
LEMMA OthersKeep ==
  ASSUME FeedOk, WinInv, UNCHANGED <<view, win, cur, load, sent>>, FeedStep \/ UNCHANGED source
  PROVE  WinInv'
<1>1. view' = view /\ win' = win /\ cur' = cur /\ load' = load /\ sent' = sent
  OBVIOUS
<1>2. CASE UNCHANGED source
  <2>1. feed' = feed /\ canon' = canon
    BY <1>2 DEF source
  <2>2. QED
    BY Zenon, <1>1, <2>1 DEF WinInv
<1>3. CASE FeedStep
  <2>1. feed \in Seq(Op) /\ Len(feed) \in Nat /\ Room \in Channel
    BY ClientAssumption DEF FeedOk
  <2>2. /\ \A c \in Channel : \A s \in DOMAIN canon[c] :
              s \in DOMAIN canon'[c] /\ canon'[c][s].thread = canon[c][s].thread
        /\ \E op \in Op : feed' = Append(feed, op)
    BY Zenon, <1>3, FeedThreads
  <2>3. Len(feed') \in Nat /\ Len(feed') >= Len(feed) /\ \A i \in 1..Len(feed) : feed'[i] = feed[i]
    <3>1. PICK op \in Op : feed' = Append(feed, op)
      BY Zenon, <2>2
    <3>2. Len(feed') = Len(feed) + 1 /\ \A i \in 1..Len(feed) : feed'[i] = feed[i]
      BY Zenon, <2>1, <3>1, FeedGrows
    <3>3. QED
      BY <2>1, <3>2
  <2>4. \A v : v # 0 /\ IsRoot(canon, Room, v) => IsRoot(canon', Room, v)
    BY Zenon, <2>1, <2>2 DEF IsRoot
  <2>5. \A ids, v, r : Fits(feed, ids, v, r) => Fits(feed', ids, v, r)
    BY Zenon, <2>3, FitsLonger
  <2>6. \A ids, v, rows : WinFits(feed, ids, v, rows) => WinFits(feed', ids, v, rows)
    BY Zenon, <2>5 DEF WinFits
  <2>7. \A v, page : PageFits(feed, v, page) => PageFits(feed', v, page)
    BY Zenon, <2>5 DEF PageFits
  <2>8. QED
    BY Zenon, <1>1, <2>4, <2>6, <2>7 DEF WinInv
<1>4. QED
  BY <1>2, <1>3

(* Whatever the step, the window is one.                                    *)
LEMMA StepWinInv ==
  ASSUME IndexInv, ThreadsOk, WinInv, [Next]_vars
  PROVE  WinInv'
<1>1. FeedOk
  BY Zenon DEF IndexInv
<1>2. CASE ClientFeed
  <2>1. FeedStep /\ UNCHANGED <<view, win, cur, load, sent>>
    BY Zenon, <1>2 DEF ClientFeed
  <2>2. QED
    BY Zenon, <1>1, <2>1, OthersKeep
<1>3. CASE IndexOnly \/ Unattended \/ UNCHANGED vars
  <2>1. UNCHANGED <<view, win, cur, load, sent>>
    BY Zenon, <1>3 DEF IndexOnly, Unattended, client, vars
  <2>2. FeedStep \/ UNCHANGED source
    <3>1. Fold => UNCHANGED source
      BY Zenon DEF Fold, FoldPost, FoldEdit, FoldDelete, FoldReact, FoldNext
    <3>2. WalkStep => UNCHANGED source
      BY Zenon DEF WalkStep, TurnPage, OpenWalk
    <3>3. QED
      BY Zenon, <1>3, <3>1, <3>2 DEF IndexOnly, Unattended, vars
  <2>3. QED
    BY Zenon, <1>1, <2>1, <2>2, OthersKeep
<1>4. CASE \/ \E v \in 0..MaxSeq : Open(v)
           \/ Resync \/ Read \/ Land \/ Deliver
           \/ \E m \in Id : Send(m)
           \/ \E s \in Seqs, e \in Emoji, a \in BOOLEAN : Tap(s, e, a)
  <2>1. UNCHANGED source
    BY Zenon, <1>4 DEF Open, Resync, Read, Land, Deliver, Send, Tap
  <2>2. QED
    BY Zenon, <1>4, <2>1, ClientKeeps
<1>5. QED
  BY Zenon, <1>2, <1>3, <1>4 DEF Next

(* What fits is sound: no message twice, in order, bounded.                 *)
LEMMA SoundWindow ==
  ASSUME WinInv
  PROVE  WindowSound
<1> SUFFICES ASSUME view # None
             PROVE  /\ Len(win) <= WindowBound
                    /\ Cardinality(Ids(win)) = Len(win)
                    /\ \A i, j \in DOMAIN win : i < j /\ win[i].pending => win[j].pending
                    /\ \A i, j \in DOMAIN win : i < j /\ ~win[j].pending => win[i].seq < win[j].seq
  BY Zenon DEF WindowSound
<1>1. win \in Seq(Screen) /\ Neat(win) /\ Len(win) <= (IF view = 0 THEN Window ELSE Window + 1)
  BY Zenon DEF WinInv, WinFits
<1>2. Len(win) <= WindowBound
  BY Zenon, <1>1 DEF WindowBound
<1>3. /\ \A i, j \in DOMAIN win : i < j /\ win[i].pending => win[j].pending
      /\ \A i, j \in DOMAIN win : i < j /\ ~win[j].pending => win[i].seq < win[j].seq
  BY Zenon, <1>1 DEF Neat, Pair
<1>4. Cardinality(Ids(win)) = Len(win)
  <2> DEFINE f == [i \in DOMAIN win |-> win[i].id]
  <2>1. f \in Surjection(DOMAIN win, Ids(win))
    BY DEF Ids, Surjection
  <2>2. \A i, j \in DOMAIN win : i # j => win[i].id # win[j].id
    <3> TAKE i, j \in DOMAIN win
    <3>1. i < j \/ j < i \/ i = j
      BY <1>1
    <3>2. QED
      BY Zenon, <1>1, <3>1 DEF Neat, Pair
  <2>3. f \in Injection(DOMAIN win, Ids(win))
    <3>1. f \in [DOMAIN win -> Ids(win)]
      BY DEF Ids
    <3>2. ASSUME NEW i \in DOMAIN win, NEW j \in DOMAIN win, f[i] = f[j]
          PROVE  i = j
      <4>1. f[i] = win[i].id /\ f[j] = win[j].id
        OBVIOUS
      <4> HIDE DEF f
      <4>2. QED
        BY Zenon, <2>2, <3>2, <4>1
    <3> HIDE DEF f
    <3>3. QED
      BY <3>1, <3>2 DEF Injection, IsInjective
  <2>4. IsFiniteSet(DOMAIN win) /\ Cardinality(DOMAIN win) = Len(win)
    BY Zenon, <1>1, PlacesAre
  <2> HIDE DEF f
  <2>5. Cardinality(Ids(win)) = Cardinality(DOMAIN win)
    BY Zenon, <2>1, <2>3, <2>4, FS_Surjection
  <2>6. QED
    BY Zenon, <2>4, <2>5
<1>5. QED
  BY Zenon, <1>2, <1>3, <1>4

(* A client following a room or a thread, for any window size, channels and *)
(* messages: whatever order pages land, deltas arrive, messages are sent    *)
(* and placeholders settle in, its window is bounded, in order and shows no *)
(* message twice (client.rs:784-1196).                                      *)
THEOREM WindowSoundHolds == Spec => []WindowSound
<1>1. ClientInit => IndexInv /\ ThreadsOk /\ WinInv
  <2>1. ClientInit => WinInv
    BY DEF ClientInit, WinInv
  <2>2. QED
    BY <2>1, InitIndexInv, InitThreadsOk
<1>2. (IndexInv /\ ThreadsOk /\ WinInv) /\ [Next]_vars => (IndexInv /\ ThreadsOk /\ WinInv)'
  BY StepIndexInv, StepThreadsOk, StepWinInv
<1>3. IndexInv /\ ThreadsOk /\ WinInv => WindowSound
  BY SoundWindow
<1>4. QED
  BY <1>1, <1>2, <1>3, PTL DEF Spec

(* A step of the client keeps what is on screen.                            *)
LEMMA StepKeeping ==
  ASSUME IndexInv, ThreadsOk, WinInv, Next
  PROVE  win' = win \/ (WinFits(feed, sent, view, win) /\ Keeping(win'))
<1>1. FeedOk /\ Len(feed) \in Nat
  <2>1. FeedOk /\ feed \in Seq(Op)
    BY Zenon DEF IndexInv, FeedOk
  <2>2. QED
    BY ONLY <2>1
<1>2. CASE Land
  <2>1. load # None /\ load.page # None /\ win' = Landed(load.page, win)
    BY Zenon, <1>2 DEF Land
  <2>2. view \in 0..MaxSeq /\ WinFits(feed, sent, view, win) /\ PageFits(feed, view, load.page)
    BY Zenon, <2>1 DEF WinInv
  <2>3. QED
    BY Zenon, <1>1, <2>1, <2>2, LandedIs
<1>3. CASE Deliver
  <2>1. /\ view # None /\ cur < Len(feed) /\ cur' = cur + 1
        /\ win' = IF feed[cur'].chan = Room THEN Spliced(win, feed[cur']) ELSE win
    BY Zenon, <1>3 DEF Deliver
  <2>2. view \in 0..MaxSeq /\ WinFits(feed, sent, view, win) /\ cur \in Nat
    BY Zenon, <2>1 DEF WinInv
  <2>3. cur' \in 1..Len(feed)
    BY <1>1, <2>1, <2>2
  <2>4. QED
    BY Zenon, <1>1, <2>1, <2>2, <2>3, SplicedIs
<1>4. ASSUME NEW m \in Id, Send(m)
      PROVE  WinFits(feed, sent, view, win) /\ Keeping(win')
  <2> DEFINE x == Placeholder(m)
             rows == Append(win, x)
  <2>1. view # None /\ win' = Bounded(rows)
    BY Zenon, <1>4 DEF Send
  <2>2. view \in 0..MaxSeq /\ WinFits(feed, sent, view, win)
    BY Zenon, <2>1 DEF WinInv
  <2>3. /\ rows \in Seq(Screen) /\ Neat(rows) /\ Elems(win) \subseteq Elems(rows)
        /\ \A r \in Elems(rows) : Fits(feed, sent \cup {m}, view, r)
    BY Zenon, <1>4, <2>2, SentFits
  <2> HIDE DEF x, rows
  <2>4. \A y \in Elems(rows) : y \in Elems(Bounded(rows)) \/ Lost(y, Bounded(rows), WindowBound, view)
    BY Zenon, <1>1, <2>2, <2>3, BoundedIs
  <2>5. win \in Seq(Screen)
    BY Zenon, <2>2 DEF WinFits
  <2>6. ASSUME NEW y \in Elems(win)
        PROVE  Owed(y, Bounded(rows), Posts, WindowBound, view)
    <3>1. \A r \in Screen : r.rev \in Nat
      BY DEF Screen
    <3>2. y.rev >= y.rev
      <4>1. y \in Screen
        BY <2>5 DEF Elems
      <4>2. y.rev \in Nat
        BY Zenon, <3>1, <4>1
      <4>3. QED
        BY ONLY <4>2
    <3>3. Carries(y, rows, Posts)
      BY Zenon, <2>3, <3>2 DEF Carries, Later
    <3>4. QED
      BY Zenon, <2>4, <3>3, CarriedOwed
  <2>7. QED
    BY Zenon, <2>1, <2>2, <2>6 DEF Keeping
<1>5. ASSUME NEW s \in Seqs, NEW e \in Emoji, NEW a \in BOOLEAN, Tap(s, e, a)
      PROVE  WinFits(feed, sent, view, win) /\ Keeping(win')
  <2> DEFINE next == [i \in DOMAIN win |-> IF Is(win[i], s) THEN ReactedOn(win[i], e, Me, a) ELSE win[i]]
  <2>1. view # None /\ win' = next
    BY Zenon, <1>5 DEF Tap
  <2>2. WinFits(feed, sent, view, win) /\ win \in Seq(Screen)
    BY Zenon, <2>1 DEF WinInv, WinFits
  <2>3. \A i \in DOMAIN win : win[i] \in Screen
    BY <2>2
  <2>4. ASSUME NEW i \in DOMAIN win
        PROVE  next[i] = win[i] \/ (~win[i].pending /\ Alike(next[i], win[i]) /\ next[i].rev >= win[i].rev)
    <3>1. Alike(ReactedOn(win[i], e, Me, a), win[i]) /\ ReactedOn(win[i], e, Me, a).rev >= win[i].rev
      BY Zenon, <2>3, ChangedAlike, ClientAssumption
    <3>2. Is(win[i], s) => ~win[i].pending
      BY Zenon DEF Is
    <3>3. QED
      BY Zenon, <3>1, <3>2
  <2>5. DOMAIN next = DOMAIN win
    OBVIOUS
  <2> HIDE DEF next
  <2>6. Keeping(next)
    BY Zenon, <2>2, <2>4, <2>5, ChangedKeeps
  <2>7. QED
    BY Zenon, <2>1, <2>2, <2>6
<1>6. CASE ClientFeed \/ IndexOnly \/ Unattended \/ (\E v \in 0..MaxSeq : Open(v)) \/ Resync \/ Read
  BY Zenon, <1>6 DEF ClientFeed, IndexOnly, Unattended, Open, Resync, Read, client
<1>7. QED
  BY Zenon, <1>2, <1>3, <1>4, <1>5, <1>6 DEF Next

(* What is kept, in the words of the property.                              *)
LEMMA KeepingIs ==
  ASSUME NEW i \in DOMAIN win, Owed(win[i], win', Posts, WindowBound, view)
  PROVE  IF win[i].pending
         THEN \/ \E j \in DOMAIN win' : win'[j] = win[i]
              \/ \E j \in 1..Len(feed) : feed[j].kind = "post" /\ feed[j].id = win[i].id
              \/ Cardinality(Pending(win')) >= Window - 1
         ELSE KeptOn(win[i]) \/ EvictedFor(win[i])
<1>1. CASE win[i].pending
  <2>1. CASE win[i] \in Elems(win')
    BY Zenon, <1>1, <2>1 DEF Elems
  <2>2. CASE win[i].id \in Posts
    BY Zenon, <1>1, <2>2 DEF Posts
  <2>3. CASE Lost(win[i], win', WindowBound, view)
    BY Zenon, <1>1, <2>3 DEF Lost
  <2>4. QED
    BY Zenon, <1>1, <2>1, <2>2, <2>3 DEF Owed, Carries
<1>2. CASE ~win[i].pending
  <2>1. CASE \E q \in Elems(win') : Later(q, win[i])
    BY Zenon, <1>2, <2>1 DEF Elems, Later, KeptOn
  <2>2. CASE Lost(win[i], win', WindowBound, view)
    BY Zenon, <1>2, <2>2 DEF Lost, Elems, EvictedFor
  <2>3. QED
    BY Zenon, <1>2, <2>1, <2>2 DEF Owed, Carries
<1>3. QED
  BY Zenon, <1>1, <1>2

(* No splice and no landing page, whatever the order they come in, loses a  *)
(* committed row or shows it in an earlier revision, but for the oldest     *)
(* rows of a full window; a placeholder goes only when its message was      *)
(* posted or placeholders fill the window (merge_message_send_result,       *)
(* merge_thread_reply, bounded_chat_window, client.rs:784-1196).            *)
THEOREM LandingKeepsHolds == Spec => LandingKeeps
<1> DEFINE Kept(i) ==
       IF win[i].pending
       THEN \/ \E j \in DOMAIN win' : win'[j] = win[i]
            \/ \E j \in 1..Len(feed) : feed[j].kind = "post" /\ feed[j].id = win[i].id
            \/ Cardinality(Pending(win')) >= Window - 1
       ELSE KeptOn(win[i]) \/ EvictedFor(win[i])
<1>1. ClientInit => IndexInv /\ ThreadsOk /\ WinInv
  <2>1. ClientInit => WinInv
    BY DEF ClientInit, WinInv
  <2>2. QED
    BY <2>1, InitIndexInv, InitThreadsOk
<1>2. (IndexInv /\ ThreadsOk /\ WinInv) /\ [Next]_vars => (IndexInv /\ ThreadsOk /\ WinInv)'
  BY StepIndexInv, StepThreadsOk, StepWinInv
<1>3. IndexInv /\ ThreadsOk /\ WinInv /\ [Next]_vars => [\A i \in DOMAIN win : Kept(i)]_vars
  <2> SUFFICES ASSUME IndexInv, ThreadsOk, WinInv, Next, NEW i \in DOMAIN win
               PROVE  Kept(i)
    BY Zenon
  <2>1. CASE win' = win
    <3>1. view = None => win = <<>>
      BY Zenon DEF WinInv
    <3>2. win \in Seq(Screen)
      BY <3>1 DEF WinInv, WinFits
    <3>3. win[i].rev >= win[i].rev
      <4>1. \A r \in Screen : r.rev \in Nat
        BY DEF Screen
      <4>2. win[i] \in Screen
        BY ONLY <3>2, i \in DOMAIN win
      <4>3. win[i].rev \in Nat
        BY Zenon, <4>1, <4>2
      <4>4. QED
        BY ONLY <4>3
    <3>4. QED
      BY Zenon, <2>1, <3>3 DEF KeptOn
  <2>2. CASE Keeping(win')
    <3>1. Owed(win[i], win', Posts, WindowBound, view)
      BY Zenon, <2>2 DEF Keeping, Elems
    <3>2. QED
      BY Zenon, <3>1, KeepingIs
  <2>3. QED
    BY Zenon, <2>1, <2>2, StepKeeping
<1>4. QED
  BY <1>1, <1>2, <1>3, PTL DEF Spec, LandingKeeps

------------------------------------------------------------------------------
(* Rows and the operations they show.                                       *)

\* Operation x is z's reaction, an emoji and a party, to message s of the room.
Reacts(x, s, z) == OpOn(x, "react", Room, s) /\ x.emoji = z[1] /\ x.who = z[2]

\* By the first k operations of f, z's reaction to message s was added last.
Holds(f, k, s, z) ==
  \E i \in 1..k : /\ Reacts(f[i], s, z) /\ f[i].added
                  /\ \A j \in 1..k : Reacts(f[j], s, z) => j <= i

\* The first i operations of f hold no edit of message s later than rev.
EditsTo(f, i, s, rev) == \A j \in 1..i : OpOn(f[j], "edit", Room, s) => f[j].rev <= rev

\* What a row shows of message s, but for reactions, is in the first n operations of f.
Reads(f, n, s, r) ==
  /\ PostedAs(f, n, Room, s, r)
  /\ r.rev \in Nat /\ (r.rev = 0 \/ \E i \in 1..n : OpOn(f[i], "edit", Room, s) /\ f[i].rev = r.rev)
  /\ r.deleted =>
       /\ r.body = Empty /\ r.reacts = {}
       /\ \E i \in 1..n : OpOn(f[i], "delete", Room, s) /\ EditsTo(f, i, s, r.rev)
  /\ ~r.deleted =>
       IF r.rev = 0 THEN \E i \in 1..n : OpOn(f[i], "post", Room, s) /\ f[i].body = r.body
       ELSE \E i \in 1..n : OpOn(f[i], "edit", Room, s) /\ f[i].rev = r.rev /\ f[i].body = r.body

\* Set R is the reactions to message s after the first k operations of f, but for those of free and
\* those on which others of the first n go on.
Toggles(f, n, k, s, R, free) ==
  \A z \in Emoji \X Party : \/ z \in free
                            \/ \E i \in 1..n : k < i /\ Reacts(f[i], s, z)
                            \/ z \in R <=> Holds(f, k, s, z)

\* Row r shows every edit and deletion of message s among the first k operations of f, and its
\* reactions once the others of the first n are applied, but for those of free.
Since(f, n, k, s, r, free) ==
  /\ Reads(f, n, s, r)
  /\ EditsTo(f, k, s, r.rev) /\ \A i \in 1..k : OpOn(f[i], "delete", Room, s) => r.deleted
  /\ ~r.deleted => Toggles(f, n, k, s, r.reacts, free)

\* Rows that show the same.
Shows(r, q) ==
  /\ r.id = q.id /\ r.thread = q.thread /\ r.rev = q.rev /\ r.deleted = q.deleted
  /\ r.body = q.body /\ r.reacts = q.reacts

(* A row that shows the same.                                               *)
LEMMA SinceShows ==
  ASSUME NEW f, NEW n, NEW k, NEW s, NEW r, NEW q, NEW free, Since(f, n, k, s, r, free), Shows(r, q)
  PROVE  Since(f, n, k, s, q, free)
<1>1. Reads(f, n, s, q)
  BY DEF Since, Reads, Shows, PostedAs
<1>2. EditsTo(f, k, s, q.rev)
  BY Zenon DEF Since, Shows
<1>3. QED
  BY Zenon, <1>1, <1>2 DEF Since, Shows

\* Operations of f on message s, other than its post, among those after the k-th.
Quiet(f, k, n, s) == \A i \in 1..n : k < i /\ f[i].chan = Room /\ f[i].seq = s => f[i].kind = "post"

(* No reaction in between, no difference.                                   *)
LEMMA HoldsSame ==
  ASSUME NEW f, NEW k \in Nat, NEW n \in Nat, k <= n, NEW s, NEW z,
         \A i \in 1..n : k < i => ~Reacts(f[i], s, z)
  PROVE  Holds(f, k, s, z) <=> Holds(f, n, s, z)
<1>1. (\A i \in 1..k : i \in 1..n) /\ \A i \in 1..n : i \in 1..k \/ k < i
  OBVIOUS
<1>2. \A i \in 1..n : Reacts(f[i], s, z) => i \in 1..k
  BY Zenon, <1>1
<1>3. QED
  BY Zenon, <1>1, <1>2 DEF Holds

(* What a row reads it reads from a longer feed.                            *)
LEMMA ReadsLonger ==
  ASSUME NEW f, NEW g, NEW n \in Nat, NEW m \in Nat, n <= m, \A i \in 1..n : g[i] = f[i], NEW s, NEW r, Reads(f, n, s, r)
  PROVE  Reads(g, m, s, r)
<1>1. (\A i \in 1..n : i \in 1..m) /\ \A i \in 1..n : \A j \in 1..i : j \in 1..n
  OBVIOUS
<1>2. PostedAs(g, m, Room, s, r)
  BY Zenon, <1>1 DEF Reads, PostedAs
<1>3. r.rev \in Nat /\ (r.rev = 0 \/ \E i \in 1..m : OpOn(g[i], "edit", Room, s) /\ g[i].rev = r.rev)
  BY Zenon, <1>1 DEF Reads
<1>4. r.deleted =>
       /\ r.body = Empty /\ r.reacts = {}
       /\ \E i \in 1..m : OpOn(g[i], "delete", Room, s) /\ EditsTo(g, i, s, r.rev)
  BY Zenon, <1>1 DEF Reads, EditsTo
<1>5. ~r.deleted =>
       IF r.rev = 0 THEN \E i \in 1..m : OpOn(g[i], "post", Room, s) /\ g[i].body = r.body
       ELSE \E i \in 1..m : OpOn(g[i], "edit", Room, s) /\ g[i].rev = r.rev /\ g[i].body = r.body
  BY Zenon, <1>1 DEF Reads
<1>6. QED
  BY Zenon, <1>2, <1>3, <1>4, <1>5 DEF Reads

(* What was read at a time is as good at an earlier one, and at a later one *)
(* if nothing but posts came in between.                                    *)
LEMMA ReadThen ==
  ASSUME NEW f, NEW at \in Nat, NEW n \in Nat, NEW k \in Nat, at <= n, k <= n, NEW s, NEW r, NEW free,
         Since(f, at, at, s, r, {}), k <= at \/ Quiet(f, at, k, s)
  PROVE  Since(f, n, k, s, r, free)
<1>1. \A i \in 1..at : i \in 1..n
  OBVIOUS
<1>2. Reads(f, n, s, r)
  <2>1. Reads(f, at, s, r)
    BY Zenon DEF Since
  <2>2. QED
    BY Zenon, <2>1, ReadsLonger
<1>3. ASSUME NEW i \in 1..k, OpOn(f[i], "edit", Room, s) \/ OpOn(f[i], "delete", Room, s)
      PROVE  i \in 1..at
  <2>1. CASE k <= at
    BY <2>1
  <2>2. CASE Quiet(f, at, k, s)
    <3>1. ~(at < i)
      <4>1. f[i].kind # "post" /\ f[i].chan = Room /\ f[i].seq = s
        BY <1>3 DEF OpOn
      <4>2. QED
        BY Zenon, <2>2, <4>1 DEF Quiet
    <3>2. QED
      BY <3>1
  <2>3. QED
    BY <2>1, <2>2
<1>4. EditsTo(f, k, s, r.rev) /\ \A i \in 1..k : OpOn(f[i], "delete", Room, s) => r.deleted
  BY Zenon, <1>3 DEF Since, EditsTo
<1>5. ASSUME ~r.deleted, NEW z \in Emoji \X Party, ~\E i \in 1..n : k < i /\ Reacts(f[i], s, z)
      PROVE  z \in r.reacts <=> Holds(f, k, s, z)
  <2>1. ~\E i \in 1..at : at < i
    OBVIOUS
  <2>2. z \in r.reacts <=> Holds(f, at, s, z)
    BY Zenon, <1>5, <2>1 DEF Since, Toggles
  <2>3. Holds(f, k, s, z) <=> Holds(f, at, s, z)
    <3>1. CASE k <= at
      <4>1. \A i \in 1..at : k < i => ~Reacts(f[i], s, z)
        BY Zenon, <1>1, <1>5
      <4>2. QED
        BY Zenon, <3>1, <4>1, HoldsSame
    <3>2. CASE at < k /\ Quiet(f, at, k, s)
      <4>1. \A i \in 1..k : at < i => ~Reacts(f[i], s, z)
        <5>1. "react" # "post"
          OBVIOUS
        <5>2. QED
          BY Zenon, <3>2, <5>1 DEF Quiet, Reacts, OpOn
      <4>2. at <= k
        BY <3>2
      <4>3. QED
        BY Zenon, <4>1, <4>2, HoldsSame
    <3>3. QED
      BY <3>1, <3>2
  <2>4. QED
    BY Zenon, <2>2, <2>3
<1>6. QED
  BY Zenon, <1>2, <1>4, <1>5 DEF Since, Toggles

(* And as the feed grows, if what was free is free or is reacted to again.  *)
LEMMA SinceLonger ==
  ASSUME NEW f, NEW n, NEW k, NEW s, NEW r, NEW free, Since(f, n, k, s, r, free), n \in Nat, k \in Nat, k <= n,
         NEW g, NEW m \in Nat, n <= m, \A i \in 1..n : g[i] = f[i], NEW more,
         \A z \in free : z \in more \/ \E i \in 1..m : n < i /\ Reacts(g[i], s, z)
  PROVE  Since(g, m, k, s, r, more)
<1>1. (\A i \in 1..n : i \in 1..m) /\ (\A i \in 1..k : i \in 1..n) /\ \A i \in 1..m : n < i => k < i
  OBVIOUS
<1>2. Reads(g, m, s, r)
  <2>1. Reads(f, n, s, r)
    BY Zenon DEF Since
  <2>2. QED
    BY Zenon, <2>1, ReadsLonger
<1>3. EditsTo(g, k, s, r.rev) /\ \A i \in 1..k : OpOn(g[i], "delete", Room, s) => r.deleted
  BY Zenon, <1>1 DEF Since, EditsTo
<1>4. ASSUME ~r.deleted, NEW z \in Emoji \X Party, z \notin more, ~\E i \in 1..m : k < i /\ Reacts(g[i], s, z)
      PROVE  z \in r.reacts <=> Holds(g, k, s, z)
  <2>1. z \notin free
    BY Zenon, <1>1, <1>4
  <2>2. ~\E i \in 1..n : k < i /\ Reacts(f[i], s, z)
    BY Zenon, <1>1, <1>4
  <2>3. z \in r.reacts <=> Holds(f, k, s, z)
    BY Zenon, <1>4, <2>1, <2>2 DEF Since, Toggles
  <2>4. Holds(f, k, s, z) <=> Holds(g, k, s, z)
    BY Zenon, <1>1 DEF Holds
  <2>5. QED
    BY Zenon, <2>3, <2>4
<1>5. QED
  BY Zenon, <1>2, <1>3, <1>4 DEF Since, Toggles

(* And as the feed grows, with the same ones free.                          *)
LEMMA SinceGrown ==
  ASSUME NEW f, NEW n, NEW k, NEW s, NEW r, NEW free, Since(f, n, k, s, r, free), n \in Nat, k \in Nat, k <= n,
         NEW g, NEW m \in Nat, n <= m, \A i \in 1..n : g[i] = f[i]
  PROVE  Since(g, m, k, s, r, free)
<1>1. \A z \in free : z \in free \/ \E i \in 1..m : n < i /\ Reacts(g[i], s, z)
  BY Zenon
<1>2. QED
  BY Zenon, <1>1, SinceLonger

(* The next operation, if it is no reaction to the message.                 *)
LEMMA TogglesOn ==
  ASSUME NEW f, NEW n, NEW k, NEW s, NEW R, NEW free, Toggles(f, n, k, s, R, free), n \in Nat, k \in Nat,
         NEW z \in Emoji \X Party, ~Reacts(f[k + 1], s, z)
  PROVE  \/ z \in free
         \/ \E i \in 1..n : k + 1 < i /\ Reacts(f[i], s, z)
         \/ z \in R <=> Holds(f, k + 1, s, z)
<1> SUFFICES ASSUME z \notin free, ~\E i \in 1..n : k + 1 < i /\ Reacts(f[i], s, z)
             PROVE  z \in R <=> Holds(f, k + 1, s, z)
  OBVIOUS
<1>1. k <= k + 1 /\ k + 1 \in Nat /\ (\A i \in 1..k + 1 : k < i => i = k + 1) /\ (\A i \in 1..n : k < i => k + 1 < i \/ i = k + 1)
  OBVIOUS
<1>2. ~\E i \in 1..n : k < i /\ Reacts(f[i], s, z)
  BY Zenon, <1>1
<1>3. z \in R <=> Holds(f, k, s, z)
  BY Zenon, <1>2 DEF Toggles
<1>4. Holds(f, k, s, z) <=> Holds(f, k + 1, s, z)
  <2>1. \A i \in 1..k + 1 : k < i => ~Reacts(f[i], s, z)
    BY Zenon, <1>1
  <2>2. QED
    BY Zenon, <1>1, <2>1, HoldsSame
<1>5. QED
  BY Zenon, <1>3, <1>4

(* An operation that is not about the message, or is its post.              *)
LEMMA Unmoved ==
  ASSUME NEW f, NEW n \in Nat, NEW k \in Nat, NEW s, NEW r, NEW free, Since(f, n, k, s, r, free),
         f[k + 1].chan = Room /\ f[k + 1].seq = s => f[k + 1].kind = "post"
  PROVE  Since(f, n, k + 1, s, r, free)
<1>1. \A i \in 1..k + 1 : i \in 1..k \/ i = k + 1
  OBVIOUS
<1>2. ~OpOn(f[k + 1], "edit", Room, s) /\ ~OpOn(f[k + 1], "delete", Room, s) /\ ~OpOn(f[k + 1], "react", Room, s)
  BY DEF OpOn
<1>3. EditsTo(f, k + 1, s, r.rev) /\ \A i \in 1..k + 1 : OpOn(f[i], "delete", Room, s) => r.deleted
  BY Zenon, <1>1, <1>2 DEF Since, EditsTo
<1>4. ASSUME ~r.deleted
      PROVE  Toggles(f, n, k + 1, s, r.reacts, free)
  <2>1. Toggles(f, n, k, s, r.reacts, free)
    BY Zenon, <1>4 DEF Since
  <2>2. \A z \in Emoji \X Party : ~Reacts(f[k + 1], s, z)
    BY Zenon, <1>2 DEF Reacts
  <2>3. ASSUME NEW z \in Emoji \X Party
        PROVE  \/ z \in free
               \/ \E i \in 1..n : k + 1 < i /\ Reacts(f[i], s, z)
               \/ z \in r.reacts <=> Holds(f, k + 1, s, z)
    BY Zenon, <2>1, <2>2, TogglesOn
  <2>4. QED
    BY Zenon, <2>3 DEF Toggles
<1>5. QED
  BY Zenon, <1>3, <1>4 DEF Since

\* What an edit, a deletion or a reaction makes of the row of its message.
Moves(r, op, q) ==
  /\ q.id = r.id /\ q.thread = r.thread
  /\ op.kind = "edit" =>
       /\ (q.deleted <=> r.deleted) /\ q.reacts = r.reacts
       /\ IF r.deleted \/ r.rev >= op.rev THEN q.rev = r.rev /\ q.body = r.body ELSE q.rev = op.rev /\ q.body = op.body
  /\ op.kind = "delete" => q.deleted /\ q.body = Empty /\ q.reacts = {} /\ q.rev = r.rev
  /\ op.kind = "react" =>
       /\ (q.deleted <=> r.deleted) /\ q.rev = r.rev /\ q.body = r.body
       /\ r.deleted => q.reacts = r.reacts
       /\ ~r.deleted => \A z \in Emoji \X Party :
            z \in q.reacts <=> IF z = <<op.emoji, op.who>> THEN op.added ELSE z \in r.reacts

(* An edit: dropped when the row shows a later one, or the deletion.        *)
LEMMA EditMoves ==
  ASSUME NEW f \in Seq(Op), NEW n \in Nat, NEW k \in Nat, k < n, n <= Len(f), NEW s, NEW r, NEW q, NEW free,
         Since(f, n, k, s, r, free), Follows(f, k + 1), OpOn(f[k + 1], "edit", Room, s), Moves(r, f[k + 1], q)
  PROVE  Since(f, n, k + 1, s, q, free)
<1> DEFINE op == f[k + 1]
<1>1. /\ k + 1 \in 1..n /\ k + 1 \in 1..k + 1 /\ (k + 1) - 1 = k /\ \A i \in 1..k + 1 : i \in 1..k \/ i = k + 1
      /\ \A i \in 1..n : i \in 1..k \/ k + 1 \in 1..i
  OBVIOUS
<1>2. \A i \in 1..n : f[i] \in Op
  BY Len(f) \in Nat
<1>3. /\ op.kind = "edit" /\ op.chan = Room /\ op.seq = s
      /\ \A i \in 1..n : OpOn(f[i], "edit", Room, s) => f[i].rev \in Nat
  BY <1>2 DEF OpOn, Op
<1>4. op.rev \in Nat /\ op \in Op
  BY Zenon, <1>1, <1>2, <1>3
<1>5. \A i \in 1..k : ~OpOn(f[i], "delete", Room, s)
  BY Zenon, <1>1, <1>3 DEF Follows
<1>6. Reads(f, n, s, r) /\ EditsTo(f, k, s, r.rev) /\ r.rev \in Nat
  BY Zenon DEF Since, Reads
<1>7. ASSUME ~r.deleted
      PROVE  Toggles(f, n, k + 1, s, r.reacts, free)
  <2>1. Toggles(f, n, k, s, r.reacts, free)
    BY Zenon, <1>7 DEF Since
  <2>2. \A z \in Emoji \X Party : ~Reacts(f[k + 1], s, z)
    BY <1>3 DEF Reacts, OpOn
  <2>3. ASSUME NEW z \in Emoji \X Party
        PROVE  \/ z \in free
               \/ \E i \in 1..n : k + 1 < i /\ Reacts(f[i], s, z)
               \/ z \in r.reacts <=> Holds(f, k + 1, s, z)
    BY Zenon, <2>1, <2>2, TogglesOn
  <2>4. QED
    BY Zenon, <2>3 DEF Toggles
<1>8. \A i \in 1..k + 1 : ~OpOn(f[i], "delete", Room, s)
  <2>1. ~OpOn(op, "delete", Room, s)
    BY <1>3 DEF OpOn
  <2>2. QED
    BY Zenon, <1>1, <1>5, <2>1
<1>9. q.id = r.id /\ q.thread = r.thread /\ (q.deleted <=> r.deleted) /\ q.reacts = r.reacts
  BY Zenon, <1>3 DEF Moves
<1> HIDE DEF op
<1>10. CASE r.deleted \/ r.rev >= op.rev
  <2>1. q.rev = r.rev /\ q.body = r.body
    BY Zenon, <1>3, <1>10 DEF Moves, op
  <2>2. op.rev <= r.rev
    <3>1. CASE r.deleted
      <4>1. PICK i \in 1..n : OpOn(f[i], "delete", Room, s) /\ EditsTo(f, i, s, r.rev)
        BY Zenon, <1>6, <3>1 DEF Reads
      <4>2. k + 1 \in 1..i
        BY Zenon, <1>1, <1>5, <4>1
      <4>3. QED
        BY Zenon, <4>1, <4>2 DEF EditsTo, op
    <3>2. CASE r.rev >= op.rev
      BY <1>4, <1>6, <3>2
    <3>3. QED
      BY <1>10, <3>1, <3>2
  <2>3. EditsTo(f, k + 1, s, r.rev)
    BY Zenon, <1>1, <1>6, <2>2 DEF EditsTo, op
  <2>4. Reads(f, n, s, q)
    BY Zenon, <1>6, <1>9, <2>1 DEF Reads, PostedAs
  <2>5. QED
    BY Zenon, <1>7, <1>8, <1>9, <2>1, <2>3, <2>4 DEF Since
<1>11. CASE ~r.deleted /\ ~(r.rev >= op.rev)
  <2>1. q.rev = op.rev /\ q.body = op.body /\ ~q.deleted
    BY Zenon, <1>3, <1>9, <1>11 DEF Moves, op
  <2>2. op.rev # 0 /\ r.rev < op.rev
    BY <1>4, <1>6, <1>11
  <2>3. EditsTo(f, k + 1, s, op.rev)
    <3>1. ASSUME NEW j \in 1..k, OpOn(f[j], "edit", Room, s)
          PROVE  f[j].rev <= op.rev
      <4>1. f[j].rev <= r.rev
        BY Zenon, <1>6, <3>1 DEF EditsTo
      <4>2. f[j].rev \in Nat
        BY <1>1, <1>3, <3>1
      <4>3. \A a, b, c \in Nat : a <= b /\ b < c => a <= c
        OBVIOUS
      <4>4. QED
        BY Zenon, <1>4, <1>6, <2>2, <4>1, <4>2, <4>3
    <3>2. op.rev <= op.rev
      BY <1>4
    <3>3. QED
      BY Zenon, <1>1, <3>1, <3>2 DEF EditsTo, op
  <2>4. Reads(f, n, s, q)
    <3>1. PostedAs(f, n, Room, s, q)
      BY Zenon, <1>6, <1>9 DEF Reads, PostedAs
    <3>2. \E i \in 1..n : OpOn(f[i], "edit", Room, s) /\ f[i].rev = q.rev /\ f[i].body = q.body
      BY Zenon, <1>1, <2>1 DEF op
    <3>3. q.rev \in Nat /\ q.rev # 0
      BY Zenon, <1>4, <2>1, <2>2
    <3>4. QED
      BY Zenon, <2>1, <3>1, <3>2, <3>3 DEF Reads
  <2>5. QED
    BY Zenon, <1>7, <1>8, <1>9, <1>11, <2>1, <2>3, <2>4 DEF Since
<1>12. QED
  BY Zenon, <1>10, <1>11

(* A deletion.                                                              *)
LEMMA DeleteMoves ==
  ASSUME NEW f, NEW n \in Nat, NEW k \in Nat, k < n, NEW s, NEW r, NEW q, NEW free,
         Since(f, n, k, s, r, free), OpOn(f[k + 1], "delete", Room, s), Moves(r, f[k + 1], q)
  PROVE  Since(f, n, k + 1, s, q, free)
<1>1. k + 1 \in 1..n /\ \A i \in 1..k + 1 : i \in 1..k \/ i = k + 1
  OBVIOUS
<1>2. f[k + 1].kind = "delete" /\ ~OpOn(f[k + 1], "edit", Room, s)
  BY DEF OpOn
<1>3. q.id = r.id /\ q.thread = r.thread /\ q.deleted /\ q.body = Empty /\ q.reacts = {} /\ q.rev = r.rev
  BY Zenon, <1>2 DEF Moves
<1>4. Reads(f, n, s, r) /\ EditsTo(f, k, s, r.rev)
  BY Zenon DEF Since
<1>5. EditsTo(f, k + 1, s, q.rev)
  BY Zenon, <1>1, <1>2, <1>3, <1>4 DEF EditsTo
<1>6. Reads(f, n, s, q)
  BY Zenon, <1>1, <1>3, <1>4, <1>5 DEF Reads, PostedAs
<1>7. QED
  BY Zenon, <1>3, <1>5, <1>6 DEF Since

(* A reaction.                                                              *)
LEMMA ReactMoves ==
  ASSUME NEW f, NEW n \in Nat, NEW k \in Nat, k < n, NEW s, NEW r, NEW q, NEW free,
         Since(f, n, k, s, r, free), OpOn(f[k + 1], "react", Room, s), Moves(r, f[k + 1], q)
  PROVE  Since(f, n, k + 1, s, q, free)
<1> DEFINE op == f[k + 1]
<1>1. /\ k + 1 \in 1..n /\ k + 1 \in 1..k + 1 /\ k + 1 \in Nat
      /\ \A i \in 1..k + 1 : (i \in 1..k \/ i = k + 1) /\ i <= k + 1
      /\ \A i \in 1..k : ~(k + 1 <= i)
  OBVIOUS
<1>2. op.kind = "react" /\ ~OpOn(op, "edit", Room, s) /\ ~OpOn(op, "delete", Room, s)
  BY DEF OpOn
<1>3. /\ q.id = r.id /\ q.thread = r.thread /\ (q.deleted <=> r.deleted) /\ q.rev = r.rev /\ q.body = r.body
      /\ r.deleted => q.reacts = r.reacts
      /\ ~r.deleted => \A z \in Emoji \X Party :
            z \in q.reacts <=> IF z = <<op.emoji, op.who>> THEN op.added ELSE z \in r.reacts
  BY Zenon, <1>2 DEF Moves
<1>4. Reads(f, n, s, r) /\ EditsTo(f, k, s, r.rev) /\ \A i \in 1..k : OpOn(f[i], "delete", Room, s) => r.deleted
  BY Zenon DEF Since
<1>5. EditsTo(f, k + 1, s, q.rev) /\ \A i \in 1..k + 1 : OpOn(f[i], "delete", Room, s) => q.deleted
  BY Zenon, <1>1, <1>2, <1>3, <1>4 DEF EditsTo
<1>6. Reads(f, n, s, q)
  BY Zenon, <1>3, <1>4 DEF Reads, PostedAs
<1>7. ASSUME ~r.deleted, NEW z \in Emoji \X Party
      PROVE  \/ z \in free
             \/ \E i \in 1..n : k + 1 < i /\ Reacts(f[i], s, z)
             \/ z \in q.reacts <=> Holds(f, k + 1, s, z)
  <2>1. z = <<z[1], z[2]>>
    OBVIOUS
  <2>2. CASE z = <<op.emoji, op.who>>
    <3>1. Reacts(op, s, z)
      BY <2>2 DEF Reacts
    <3>2. z \in q.reacts <=> op.added
      BY Zenon, <1>3, <1>7, <2>2
    <3>3. Holds(f, k + 1, s, z) => op.added
      <4>1. ASSUME NEW i \in 1..k + 1, f[i].added, \A j \in 1..k + 1 : Reacts(f[j], s, z) => j <= i
            PROVE  op.added
        <5>1. k + 1 <= i
          BY Zenon, <1>1, <3>1, <4>1
        <5>2. i = k + 1
          BY Zenon, <1>1, <5>1
        <5>3. QED
          BY Zenon, <4>1, <5>2
      <4>2. QED
        BY Zenon, <4>1 DEF Holds
    <3>4. op.added => Holds(f, k + 1, s, z)
      BY Zenon, <1>1, <3>1 DEF Holds
    <3>5. QED
      BY Zenon, <3>2, <3>3, <3>4
  <2>3. CASE z # <<op.emoji, op.who>>
    <3>1. ~Reacts(op, s, z)
      BY <2>1, <2>3 DEF Reacts
    <3>2. z \in q.reacts <=> z \in r.reacts
      BY Zenon, <1>3, <1>7, <2>3
    <3>3. Toggles(f, n, k, s, r.reacts, free)
      BY Zenon, <1>7 DEF Since
    <3>4. \/ z \in free
          \/ \E i \in 1..n : k + 1 < i /\ Reacts(f[i], s, z)
          \/ z \in r.reacts <=> Holds(f, k + 1, s, z)
      BY Zenon, <3>1, <3>3, TogglesOn
    <3>5. QED
      BY Zenon, <3>2, <3>4
  <2>4. QED
    BY <2>2, <2>3
<1>8. QED
  BY Zenon, <1>3, <1>5, <1>6, <1>7 DEF Since, Toggles

(* The row of a message follows an operation on it.                         *)
LEMMA Moved ==
  ASSUME NEW f \in Seq(Op), NEW n \in Nat, NEW k \in Nat, k < n, n <= Len(f), NEW s, NEW r, NEW q, NEW free,
         Since(f, n, k, s, r, free), Follows(f, k + 1), f[k + 1].chan = Room, f[k + 1].seq = s,
         f[k + 1].kind \in {"edit", "delete", "react"}, Moves(r, f[k + 1], q)
  PROVE  Since(f, n, k + 1, s, q, free)
<1>1. OpOn(f[k + 1], "edit", Room, s) \/ OpOn(f[k + 1], "delete", Room, s) \/ OpOn(f[k + 1], "react", Room, s)
  BY Zenon DEF OpOn
<1>2. QED
  BY Zenon, <1>1, EditMoves, DeleteMoves, ReactMoves

(* A row as it is posted.                                                   *)
LEMMA PostMoves ==
  ASSUME NEW f \in Seq(Op), NEW n \in Nat, NEW k \in Nat, k < n, n <= Len(f), NEW s, NEW q, NEW free,
         Follows(f, k + 1), OpOn(f[k + 1], "post", Room, s), q.id = f[k + 1].id, q.thread = f[k + 1].thread,
         q.rev = 0, ~q.deleted, q.body = f[k + 1].body, q.reacts = {}
  PROVE  Since(f, n, k + 1, s, q, free)
<1>1. k + 1 \in 1..n /\ k + 1 \in 1..k + 1 /\ k < Len(f) /\ \A i \in 1..k + 1 : i \in 1..k \/ i = k + 1
  BY Len(f) \in Nat
<1>2. \A i \in 1..k : f[i].chan = Room => f[i].seq # s
  <2>1. /\ f \in Seq(Op) /\ k \in Nat /\ k < Len(f) /\ Follows(f, k + 1) /\ OpOn(f[k + 1], "post", Room, s)
        /\ q.rev = 0 /\ ~q.deleted
    BY Zenon, <1>1
  <2>2. QED
    BY ONLY Zenon, <2>1, HeadPosted
<1>3. ASSUME NEW i \in 1..k + 1
      PROVE  ~OpOn(f[i], "edit", Room, s) /\ ~OpOn(f[i], "delete", Room, s) /\ ~OpOn(f[i], "react", Room, s)
  <2>1. CASE i = k + 1
    BY <2>1 DEF OpOn
  <2>2. CASE i \in 1..k
    BY Zenon, <1>2, <2>2 DEF OpOn
  <2>3. QED
    BY Zenon, <1>1, <2>1, <2>2
<1>4. Reads(f, n, s, q)
  <2>1. 0 \in Nat
    OBVIOUS
  <2>2. QED
    BY Zenon, <1>1, <2>1 DEF Reads, PostedAs
<1>5. \A z : z \notin q.reacts /\ ~Holds(f, k + 1, s, z)
  BY Zenon, <1>3 DEF Holds, Reacts
<1>6. QED
  BY Zenon, <1>3, <1>4, <1>5 DEF Since, EditsTo, Toggles

(* Rows that show all of the first n operations show the same.              *)
LEMMA SinceNoLater ==
  ASSUME NEW f, NEW n, NEW s, NEW r, NEW q, NEW free, Since(f, n, n, s, r, free), Since(f, n, n, s, q, free)
  PROVE  r.rev \in Nat /\ q.rev \in Nat /\ r.rev <= q.rev /\ (r.deleted => q.deleted)
<1>1. Reads(f, n, s, r) /\ Reads(f, n, s, q) /\ EditsTo(f, n, s, q.rev)
  BY Zenon DEF Since
<1>2. r.rev \in Nat /\ q.rev \in Nat
  BY Zenon, <1>1 DEF Reads
<1>3. r.rev <= q.rev
  <2>1. CASE r.rev = 0
    BY <1>2, <2>1
  <2>2. CASE r.rev # 0
    BY Zenon, <1>1, <2>2 DEF Reads, EditsTo
  <2>3. QED
    BY <2>1, <2>2
<1>4. r.deleted => q.deleted
  BY Zenon, <1>1 DEF Reads, Since
<1>5. QED
  BY Zenon, <1>2, <1>3, <1>4

(* So rows that show all of the operations agree.                           *)
LEMMA SinceSame ==
  ASSUME NEW f, NEW n, NEW s, NEW r, NEW q, Since(f, n, n, s, r, {}), Since(f, n, n, s, q, {}),
         f \in Seq(Op), n \in Nat, n <= Len(f), \A j \in 1..n : Follows(f, j)
  PROVE  /\ r.id = q.id /\ r.thread = q.thread /\ r.rev = q.rev /\ (r.deleted <=> q.deleted) /\ r.body = q.body
         /\ \A z \in Emoji \X Party : z \in r.reacts <=> z \in q.reacts
<1>1. Reads(f, n, s, r) /\ Reads(f, n, s, q)
  BY Zenon DEF Since
<1>2. r.rev = q.rev /\ r.rev \in Nat /\ (r.deleted <=> q.deleted)
  <2>1. r.rev \in Nat /\ q.rev \in Nat /\ r.rev <= q.rev /\ q.rev <= r.rev /\ (r.deleted <=> q.deleted)
    BY Zenon, SinceNoLater
  <2>2. QED
    BY <2>1
<1>3. ASSUME NEW i \in 1..n, NEW j \in 1..n
      PROVE  i < j \/ j < i \/ i = j
  OBVIOUS
<1>4. ASSUME NEW i \in 1..n, NEW j \in 1..n, i < j
      PROVE  /\ ~(OpOn(f[i], "post", Room, s) /\ OpOn(f[j], "post", Room, s))
             /\ OpOn(f[i], "edit", Room, s) /\ OpOn(f[j], "edit", Room, s) => f[i].rev # f[j].rev
  <2>1. i \in 1..j - 1 /\ f[i] \in Op /\ f[j] \in Op /\ Follows(f, j)
    BY <1>4, Len(f) \in Nat
  <2>2. ASSUME OpOn(f[i], "post", Room, s), OpOn(f[j], "post", Room, s)
        PROVE  FALSE
    <3>1. f[i].seq < f[j].seq /\ f[i].seq = s /\ f[j].seq = s
      BY Zenon, <2>1, <2>2 DEF Follows, OpOn
    <3>2. f[j].seq \in Nat
      <4>1. \A x \in Op : x.seq \in Nat
        BY DEF Op, Seqs
      <4>2. QED
        BY Zenon, <2>1, <4>1
    <3>3. QED
      BY ONLY <3>1, <3>2
  <2>3. ASSUME OpOn(f[i], "edit", Room, s), OpOn(f[j], "edit", Room, s)
        PROVE  f[i].rev # f[j].rev
    <3>1. f[j].kind = "edit" /\ f[j].chan = Room /\ f[j].seq = s
      BY Zenon, <2>3 DEF OpOn
    <3>2. f[i].rev < f[j].rev
      BY Zenon, <2>1, <2>3, <3>1 DEF Follows
    <3>3. f[j].rev \in Nat
      <4>1. \A x \in Op : x.kind = "edit" => x.rev \in Nat
        BY DEF Op
      <4>2. QED
        BY Zenon, <2>1, <3>1, <4>1
    <3>4. f[i].rev = f[j].rev => FALSE
      BY ONLY <3>2, <3>3
    <3>5. QED
      BY <3>4
  <2>4. QED
    BY Zenon, <2>2, <2>3
<1>5. \A i, j \in 1..n : OpOn(f[i], "post", Room, s) /\ OpOn(f[j], "post", Room, s) => i = j
  BY Zenon, <1>3, <1>4
<1>6. \A i, j \in 1..n : OpOn(f[i], "edit", Room, s) /\ OpOn(f[j], "edit", Room, s) /\ f[i].rev = f[j].rev => i = j
  BY Zenon, <1>3, <1>4
<1>7. r.id = q.id /\ r.thread = q.thread
  BY Zenon, <1>1, <1>5 DEF Reads, PostedAs
<1>8. r.body = q.body
  <2>1. CASE r.deleted
    BY Zenon, <1>1, <1>2, <2>1 DEF Reads
  <2>2. CASE ~r.deleted /\ r.rev = 0
    <3>1. PICK i \in 1..n : OpOn(f[i], "post", Room, s) /\ f[i].body = r.body
      BY Zenon, <1>1, <2>2 DEF Reads
    <3>2. PICK j \in 1..n : OpOn(f[j], "post", Room, s) /\ f[j].body = q.body
      BY Zenon, <1>1, <1>2, <2>2 DEF Reads
    <3>3. QED
      BY Zenon, <1>5, <3>1, <3>2
  <2>3. CASE ~r.deleted /\ r.rev # 0
    <3>1. PICK i \in 1..n : OpOn(f[i], "edit", Room, s) /\ f[i].rev = r.rev /\ f[i].body = r.body
      BY Zenon, <1>1, <2>3 DEF Reads
    <3>2. PICK j \in 1..n : OpOn(f[j], "edit", Room, s) /\ f[j].rev = q.rev /\ f[j].body = q.body
      BY Zenon, <1>1, <1>2, <2>3 DEF Reads
    <3>3. QED
      BY Zenon, <1>2, <1>6, <3>1, <3>2
  <2>4. QED
    BY Zenon, <2>1, <2>2, <2>3
<1>9. ASSUME NEW z \in Emoji \X Party
      PROVE  z \in r.reacts <=> z \in q.reacts
  <2>1. CASE r.deleted
    BY Zenon, <1>1, <1>2, <2>1 DEF Reads
  <2>2. CASE ~r.deleted
    <3>1. Toggles(f, n, n, s, r.reacts, {}) /\ Toggles(f, n, n, s, q.reacts, {})
      BY Zenon, <1>2, <2>2 DEF Since
    <3>2. ~\E i \in 1..n : n < i
      OBVIOUS
    <3>3. QED
      BY Zenon, <3>1, <3>2 DEF Toggles
  <2>3. QED
    BY Zenon, <2>1, <2>2
<1>10. QED
  BY Zenon, <1>2, <1>7, <1>8, <1>9

------------------------------------------------------------------------------
(* Rows of the index, and rows on screen, move as they should.              *)

(* A head of the index after an operation on it.                            *)
LEMMA RowMoves ==
  ASSUME NEW r \in Row, NEW op \in Op
  PROVE  /\ op.kind = "edit" /\ ~r.deleted /\ r.rev < op.rev => Edited(r, op) \in Row /\ Moves(r, op, Edited(r, op))
         /\ op.kind = "delete" => Tombstone(r) \in Row /\ Moves(r, op, Tombstone(r))
         /\ op.kind = "react" /\ ~r.deleted => Reacted(r, op) \in Row /\ Moves(r, op, Reacted(r, op))
<1>1. ASSUME op.kind = "edit", ~r.deleted, r.rev < op.rev
      PROVE  Edited(r, op) \in Row /\ Moves(r, op, Edited(r, op))
  <2>1. op.body \in Body /\ op.rev \in Nat
    BY <1>1 DEF Op
  <2>2. /\ Edited(r, op) \in Row /\ Edited(r, op).id = r.id /\ Edited(r, op).thread = r.thread
        /\ Edited(r, op).deleted = r.deleted /\ Edited(r, op).reacts = r.reacts
        /\ Edited(r, op).rev = op.rev /\ Edited(r, op).body = op.body
    BY <2>1 DEF Edited, Row
  <2>3. ~(r.rev >= op.rev)
    BY <1>1, <2>1 DEF Row
  <2>4. "edit" # "delete" /\ "edit" # "react"
    OBVIOUS
  <2>5. QED
    BY Zenon, <1>1, <2>2, <2>3, <2>4 DEF Moves
<1>2. ASSUME op.kind = "delete"
      PROVE  Tombstone(r) \in Row /\ Moves(r, op, Tombstone(r))
  BY <1>2 DEF Tombstone, Row, Moves
<1>3. ASSUME op.kind = "react", ~r.deleted
      PROVE  Reacted(r, op) \in Row /\ Moves(r, op, Reacted(r, op))
  <2> DEFINE q == Reacted(r, op)
  <2>1. op.emoji \in Emoji /\ op.who \in Party /\ op.added \in BOOLEAN
    BY <1>3 DEF Op
  <2>2. /\ q \in Row /\ q.id = r.id /\ q.thread = r.thread /\ q.deleted = r.deleted /\ q.rev = r.rev /\ q.body = r.body
        /\ q.reacts = IF op.added THEN r.reacts \cup {<<op.emoji, op.who>>} ELSE r.reacts \ {<<op.emoji, op.who>>}
    BY <2>1 DEF Reacted, Row
  <2> HIDE DEF q
  <2>3. \A z : z \in q.reacts <=> IF z = <<op.emoji, op.who>> THEN op.added ELSE z \in r.reacts
    BY <2>2
  <2>4. "react" # "delete" /\ "react" # "edit"
    OBVIOUS
  <2>5. Moves(r, op, q)
    BY Zenon, <1>3, <2>2, <2>3, <2>4 DEF Moves
  <2>6. QED
    BY Zenon, <2>2, <2>5 DEF q
<1>4. QED
  BY Zenon, <1>1, <1>2, <1>3

(* A row on screen after a delta on it.                                     *)
LEMMA ScreenMoves ==
  ASSUME NEW r \in Screen, NEW op \in Op, op.kind \in {"edit", "delete", "react"}
  PROVE  Moves(r, op, Changed(r, op))
<1>1. CASE op.kind = "edit"
  <2>1. op.body \in Body /\ op.rev \in Nat /\ Changed(r, op) = EditedOn(r, op)
    BY <1>1 DEF Op, Changed
  <2>2. Moves(r, op, EditedOn(r, op))
    BY <1>1, <2>1 DEF EditedOn, Screen, Moves
  <2>3. QED
    BY Zenon, <2>1, <2>2
<1>2. CASE op.kind = "delete"
  <2>1. Changed(r, op) = TombstoneOn(r)
    BY <1>2 DEF Changed
  <2>2. Moves(r, op, TombstoneOn(r))
    BY <1>2 DEF TombstoneOn, Screen, Moves
  <2>3. QED
    BY Zenon, <2>1, <2>2
<1>3. CASE op.kind = "react"
  <2> DEFINE q == ReactedOn(r, op.emoji, op.who, op.added)
  <2>1. Changed(r, op) = q
    BY <1>3 DEF Changed
  <2>2. /\ q.id = r.id /\ q.thread = r.thread /\ q.deleted = r.deleted /\ q.rev = r.rev /\ q.body = r.body
        /\ q.reacts = IF r.deleted THEN r.reacts
                      ELSE IF op.added THEN r.reacts \cup {<<op.emoji, op.who>>} ELSE r.reacts \ {<<op.emoji, op.who>>}
    BY DEF ReactedOn, Screen
  <2> HIDE DEF q
  <2>3. ~r.deleted => \A z : z \in q.reacts <=> IF z = <<op.emoji, op.who>> THEN op.added ELSE z \in r.reacts
    BY <2>2
  <2>4. r.deleted => q.reacts = r.reacts
    BY <2>2
  <2>5. "react" # "delete" /\ "react" # "edit"
    OBVIOUS
  <2>6. QED
    BY Zenon, <1>3, <2>1, <2>2, <2>3, <2>4, <2>5 DEF Moves
<1>4. QED
  BY <1>1, <1>2, <1>3

(* The heads of a channel after an operation on one of them.                *)
LEMMA RowsMoved ==
  ASSUME NEW rows \in Rows, NEW op \in Op, op.kind \in {"edit", "delete", "react"}, NEW s, s = op.seq,
         NEW last, last = RowsAfter(rows, op),
         rows[s] # None /\ op.kind = "edit" => ~rows[s].deleted /\ rows[s].rev < op.rev,
         rows[s] # None /\ op.kind = "react" => ~rows[s].deleted
  PROVE  /\ last \in Rows /\ \A x \in Seqs : x # s => last[x] = rows[x]
         /\ IF rows[s] = None THEN last[s] = None ELSE last[s] # None /\ Moves(rows[s], op, last[s])
<1>1. s \in Seqs /\ None \notin Row
  BY ChatAssumption DEF Op
<1>2. CASE rows[s] = None
  <2>1. last = rows
    BY <1>2, RowsAfterIs
  <2>2. QED
    BY Zenon, <1>2, <2>1
<1>3. CASE rows[s] # None
  <2>1. rows[s] \in Row
    BY Zenon, <1>1, <1>3 DEF Rows
  <2>2. PICK q : last = [rows EXCEPT ![s] = q] /\ q \in Row /\ Moves(rows[s], op, q)
    <3>1. CASE op.kind = "edit"
      <4>1. last = [rows EXCEPT ![s] = Edited(rows[s], op)]
        BY <1>3, <3>1, RowsAfterIs
      <4>2. QED
        BY Zenon, <1>3, <2>1, <3>1, <4>1, RowMoves
    <3>2. CASE op.kind = "delete"
      <4>1. last = [rows EXCEPT ![s] = Tombstone(rows[s])]
        BY <1>3, <3>2, RowsAfterIs
      <4>2. QED
        BY Zenon, <2>1, <3>2, <4>1, RowMoves
    <3>3. CASE op.kind = "react"
      <4>1. last = [rows EXCEPT ![s] = Reacted(rows[s], op)]
        BY <1>3, <3>3, RowsAfterIs
      <4>2. QED
        BY Zenon, <1>3, <2>1, <3>3, <4>1, RowMoves
    <3>4. QED
      BY <3>1, <3>2, <3>3
  <2>3. last \in Rows /\ last[s] = q /\ \A x \in Seqs : x # s => last[x] = rows[x]
    BY <1>1, <2>2 DEF Rows
  <2>4. q # None
    BY Zenon, <1>1, <2>2
  <2>5. QED
    BY Zenon, <1>3, <2>2, <2>3, <2>4
<1>4. QED
  BY <1>2, <1>3

------------------------------------------------------------------------------
(* The heads of the room are those of the operations folded.                *)

\* Nobody reacts to a message that was deleted.
NoLate(f, j) == f[j].kind = "react" => \A i \in 1..j - 1 : ~OpOn(f[i], "delete", f[j].chan, f[j].seq)

Exact(f, n, rows) ==
  /\ rows \in Rows
  /\ \A s \in Seqs : IF rows[s] = None THEN \A i \in 1..n : ~OpOn(f[i], "post", Room, s)
                     ELSE Since(f, n, n, s, rows[s], {})

(* One operation more, which is not about the message.                      *)
LEMMA StillSince ==
  ASSUME NEW f, NEW k \in Nat, NEW s, NEW r, Since(f, k, k, s, r, {})
  PROVE  /\ Since(f, k + 1, k, s, r, {})
         /\ (f[k + 1].chan = Room /\ f[k + 1].seq = s => f[k + 1].kind = "post") => Since(f, k + 1, k + 1, s, r, {})
<1>1. PICK g, n : g = f /\ n = k + 1
  OBVIOUS
<1>2. n \in Nat /\ k <= k /\ k <= n /\ (\A i \in 1..k : g[i] = f[i])
  BY <1>1
<1>3. Since(g, n, k, s, r, {})
  BY Zenon, <1>2, SinceGrown
<1>4. QED
  BY Zenon, <1>1, <1>2, <1>3, Unmoved

(* The next operation is a post of the room.                                *)
LEMMA ExactPost ==
  ASSUME NEW f \in Seq(Op), NEW k \in Nat, k < Len(f), NEW rows, Exact(f, k, rows),
         Follows(f, k + 1), f[k + 1].chan = Room, f[k + 1].kind = "post"
  PROVE  Exact(f, k + 1, RowsAfter(rows, f[k + 1]))
<1>1. PICK op : op = f[k + 1]
  OBVIOUS
<1>2. PICK last : last = RowsAfter(rows, op)
  OBVIOUS
<1>3. /\ k + 1 \in 1..Len(f) /\ k + 1 <= Len(f) /\ k < k + 1 /\ k + 1 \in Nat /\ k + 1 \in 1..k + 1
      /\ \A i \in 1..k + 1 : i \in 1..k \/ i = k + 1
  BY Len(f) \in Nat
<1>4. op \in Op /\ op.kind = "post" /\ op.chan = Room
  BY <1>1, <1>3
<1>5. op.seq \in Seqs /\ op.thread < op.seq /\ rows \in Rows
  <2>1. op.seq \in Seqs
    BY <1>4 DEF Op
  <2>2. QED
    BY Zenon, <1>1, <1>4, <2>1 DEF Follows, Exact
<1>6. PICK s, t : s = op.seq /\ t = op.thread
  OBVIOUS
<1>7. /\ last \in Rows /\ last[s] = Posted(op) /\ Posted(op) \in Row
      /\ t \in Seqs /\ rows[t] # None => RepliedTo(rows[t], last[t], s)
      /\ \A x \in Seqs : x = s \/ (x = t /\ rows[t] # None) \/ last[x] = rows[x]
  BY <1>2, <1>4, <1>5, <1>6, RowsPosted
<1>8. OpOn(f[k + 1], "post", Room, s)
  BY Zenon, <1>1, <1>4, <1>6 DEF OpOn
<1>9. last[s] # None /\ Since(f, k + 1, k + 1, s, last[s], {})
  <2>1. last[s] # None
    BY Zenon, <1>7, ChatAssumption
  <2>2. /\ last[s].id = op.id /\ last[s].thread = op.thread /\ last[s].rev = 0 /\ ~last[s].deleted
        /\ last[s].body = op.body /\ last[s].reacts = {}
    BY <1>7 DEF Posted
  <2>3. QED
    BY Zenon, <1>1, <1>3, <1>8, <2>1, <2>2, PostMoves
<1>10. ASSUME NEW x \in Seqs, x # s
       PROVE  IF last[x] = None THEN \A i \in 1..k + 1 : ~OpOn(f[i], "post", Room, x)
              ELSE Since(f, k + 1, k + 1, x, last[x], {})
  <2>1. CASE rows[x] = None
    <3>1. last[x] = None
      BY Zenon, <1>7, <1>10, <2>1
    <3>2. ~OpOn(f[k + 1], "post", Room, x)
      BY Zenon, <1>8, <1>10 DEF OpOn
    <3>3. \A i \in 1..k : ~OpOn(f[i], "post", Room, x)
      BY Zenon, <2>1 DEF Exact
    <3>4. QED
      BY Zenon, <1>3, <3>1, <3>2, <3>3
  <2>2. CASE rows[x] # None
    <3>1. Since(f, k, k, x, rows[x], {})
      BY Zenon, <2>2 DEF Exact
    <3>2. Since(f, k + 1, k + 1, x, rows[x], {})
      BY Zenon, <1>1, <1>4, <3>1, StillSince
    <3>3. last[x] # None /\ Shows(rows[x], last[x])
      <4>1. last[x] = rows[x] \/ RepliedTo(rows[x], last[x], s)
        BY Zenon, <1>7, <1>10
      <4>2. RepliedTo(rows[x], last[x], s) => last[x] # None /\ Shows(rows[x], last[x])
        BY Zenon DEF RepliedTo, Shows
      <4>3. Shows(rows[x], rows[x])
        BY Zenon DEF Shows
      <4>4. QED
        BY Zenon, <2>2, <4>1, <4>2, <4>3
    <3>4. QED
      BY Zenon, <3>2, <3>3, SinceShows
  <2>3. QED
    BY <2>1, <2>2
<1>11. QED
  BY Zenon, <1>1, <1>2, <1>7, <1>9, <1>10 DEF Exact

(* The next operation changes a message of the room.                        *)
LEMMA ExactChange ==
  ASSUME NEW f \in Seq(Op), NEW k \in Nat, k < Len(f), NEW rows, Exact(f, k, rows), Follows(f, k + 1), NoLate(f, k + 1),
         f[k + 1].chan = Room, f[k + 1].kind \in {"edit", "delete", "react"}
  PROVE  Exact(f, k + 1, RowsAfter(rows, f[k + 1]))
<1>1. PICK op, s : op = f[k + 1] /\ s = op.seq
  OBVIOUS
<1>2. PICK last : last = RowsAfter(rows, op)
  OBVIOUS
<1>3. /\ k + 1 \in 1..Len(f) /\ k + 1 <= Len(f) /\ k < k + 1 /\ k + 1 \in Nat /\ k + 1 \in 1..k + 1 /\ (k + 1) - 1 = k
      /\ \A i \in 1..k + 1 : i \in 1..k \/ i = k + 1
  BY Len(f) \in Nat
<1>4. op \in Op /\ op.kind \in {"edit", "delete", "react"} /\ op.chan = Room
  BY <1>1, <1>3
<1>5. s \in Seqs /\ rows \in Rows
  <2>1. op.seq \in Seqs
    BY <1>4 DEF Op
  <2>2. QED
    BY Zenon, <1>1, <2>1 DEF Exact
<1>6. ASSUME rows[s] # None
      PROVE  /\ Since(f, k, k, s, rows[s], {}) /\ Reads(f, k, s, rows[s])
             /\ op.kind = "edit" => ~rows[s].deleted /\ rows[s].rev < op.rev
             /\ op.kind = "react" => ~rows[s].deleted
  <2>1. Since(f, k, k, s, rows[s], {}) /\ Reads(f, k, s, rows[s])
    BY Zenon, <1>5, <1>6 DEF Exact, Since
  <2>2. ASSUME op.kind = "edit"
        PROVE  ~rows[s].deleted /\ rows[s].rev < op.rev
    <3>1. /\ op.rev > 0
          /\ \A i \in 1..k : ~OpOn(f[i], "delete", Room, s)
          /\ \A i \in 1..k : OpOn(f[i], "edit", Room, s) => f[i].rev < op.rev
      BY Zenon, <1>1, <1>3, <1>4, <2>2 DEF Follows
    <3>2. ~rows[s].deleted
      BY Zenon, <2>1, <3>1 DEF Reads
    <3>3. CASE rows[s].rev = 0
      <4>1. op.rev \in Nat
        BY <1>4, <2>2 DEF Op
      <4>2. rows[s].rev < op.rev
        BY ONLY <3>1, <3>3, <4>1
      <4>3. QED
        BY <3>2, <4>2
    <3>4. CASE rows[s].rev # 0
      BY Zenon, <2>1, <3>1, <3>2, <3>4 DEF Reads
    <3>5. QED
      BY <3>3, <3>4
  <2>3. ASSUME op.kind = "react"
        PROVE  ~rows[s].deleted
    <3>1. \A i \in 1..k : ~OpOn(f[i], "delete", Room, s)
      BY Zenon, <1>1, <1>3, <1>4, <2>3 DEF NoLate
    <3>2. QED
      BY Zenon, <2>1, <3>1 DEF Reads
  <2>4. QED
    BY Zenon, <2>1, <2>2, <2>3
<1>7. /\ last \in Rows /\ \A x \in Seqs : x # s => last[x] = rows[x]
      /\ IF rows[s] = None THEN last[s] = None ELSE last[s] # None /\ Moves(rows[s], op, last[s])
  BY <1>1, <1>2, <1>4, <1>5, <1>6, RowsMoved
<1>8. \A x : ~OpOn(f[k + 1], "post", Room, x)
  BY <1>1, <1>4 DEF OpOn
<1>9. ASSUME NEW x \in Seqs, rows[x] = None
      PROVE  last[x] = None /\ \A i \in 1..k + 1 : ~OpOn(f[i], "post", Room, x)
  <2>1. last[x] = None
    BY Zenon, <1>7, <1>9
  <2>2. \A i \in 1..k : ~OpOn(f[i], "post", Room, x)
    BY Zenon, <1>9 DEF Exact
  <2>3. QED
    BY Zenon, <1>3, <1>8, <2>1, <2>2
<1>10. ASSUME NEW x \in Seqs, rows[x] # None, x # s
       PROVE  last[x] # None /\ Since(f, k + 1, k + 1, x, last[x], {})
  <2>1. Since(f, k, k, x, rows[x], {})
    BY Zenon, <1>10 DEF Exact
  <2>2. Since(f, k + 1, k + 1, x, rows[x], {})
    BY Zenon, <1>1, <1>10, <2>1, StillSince
  <2>3. QED
    BY Zenon, <1>7, <1>10, <2>2
<1>11. ASSUME rows[s] # None
       PROVE  last[s] # None /\ Since(f, k + 1, k + 1, s, last[s], {})
  <2>1. last[s] # None /\ Moves(rows[s], op, last[s])
    BY Zenon, <1>7, <1>11
  <2>2. Since(f, k + 1, k, s, rows[s], {})
    BY Zenon, <1>6, <1>11, StillSince
  <2>3. Since(f, k + 1, k + 1, s, last[s], {})
    BY Zenon, <1>1, <1>3, <1>4, <2>1, <2>2, Moved
  <2>4. QED
    BY <2>1, <2>3
<1>12. \A x \in Seqs : IF last[x] = None THEN \A i \in 1..k + 1 : ~OpOn(f[i], "post", Room, x)
                       ELSE Since(f, k + 1, k + 1, x, last[x], {})
  BY Zenon, <1>9, <1>10, <1>11
<1>13. QED
  BY Zenon, <1>1, <1>2, <1>7, <1>12 DEF Exact

(* One operation more, whatever its channel.                                *)
LEMMA ExactNext ==
  ASSUME NEW f \in Seq(Op), NEW k \in Nat, k < Len(f), NEW rows, Exact(f, k, rows), Follows(f, k + 1), NoLate(f, k + 1)
  PROVE  Exact(f, k + 1, IF f[k + 1].chan = Room THEN RowsAfter(rows, f[k + 1]) ELSE rows)
<1>1. CASE f[k + 1].chan = Room
  <2>1. f[k + 1] \in Op
    BY k + 1 \in 1..Len(f), Len(f) \in Nat
  <2>2. f[k + 1].kind = "post" \/ f[k + 1].kind \in {"edit", "delete", "react"}
    BY <2>1 DEF Op
  <2>3. QED
    BY Zenon, <1>1, <2>2, ExactPost, ExactChange
<1>2. CASE f[k + 1].chan # Room
  <2>1. \A i \in 1..k + 1 : i \in 1..k \/ i = k + 1
    OBVIOUS
  <2>2. \A s : ~OpOn(f[k + 1], "post", Room, s)
    BY Zenon, <1>2 DEF OpOn
  <2>3. ASSUME NEW s \in Seqs
        PROVE  IF rows[s] = None THEN \A i \in 1..k + 1 : ~OpOn(f[i], "post", Room, s)
               ELSE Since(f, k + 1, k + 1, s, rows[s], {})
    <3>1. CASE rows[s] = None
      <4>1. \A i \in 1..k : ~OpOn(f[i], "post", Room, s)
        BY Zenon, <3>1 DEF Exact
      <4>2. QED
        BY Zenon, <2>1, <2>2, <3>1, <4>1
    <3>2. CASE rows[s] # None
      <4>1. Since(f, k, k, s, rows[s], {})
        BY Zenon, <3>2 DEF Exact
      <4>2. Since(f, k + 1, k + 1, s, rows[s], {})
        BY Zenon, <1>2, <4>1, StillSince
      <4>3. QED
        BY Zenon, <3>2, <4>2
    <3>3. QED
      BY <3>1, <3>2
  <2>4. Exact(f, k + 1, rows)
    BY Zenon, <2>3 DEF Exact
  <2>5. QED
    BY Zenon, <1>2, <2>4
<1>3. QED
  BY Zenon, <1>1, <1>2

(* What is exact stays so while the feed grows behind it.                   *)
LEMMA ExactLonger ==
  ASSUME NEW f, NEW g, NEW k \in Nat, \A i \in 1..k : g[i] = f[i], NEW rows, Exact(f, k, rows)
  PROVE  Exact(g, k, rows)
<1>1. k <= k
  OBVIOUS
<1>2. ASSUME NEW s \in Seqs
      PROVE  IF rows[s] = None THEN \A i \in 1..k : ~OpOn(g[i], "post", Room, s) ELSE Since(g, k, k, s, rows[s], {})
  <2>1. CASE rows[s] = None
    BY Zenon, <2>1 DEF Exact
  <2>2. CASE rows[s] # None
    <3>1. Since(f, k, k, s, rows[s], {})
      BY Zenon, <2>2 DEF Exact
    <3>2. Since(g, k, k, s, rows[s], {})
      BY Zenon, <1>1, <3>1, SinceGrown
    <3>3. QED
      BY Zenon, <2>2, <3>2
  <2>3. QED
    BY <2>1, <2>2
<1>3. QED
  BY Zenon, <1>2 DEF Exact

(* Induction as a fact about one set of numbers.                            *)
LEMMA NatSet ==
  ASSUME NEW S, 0 \in S, \A n \in Nat : n \in S => n + 1 \in S
  PROVE  Nat \subseteq S
<1> DEFINE T == Nat \ S
<1>1. SUFFICES ASSUME T # {} PROVE FALSE
  OBVIOUS
<1>2. PICK x \in T : \A y \in T : ~ (<<y, x>> \in OpToRel(<, Nat))
  BY Zenon, <1>1, WFMin, NatLessThanWellFounded
<1>3. x \in Nat /\ x # 0
  OBVIOUS
<1>4. x - 1 \in Nat /\ x - 1 < x /\ (x - 1) + 1 = x
  BY <1>3
<1>5. x - 1 \in T
  BY <1>3, <1>4
<1>6. QED
  BY <1>2, <1>4, <1>5 DEF OpToRel

IsAfter(after, n) ==
  after = [i \in 0..n |->
             IF i = 0 THEN [s \in Seqs |-> None]
             ELSE IF feed[i].chan = Room THEN RowsAfter(after[i - 1], feed[i]) ELSE after[i - 1]]

(* The rows after each operation exist.                                     *)
LEMMA AfterExists == \A n \in Nat : \E after : IsAfter(after, n)
<1> DEFINE S == {n \in Nat : \E after : IsAfter(after, n)}
<1>1. 0 \in S
  <2> DEFINE g == [i \in 0..0 |-> [s \in Seqs |-> None]]
  <2>1. IsAfter(g, 0)
    BY DEF IsAfter
  <2>2. QED
    BY <2>1
<1>2. ASSUME NEW n \in Nat, n \in S
      PROVE  n + 1 \in S
  <2>1. PICK f : IsAfter(f, n)
    BY <1>2
  <2> DEFINE last == IF feed[n + 1].chan = Room THEN RowsAfter(f[n], feed[n + 1]) ELSE f[n]
             g == [i \in 0..n + 1 |-> IF i = n + 1 THEN last ELSE f[i]]
  <2>2. ASSUME NEW i \in 0..n + 1
        PROVE  g[i] = IF i = 0 THEN [s \in Seqs |-> None]
                      ELSE IF feed[i].chan = Room THEN RowsAfter(g[i - 1], feed[i]) ELSE g[i - 1]
    <3>1. CASE i = n + 1
      <4>1. g[i] = last /\ i - 1 = n /\ g[i - 1] = f[n] /\ i # 0
        BY <3>1
      <4>2. QED
        BY Zenon, <3>1, <4>1
    <3>2. CASE i # n + 1
      <4>1. g[i] = f[i] /\ i \in 0..n /\ (i # 0 => g[i - 1] = f[i - 1])
        BY <3>2
      <4>2. f[i] = IF i = 0 THEN [s \in Seqs |-> None]
                   ELSE IF feed[i].chan = Room THEN RowsAfter(f[i - 1], feed[i]) ELSE f[i - 1]
        BY <2>1, <4>1 DEF IsAfter
      <4> HIDE DEF g
      <4>3. QED
        BY Zenon, <4>1, <4>2
    <3>3. QED
      BY <3>1, <3>2
  <2>3. g = [i \in 0..n + 1 |-> g[i]]
    OBVIOUS
  <2> HIDE DEF g
  <2>4. IsAfter(g, n + 1)
    BY <2>2, <2>3 DEF IsAfter
  <2>5. QED
    BY <2>4
<1>3. QED
  BY <1>1, <1>2, NatSet

LEMMA AfterAt ==
  ASSUME NEW after, NEW n \in Nat, IsAfter(after, n)
  PROVE  /\ after[0] = [s \in Seqs |-> None]
         /\ \A i \in 1..n : after[i] = IF feed[i].chan = Room THEN RowsAfter(after[i - 1], feed[i]) ELSE after[i - 1]
<1>1. 0 \in 0..n /\ \A i \in 1..n : i \in 0..n /\ i # 0
  OBVIOUS
<1>2. ASSUME NEW i \in 0..n
      PROVE  after[i] = IF i = 0 THEN [s \in Seqs |-> None]
                        ELSE IF feed[i].chan = Room THEN RowsAfter(after[i - 1], feed[i]) ELSE after[i - 1]
  BY DEF IsAfter
<1>3. QED
  BY Zenon, <1>1, <1>2

(* The rows the feed makes are exact.                                       *)
LEMMA RowsOfIs ==
  ASSUME FeedOk, \A j \in 1..Len(feed) : NoLate(feed, j)
  PROVE  Exact(feed, Len(feed), RowsOf(Len(feed)))
<1> DEFINE N == Len(feed)
           f == CHOOSE after : IsAfter(after, N)
<1>1. feed \in Seq(Op) /\ N \in Nat
  BY DEF FeedOk
<1>2. IsAfter(f, N)
  BY <1>1, AfterExists
<1>3. RowsOf(N) = f[N]
  BY Zenon DEF RowsOf, IsAfter
<1> HIDE DEF f
<1>4. /\ f[0] = [s \in Seqs |-> None]
      /\ \A i \in 1..N : f[i] = IF feed[i].chan = Room THEN RowsAfter(f[i - 1], feed[i]) ELSE f[i - 1]
  BY Zenon, <1>1, <1>2, AfterAt
<1> DEFINE S == {n \in Nat : n <= N => Exact(feed, n, f[n])}
<1>5. 0 \in S
  <2>1. f[0] \in Rows /\ (\A s \in Seqs : f[0][s] = None) /\ \A i \in 1..0 : FALSE
    BY <1>4 DEF Rows
  <2>2. Exact(feed, 0, f[0])
    BY Zenon, <2>1 DEF Exact
  <2>3. QED
    BY <2>2
<1>6. ASSUME NEW n \in Nat, n \in S
      PROVE  n + 1 \in S
  <2> SUFFICES ASSUME n + 1 <= N PROVE Exact(feed, n + 1, f[n + 1])
    OBVIOUS
  <2>1. n < N /\ n <= N /\ n + 1 \in 1..N /\ (n + 1) - 1 = n
    BY <1>1
  <2>2. Exact(feed, n, f[n])
    BY <1>6, <2>1
  <2>3. Follows(feed, n + 1) /\ NoLate(feed, n + 1)
    BY Zenon, <2>1 DEF FeedOk
  <2>4. f[n + 1] = IF feed[n + 1].chan = Room THEN RowsAfter(f[n], feed[n + 1]) ELSE f[n]
    BY Zenon, <1>4, <2>1
  <2>5. Exact(feed, n + 1, IF feed[n + 1].chan = Room THEN RowsAfter(f[n], feed[n + 1]) ELSE f[n])
    BY Zenon, <1>1, <2>1, <2>2, <2>3, ExactNext
  <2>6. QED
    BY Zenon, <2>4, <2>5
<1>7. N \in S
  <2> HIDE DEF S
  <2>1. QED
    BY <1>1, <1>5, <1>6, NatSet
<1>8. QED
  BY <1>1, <1>3, <1>7

(* No reaction comes late.                                                  *)
LEMMA FeedNoLate ==
  ASSUME FeedOk, \A j \in 1..Len(feed) : NoLate(feed, j), FeedStep
  PROVE  \A j \in 1..Len(feed') : NoLate(feed', j)
<1>1. feed \in Seq(Op) /\ Len(feed) \in Nat
  BY DEF FeedOk
<1>2. PICK op \in Op : feed' = Append(feed, op)
  BY Zenon, FeedThreads
<1>3. /\ Len(feed') = Len(feed) + 1 /\ feed'[Len(feed) + 1] = op /\ \A i \in 1..Len(feed) : feed'[i] = feed[i]
      /\ Len(feed) + 1 \in Nat
  BY <1>1, <1>2, FeedGrows
<1>4. ASSUME op.kind = "react", NEW i \in 1..Len(feed)
      PROVE  ~OpOn(feed[i], "delete", op.chan, op.seq)
  <2>1. \E c \in Channel, s \in Seqs, e \in Emoji, p \in Party, a \in BOOLEAN : ReactApplied(c, s, e, p, a)
    <3>1. ASSUME NEW x, feed' = Append(feed, x)
          PROVE  x.kind = "react"
      BY Zenon, <1>1, <1>2, <1>4, <3>1, LastAppended
    <3>2. ASSUME NEW c \in Channel, NEW m \in Id, NEW b \in Body, NEW t \in 0..MaxSeq, PostApplied(c, m, b, t)
          PROVE  FALSE
      <4>1. PICK x : x = [kind |-> "post", chan |-> c, seq |-> Len(canon[c]) + 1, id |-> m, body |-> b, thread |-> t]
        OBVIOUS
      <4>2. x.kind = "post"
        BY <4>1
      <4>3. feed' = Append(feed, x)
        BY Zenon, <3>2, <4>1 DEF PostApplied, Apply
      <4>4. QED
        BY <3>1, <4>2, <4>3
    <3>3. ASSUME NEW c \in Channel, NEW s \in Seqs, NEW b \in Body, EditApplied(c, s, b)
          PROVE  FALSE
      <4>1. PICK x : x = [kind |-> "edit", chan |-> c, seq |-> s, body |-> b, rev |-> canon[c][s].rev + 1]
        OBVIOUS
      <4>2. x.kind = "edit"
        BY <4>1
      <4>3. feed' = Append(feed, x)
        BY Zenon, <3>3, <4>1 DEF EditApplied, Apply
      <4>4. QED
        BY <3>1, <4>2, <4>3
    <3>4. ASSUME NEW c \in Channel, NEW s \in Seqs, DeleteApplied(c, s)
          PROVE  FALSE
      <4>1. PICK x : x = [kind |-> "delete", chan |-> c, seq |-> s]
        OBVIOUS
      <4>2. x.kind = "delete"
        BY <4>1
      <4>3. feed' = Append(feed, x)
        BY Zenon, <3>4, <4>1 DEF DeleteApplied, Apply
      <4>4. QED
        BY <3>1, <4>2, <4>3
    <3>5. QED
      BY Zenon, <3>2, <3>3, <3>4 DEF FeedStep
  <2>2. PICK c \in Channel, s \in Seqs, e \in Emoji, p \in Party, a \in BOOLEAN : ReactApplied(c, s, e, p, a)
    BY Zenon, <2>1
  <2>3. PICK x : x = [kind |-> "react", chan |-> c, seq |-> s, emoji |-> e, who |-> p, added |-> a]
    OBVIOUS
  <2>4. x.chan = c /\ x.seq = s
    BY <2>3
  <2>5. feed' = Append(feed, x) /\ ~canon[c][s].deleted
    BY Zenon, <2>2, <2>3 DEF ReactApplied, Apply
  <2>6. op = x
    BY Zenon, <1>1, <1>2, <2>5, LastAppended
  <2>7. Settles(canon, feed[i])
    BY Zenon DEF FeedOk
  <2>8. QED
    BY Zenon, <2>4, <2>5, <2>6, <2>7 DEF Settles, OpOn
<1>5. ASSUME NEW j \in 1..Len(feed')
      PROVE  NoLate(feed', j)
  <2>1. CASE j = Len(feed) + 1
    <3>1. \A i \in 1..j - 1 : i \in 1..Len(feed)
      BY <1>1, <2>1
    <3>2. QED
      BY Zenon, <1>3, <1>4, <2>1, <3>1 DEF NoLate
  <2>2. CASE j # Len(feed) + 1
    <3>1. j \in 1..Len(feed) /\ \A i \in 1..j - 1 : i \in 1..Len(feed)
      BY <1>1, <1>3, <2>2
    <3>2. QED
      BY Zenon, <1>3, <3>1 DEF NoLate
  <2>3. QED
    BY <2>1, <2>2
<1>6. QED
  BY <1>5

------------------------------------------------------------------------------
(* What is on screen shows what was delivered.                              *)

\* The reader's reactions to message s that are shown and not applied yet.
TapsOf(ts, s) == {z \in Emoji \X Party : z[2] = Me /\ \E a \in BOOLEAN : <<s, z[1], a>> \in ts}

\* Row r shows the first k operations of f, unless a page took it back.
Fresh(f, k, ts, st, r) ==
  IF r.pending THEN r.seq = 0 ELSE r.seq \in st \/ Since(f, Len(f), k, r.seq, r, TapsOf(ts, r.seq))

\* The rows of a page read at tip n.
ReadAt(f, n, page) == \A r \in Elems(page) : r.seq \in Seqs /\ Since(f, n, n, r.seq, r, {})

ShownInv ==
  /\ \A j \in 1..Len(feed) : NoLate(feed, j)
  /\ Exact(feed, tip, row[Room])
  /\ cur \in 0..Len(feed)
  /\ \A r \in Elems(win) : Fresh(feed, cur, taps, stale, r)
  /\ load # None /\ load.page # None => load.at \in 0..Len(feed) /\ ReadAt(feed, load.at, load.page)

(* The feed grows: what was tapped is tapped, or applied by what is new.    *)
LEMMA FreshLonger ==
  ASSUME NEW f, NEW k, NEW ts, NEW st, NEW r, Fresh(f, k, ts, st, r), k \in Nat, Len(f) \in Nat, k <= Len(f),
         NEW g, Len(g) \in Nat, Len(f) <= Len(g), \A i \in 1..Len(f) : g[i] = f[i], NEW us,
         \A z \in TapsOf(ts, r.seq) : z \in TapsOf(us, r.seq) \/ \E i \in 1..Len(g) : Len(f) < i /\ Reacts(g[i], r.seq, z)
  PROVE  Fresh(g, k, us, st, r)
<1>1. CASE r.pending \/ r.seq \in st
  BY Zenon, <1>1 DEF Fresh
<1>2. CASE ~r.pending /\ r.seq \notin st
  <2>1. Since(f, Len(f), k, r.seq, r, TapsOf(ts, r.seq))
    BY Zenon, <1>2 DEF Fresh
  <2>2. Since(g, Len(g), k, r.seq, r, TapsOf(us, r.seq))
    BY Zenon, <2>1, SinceLonger
  <2>3. QED
    BY Zenon, <1>2, <2>2 DEF Fresh
<1>3. QED
  BY <1>1, <1>2

(* The next operation delivered, if it is not about the row.                *)
LEMMA FreshNext ==
  ASSUME NEW f, NEW k, NEW ts, NEW st, NEW r, Fresh(f, k, ts, st, r), k \in Nat, Len(f) \in Nat,
         ~r.pending /\ f[k + 1].chan = Room /\ f[k + 1].seq = r.seq => f[k + 1].kind = "post"
  PROVE  Fresh(f, k + 1, ts, st, r)
<1>1. CASE r.pending \/ r.seq \in st
  BY Zenon, <1>1 DEF Fresh
<1>2. CASE ~r.pending /\ r.seq \notin st
  <2>1. Since(f, Len(f), k, r.seq, r, TapsOf(ts, r.seq))
    BY Zenon, <1>2 DEF Fresh
  <2>2. Since(f, Len(f), k + 1, r.seq, r, TapsOf(ts, r.seq))
    BY Zenon, <1>2, <2>1, Unmoved
  <2>3. QED
    BY Zenon, <1>2, <2>2 DEF Fresh
<1>3. QED
  BY <1>1, <1>2

(* Nothing is on screen at first.                                           *)
LEMMA InitShown ==
  ASSUME ClientInit
  PROVE  ShownInv
<1>1. /\ feed = <<>> /\ tip = 0 /\ row[Room] = [s \in Seqs |-> None] /\ cur = 0 /\ win = <<>> /\ load = None
  BY ClientAssumption DEF ClientInit, Init
<1>2. Len(feed) = 0 /\ (\A j \in 1..Len(feed) : FALSE) /\ (\A j \in 1..tip : FALSE) /\ cur \in 0..Len(feed) /\ Elems(win) = {}
  BY <1>1 DEF Elems
<1>3. row[Room] \in Rows /\ \A s \in Seqs : row[Room][s] = None
  BY <1>1 DEF Rows
<1>4. Exact(feed, tip, row[Room])
  BY Zenon, <1>2, <1>3 DEF Exact
<1>5. QED
  BY Zenon, <1>1, <1>2, <1>4 DEF ShownInv

(* An operation joins the feed: the taps it applies are reacted to again.   *)
LEMMA FeedShown ==
  ASSUME FeedOk, RowsOk, ShownInv, FeedStep, UNCHANGED <<index, win, cur, load, stale>>, taps' = taps \/ ClientFeed
  PROVE  ShownInv'
<1>1. feed \in Seq(Op) /\ Len(feed) \in Nat /\ tip \in 0..Len(feed) /\ cur \in 0..Len(feed)
  BY DEF FeedOk, RowsOk, ShownInv
<1>2. PICK op \in Op : feed' = Append(feed, op)
  BY Zenon, FeedThreads
<1>3. /\ Len(feed') = Len(feed) + 1 /\ feed'[Len(feed) + 1] = op /\ \A i \in 1..Len(feed) : feed'[i] = feed[i]
  BY Zenon, <1>1, <1>2, FeedGrows
<1>4. /\ Len(feed') \in Nat /\ Len(feed) <= Len(feed') /\ Len(feed') \in 1..Len(feed') /\ Len(feed) < Len(feed')
      /\ tip \in Nat /\ cur \in Nat /\ cur <= Len(feed) /\ cur \in 0..Len(feed')
      /\ (\A i \in 1..tip : i \in 1..Len(feed)) /\ \A n \in 0..Len(feed) : n \in 0..Len(feed') /\ n \in Nat /\ n <= n
  BY <1>1, <1>3
<1>5. tip' = tip /\ row' = row /\ win' = win /\ cur' = cur /\ load' = load /\ stale' = stale
  BY DEF index
<1>6. \A j \in 1..Len(feed') : NoLate(feed', j)
  BY Zenon, FeedNoLate DEF ShownInv
<1>7. Exact(feed', tip', row'[Room])
  <2>1. Exact(feed, tip, row[Room]) /\ \A i \in 1..tip : feed'[i] = feed[i]
    BY Zenon, <1>3, <1>4 DEF ShownInv
  <2>2. Exact(feed', tip, row[Room])
    BY Zenon, <1>4, <2>1, ExactLonger
  <2>3. QED
    BY Zenon, <1>5, <2>2
<1>8. ASSUME NEW s, NEW z \in TapsOf(taps, s)
      PROVE  z \in TapsOf(taps', s) \/ \E i \in 1..Len(feed') : Len(feed) < i /\ Reacts(feed'[i], s, z)
  <2>1. CASE taps' = taps
    BY Zenon, <1>8, <2>1
  <2>2. CASE ClientFeed
    <3>1. z \in Emoji \X Party /\ z[2] = Me /\ \E a \in BOOLEAN : <<s, z[1], a>> \in taps
      BY Zenon, <1>8 DEF TapsOf
    <3>2. PICK a \in BOOLEAN : <<s, z[1], a>> \in taps
      BY Zenon, <3>1
    <3>3. CASE <<s, z[1], a>> \in taps'
      BY Zenon, <3>1, <3>3 DEF TapsOf
    <3>4. CASE <<s, z[1], a>> \notin taps'
      <4>1. /\ op.kind = "react" /\ op.chan = Room /\ op.who = Me /\ <<s, z[1], a>> = <<op.seq, op.emoji, op.added>>
        <5>1. feed'[Len(feed')] = op
          BY Zenon, <1>3
        <5>2. taps' = {x \in taps : ~(op.kind = "react" /\ op.chan = Room /\ op.who = Me /\ x = <<op.seq, op.emoji, op.added>>)}
          BY Zenon, <2>2, <5>1 DEF ClientFeed
        <5>3. QED
          BY Zenon, <3>2, <3>4, <5>2
      <4>2. op.seq = s /\ op.emoji = z[1]
        BY ONLY <4>1
      <4>3. Reacts(feed'[Len(feed')], s, z)
        BY Zenon, <1>3, <3>1, <4>1, <4>2 DEF Reacts, OpOn
      <4>4. QED
        BY Zenon, <1>4, <4>3
    <3>5. QED
      BY <3>3, <3>4
  <2>3. QED
    BY Zenon, <2>1, <2>2
<1>9. ASSUME NEW r \in Elems(win)
      PROVE  Fresh(feed', cur, taps', stale, r)
  <2>1. Fresh(feed, cur, taps, stale, r)
    BY Zenon DEF ShownInv
  <2>2. \A z \in TapsOf(taps, r.seq) :
          z \in TapsOf(taps', r.seq) \/ \E i \in 1..Len(feed') : Len(feed) < i /\ Reacts(feed'[i], r.seq, z)
    BY Zenon, <1>8
  <2>3. QED
    BY Zenon, <1>1, <1>3, <1>4, <2>1, <2>2, FreshLonger
<1>10. ASSUME load # None, load.page # None
       PROVE  load.at \in 0..Len(feed') /\ ReadAt(feed', load.at, load.page)
  <2>1. load.at \in 0..Len(feed) /\ ReadAt(feed, load.at, load.page)
    BY Zenon, <1>10 DEF ShownInv
  <2>2. \A i \in 1..load.at : feed'[i] = feed[i]
    BY <1>1, <1>3, <2>1
  <2>3. ASSUME NEW r \in Elems(load.page)
        PROVE  r.seq \in Seqs /\ Since(feed', load.at, load.at, r.seq, r, {})
    <3>1. r.seq \in Seqs /\ Since(feed, load.at, load.at, r.seq, r, {})
      BY Zenon, <2>1 DEF ReadAt
    <3>2. Since(feed', load.at, load.at, r.seq, r, {})
      BY Zenon, <1>4, <2>1, <2>2, <3>1, SinceGrown
    <3>3. QED
      BY <3>1, <3>2
  <2>4. QED
    BY Zenon, <1>4, <2>1, <2>3 DEF ReadAt
<1>11. QED
  BY Zenon, <1>4, <1>5, <1>6, <1>7, <1>9, <1>10 DEF ShownInv

(* An operation is folded: the heads of the room are one further.           *)
LEMMA FoldShown ==
  ASSUME FeedOk, RowsOk, ShownInv, NEW kind, FoldNext(kind), UNCHANGED client
  PROVE  ShownInv'
<1>1. /\ tip \in Nat /\ tip < Len(feed) /\ feed \in Seq(Op) /\ feed[tip + 1].chan \in Channel
      /\ Follows(feed, tip + 1) /\ feed' = feed /\ tip' = tip + 1
      /\ row' = [row EXCEPT ![feed[tip + 1].chan] = RowsAfter(row[feed[tip + 1].chan], feed[tip + 1])]
      /\ row \in [Channel -> Rows]
  BY FoldFacts DEF RowsOk
<1>2. tip + 1 \in 1..Len(feed) /\ Len(feed) \in Nat
  BY <1>1
<1>3. NoLate(feed, tip + 1) /\ Exact(feed, tip, row[Room])
  BY Zenon, <1>2 DEF ShownInv
<1>4. row'[Room] = IF feed[tip + 1].chan = Room THEN RowsAfter(row[Room], feed[tip + 1]) ELSE row[Room]
  BY <1>1, ClientAssumption
<1>5. Exact(feed, tip + 1, IF feed[tip + 1].chan = Room THEN RowsAfter(row[Room], feed[tip + 1]) ELSE row[Room])
  BY Zenon, <1>1, <1>3, ExactNext
<1>6. Exact(feed', tip', row'[Room])
  BY Zenon, <1>1, <1>4, <1>5
<1>7. win' = win /\ cur' = cur /\ load' = load /\ taps' = taps /\ stale' = stale
  BY DEF client
<1>8. QED
  BY Zenon, <1>1, <1>6, <1>7 DEF ShownInv

(* What shows every operation to come shows what is delivered of them.      *)
LEMMA ReadShown ==
  ASSUME FeedOk, RowsOk, ThreadsOk, WinInv, ShownInv, Read
  PROVE  ShownInv'
<1>1. /\ load # None /\ win' = win /\ cur' = cur /\ taps' = taps /\ stale' = stale /\ feed' = feed /\ tip' = tip /\ row' = row
      /\ load' = [at |-> tip, page |-> PageRows]
  BY Zenon DEF Read, source, index
<1>2. load'.page = PageRows /\ load'.at = tip /\ tip \in 0..Len(feed)
  BY <1>1 DEF RowsOk
<1>3. view \in 0..MaxSeq /\ (view # 0 => IsRoot(canon, Room, view))
  BY Zenon, <1>1 DEF WinInv
<1>4. ASSUME NEW r \in Elems(PageRows)
      PROVE  r.seq \in Seqs /\ Since(feed, tip, tip, r.seq, r, {})
  <2>1. r.seq \in Seqs /\ row[Room][r.seq] # None /\ r = Shown(row[Room][r.seq], r.seq)
    BY Zenon, <1>3, PageRowsFit
  <2>2. Since(feed, tip, tip, r.seq, row[Room][r.seq], {})
    BY Zenon, <2>1 DEF ShownInv, Exact
  <2>3. \A q, s : Shows(q, Shown(q, s))
    BY DEF Shows, Shown
  <2>4. Shows(row[Room][r.seq], r)
    BY Zenon, <2>1, <2>3
  <2>5. QED
    BY Zenon, <2>1, <2>2, <2>4, SinceShows
<1>5. ReadAt(feed, tip, PageRows)
  BY Zenon, <1>4 DEF ReadAt
<1>6. QED
  BY Zenon, <1>1, <1>2, <1>5 DEF ShownInv

(* A page lands: a row of it that is behind what was delivered is taken     *)
(* back, and no row that was is left on screen as one that is not.          *)
LEMMA LandShown ==
  ASSUME FeedOk, ThreadsOk, WinInv, ShownInv, Land
  PROVE  ShownInv'
<1>1. /\ load # None /\ load.page # None /\ cur' = cur /\ taps' = taps /\ feed' = feed /\ tip' = tip /\ row' = row
      /\ load' = None /\ win' = Landed(load.page, win)
  BY Zenon DEF Land, source, index
<1> DEFINE taken == {s \in {load.page[i].seq : i \in DOMAIN load.page} :
                       \A i \in DOMAIN win' : win'[i].seq = s => \E j \in DOMAIN load.page : load.page[j] = win'[i]}
<1>2. stale' = (stale \ taken) \cup (taken \cap Undone(load.at))
  BY DEF Land
<1>3. view \in 0..MaxSeq /\ WinFits(feed, sent, view, win) /\ PageFits(feed, view, load.page)
  BY Zenon, <1>1 DEF WinInv
<1>4. WinFits(feed, sent, view, win') /\ Elems(win') \subseteq Elems(load.page) \cup Elems(win)
  BY Zenon, <1>1, <1>3, LandedIs
<1>5. win' \in Seq(Screen) /\ Neat(win')
  BY Zenon, <1>4 DEF WinFits
<1>6. feed \in Seq(Op) /\ cur \in 0..Len(feed) /\ load.at \in 0..Len(feed) /\ ReadAt(feed, load.at, load.page)
  BY Zenon, <1>1 DEF ShownInv, FeedOk
<1>7. /\ Len(feed) \in Nat /\ cur \in Nat /\ load.at \in Nat /\ cur <= Len(feed) /\ load.at <= Len(feed)
      /\ \A i \in 1..cur : load.at < i => i \in load.at + 1..cur
  BY <1>6
<1>8. \A i, j \in DOMAIN win' : ~win'[i].pending /\ ~win'[j].pending /\ win'[i].seq = win'[j].seq => i = j
  <2>1. ASSUME NEW i \in DOMAIN win', NEW j \in DOMAIN win', ~win'[i].pending, ~win'[j].pending, i < j
        PROVE  win'[i].seq # win'[j].seq
    <3>1. win'[i].seq < win'[j].seq
      BY Zenon, <1>5, <2>1 DEF Neat, Pair
    <3>2. \A x \in Screen : x.seq \in Nat
      BY DEF Screen
    <3>3. win'[i] \in Screen /\ win'[j] \in Screen
      BY <1>5
    <3>4. win'[i].seq \in Nat /\ win'[j].seq \in Nat
      BY Zenon, <3>2, <3>3
    <3>5. QED
      BY ONLY <3>1, <3>4
  <2>2. \A i, j \in DOMAIN win' : i < j \/ j < i \/ i = j
    BY <1>5
  <2>3. QED
    BY Zenon, <2>1, <2>2
<1>9. ASSUME NEW r \in Elems(win')
      PROVE  Fresh(feed, cur, taps, stale', r)
  <2>1. PICK k \in DOMAIN win' : win'[k] = r
    BY Zenon DEF Elems
  <2>2. CASE r \in Elems(load.page)
    <3>1. r.seq \in Seqs /\ Since(feed, load.at, load.at, r.seq, r, {}) /\ ~r.pending
      BY Zenon, <1>3, <1>6, <2>2 DEF ReadAt, PageFits
    <3>2. CASE r.seq \in Undone(load.at)
      <4>1. r.seq \in {load.page[i].seq : i \in DOMAIN load.page}
        BY Zenon, <2>2 DEF Elems
      <4>2. ASSUME NEW i \in DOMAIN win', win'[i].seq = r.seq
            PROVE  \E j \in DOMAIN load.page : load.page[j] = win'[i]
        <5>1. win'[i] \in Elems(win')
          BY Zenon DEF Elems
        <5>2. ~win'[i].pending
          <6>1. 0 \notin Seqs
            BY DEF Seqs
          <6>2. CASE win'[i] \in Elems(load.page)
            BY Zenon, <1>3, <6>2 DEF PageFits
          <6>3. CASE win'[i] \in Elems(win)
            BY Zenon, <3>1, <4>2, <6>1, <6>3 DEF ShownInv, Fresh
          <6>4. QED
            BY Zenon, <1>4, <5>1, <6>2, <6>3
        <5>3. i = k
          BY Zenon, <1>8, <2>1, <3>1, <4>2, <5>2
        <5>4. QED
          BY Zenon, <2>1, <2>2, <5>3 DEF Elems
      <4>3. r.seq \in taken
        BY Zenon, <4>1, <4>2
      <4>4. QED
        BY Zenon, <1>2, <3>1, <3>2, <4>3 DEF Fresh
    <3>3. CASE r.seq \notin Undone(load.at)
      <4>1. Quiet(feed, load.at, cur, r.seq)
        BY Zenon, <1>7, <3>3 DEF Undone, Quiet
      <4>2. Since(feed, Len(feed), cur, r.seq, r, TapsOf(taps, r.seq))
        BY Zenon, <1>7, <3>1, <4>1, ReadThen
      <4>3. QED
        BY Zenon, <3>1, <4>2 DEF Fresh
    <3>4. QED
      BY <3>2, <3>3
  <2>3. CASE r \notin Elems(load.page)
    <3>1. Fresh(feed, cur, taps, stale, r)
      BY Zenon, <1>4, <2>3 DEF ShownInv
    <3>2. r.seq \notin taken
      BY Zenon, <2>1, <2>3 DEF Elems
    <3>3. r.seq \in stale => r.seq \in stale'
      BY Zenon, <1>2, <3>2
    <3>4. QED
      BY Zenon, <3>1, <3>3 DEF Fresh
  <2>4. QED
    BY <2>2, <2>3
<1>10. QED
  BY Zenon, <1>1, <1>9 DEF ShownInv

(* A delta arrives.                                                         *)
LEMMA DeliverShown ==
  ASSUME FeedOk, ThreadsOk, WinInv, ShownInv, Deliver
  PROVE  ShownInv'
<1>1. /\ view # None /\ cur < Len(feed) /\ cur' = cur + 1 /\ load' = load /\ taps' = taps /\ stale' = stale
      /\ feed' = feed /\ tip' = tip /\ row' = row
      /\ win' = IF feed[cur'].chan = Room THEN Spliced(win, feed[cur']) ELSE win
  BY Zenon DEF Deliver, source, index
<1>2. view \in 0..MaxSeq /\ WinFits(feed, sent, view, win) /\ win \in Seq(Screen)
  BY Zenon, <1>1 DEF WinInv, WinFits
<1>3. /\ feed \in Seq(Op) /\ Len(feed) \in Nat /\ cur \in Nat /\ cur + 1 \in 1..Len(feed) /\ cur + 1 \in 0..Len(feed)
      /\ Len(feed) <= Len(feed)
  <2>1. feed \in Seq(Op) /\ cur \in 0..Len(feed)
    BY Zenon DEF FeedOk, ShownInv
  <2>2. QED
    BY <1>1, <2>1
<1>4. PICK op : op = feed[cur + 1]
  OBVIOUS
<1>5. op \in Op /\ Follows(feed, cur + 1)
  BY <1>3, <1>4 DEF FeedOk
<1>6. op.seq \in Seqs /\ op.kind \in {"post", "edit", "delete", "react"}
  BY <1>5 DEF Op
<1>7. \A r \in Elems(win) : Fresh(feed, cur, taps, stale, r)
  BY Zenon DEF ShownInv
<1>8. CASE op.chan # Room
  <2>1. \A r \in Elems(win) : Fresh(feed, cur + 1, taps, stale, r)
    BY Zenon, <1>3, <1>4, <1>7, <1>8, FreshNext
  <2>2. QED
    BY Zenon, <1>1, <1>3, <1>4, <1>8, <2>1 DEF ShownInv
<1>9. CASE op.chan = Room /\ op.kind = "post"
  <2> DEFINE x == Shown(Posted(op), op.seq)
  <2>1. Elems(win') \subseteq Elems(win) \cup {x}
    BY Zenon, <1>1, <1>2, <1>3, <1>4, <1>9, SplicedIs
  <2>2. \A r \in Elems(win) : Fresh(feed, cur + 1, taps, stale, r)
    BY Zenon, <1>3, <1>4, <1>7, <1>9, FreshNext
  <2>3. /\ ~x.pending /\ x.seq = op.seq /\ x.id = op.id /\ x.thread = op.thread
        /\ x.rev = 0 /\ ~x.deleted /\ x.body = op.body /\ x.reacts = {}
    BY DEF Shown, Posted
  <2> HIDE DEF x
  <2>4. Since(feed, Len(feed), cur + 1, op.seq, x, TapsOf(taps, op.seq))
    <3>1. OpOn(feed[cur + 1], "post", Room, op.seq)
      BY Zenon, <1>4, <1>9 DEF OpOn
    <3>2. QED
      BY Zenon, <1>1, <1>3, <1>4, <1>5, <2>3, <3>1, PostMoves
  <2>5. Fresh(feed, cur + 1, taps, stale, x)
    BY Zenon, <2>3, <2>4 DEF Fresh
  <2>6. \A r \in Elems(win') : Fresh(feed, cur + 1, taps, stale, r)
    BY Zenon, <2>1, <2>2, <2>5
  <2>7. QED
    BY Zenon, <1>1, <1>3, <2>6 DEF ShownInv
<1>10. CASE op.chan = Room /\ op.kind \in {"edit", "delete", "react"}
  <2> DEFINE next == [i \in DOMAIN win |-> IF Is(win[i], op.seq) THEN Changed(win[i], op) ELSE win[i]]
  <2>1. win' = next
    <3>1. Spliced(win, op) = next
      BY <1>10 DEF Spliced
    <3>2. QED
      BY Zenon, <1>1, <1>4, <1>10, <3>1
  <2>2. ASSUME NEW i \in DOMAIN win
        PROVE  Fresh(feed, cur + 1, taps, stale, next[i])
    <3>1. win[i] \in Screen /\ Fresh(feed, cur, taps, stale, win[i])
      <4>1. win[i] \in Elems(win)
        BY Zenon DEF Elems
      <4>2. win[i] \in Screen
        BY <1>2
      <4>3. QED
        BY Zenon, <1>7, <4>1, <4>2
    <3>2. CASE Is(win[i], op.seq)
      <4>1. next[i] = Changed(win[i], op)
        BY Zenon, <3>2
      <4> HIDE DEF next
      <4>2. /\ ~win[i].pending /\ win[i].seq = op.seq /\ ~next[i].pending /\ next[i].seq = op.seq
            /\ Moves(win[i], op, next[i])
        <5>1. Alike(Changed(win[i], op), win[i]) /\ Moves(win[i], op, Changed(win[i], op))
          BY Zenon, <1>5, <1>10, <3>1, ChangedAlike, ScreenMoves
        <5>2. QED
          BY Zenon, <3>2, <4>1, <5>1 DEF Is, Alike
      <4>3. CASE op.seq \in stale
        BY Zenon, <4>2, <4>3 DEF Fresh
      <4>4. CASE op.seq \notin stale
        <5>1. Since(feed, Len(feed), cur, op.seq, win[i], TapsOf(taps, op.seq))
          BY Zenon, <3>1, <4>2, <4>4 DEF Fresh
        <5>2. Since(feed, Len(feed), cur + 1, op.seq, next[i], TapsOf(taps, op.seq))
          BY Zenon, <1>1, <1>3, <1>4, <1>5, <1>10, <4>2, <5>1, Moved
        <5>3. QED
          BY Zenon, <4>2, <5>2 DEF Fresh
      <4>5. QED
        BY <4>3, <4>4
    <3>3. CASE ~Is(win[i], op.seq)
      <4>1. next[i] = win[i]
        BY Zenon, <3>3
      <4>2. ~(~win[i].pending /\ op.seq = win[i].seq)
        BY Zenon, <3>3 DEF Is
      <4>3. Fresh(feed, cur + 1, taps, stale, win[i])
        BY Zenon, <1>3, <1>4, <3>1, <4>2, FreshNext
      <4>4. QED
        BY Zenon, <4>1, <4>3
    <3>4. QED
      BY <3>2, <3>3
  <2>3. DOMAIN next = DOMAIN win
    OBVIOUS
  <2> HIDE DEF next
  <2>4. \A r \in Elems(win') : Fresh(feed, cur + 1, taps, stale, r)
    BY Zenon, <2>1, <2>2, <2>3 DEF Elems
  <2>5. QED
    BY Zenon, <1>1, <1>3, <2>4 DEF ShownInv
<1>11. QED
  BY <1>6, <1>8, <1>9, <1>10

(* The room opens, reads again, or a message is sent.                       *)
LEMMA SendShown ==
  ASSUME FeedOk, WinInv, ShownInv, NEW m \in Id, Send(m)
  PROVE  ShownInv'
<1> DEFINE rows == Append(win, Placeholder(m))
<1>1. /\ view # None /\ cur' = cur /\ load' = load /\ taps' = taps /\ stale' = stale
      /\ feed' = feed /\ tip' = tip /\ row' = row /\ win' = Bounded(rows)
  BY Zenon DEF Send, source, index
<1>2. view \in 0..MaxSeq /\ WinFits(feed, sent, view, win)
  BY Zenon, <1>1 DEF WinInv
<1>3. /\ rows \in Seq(Screen) /\ Neat(rows) /\ Elems(rows) \subseteq Elems(win) \cup {Placeholder(m)}
      /\ \A r \in Elems(rows) : Fits(feed, sent \cup {m}, view, r)
  BY Zenon, <1>2, SentFits
<1> HIDE DEF rows
<1>4. Elems(win') \subseteq Elems(rows)
  BY Zenon, <1>1, <1>2, <1>3, BoundedIs
<1>5. Placeholder(m).pending /\ Placeholder(m).seq = 0
  BY DEF Placeholder
<1>6. Fresh(feed, cur, taps, stale, Placeholder(m))
  BY Zenon, <1>5 DEF Fresh
<1>7. \A r \in Elems(win') : Fresh(feed, cur, taps, stale, r)
  BY Zenon, <1>3, <1>4, <1>6 DEF ShownInv
<1>8. QED
  BY Zenon, <1>1, <1>7 DEF ShownInv

(* A row changed in no reaction but those that are free.                    *)
LEMMA FreeMoves ==
  ASSUME NEW f, NEW n, NEW k, NEW s, NEW r, NEW free, Since(f, n, k, s, r, free), NEW q, NEW more, free \subseteq more,
         q.id = r.id, q.thread = r.thread, q.rev = r.rev, q.deleted <=> r.deleted, q.body = r.body,
         r.deleted => q.reacts = r.reacts,
         ~r.deleted => \A z \in Emoji \X Party : z \in more \/ (z \in q.reacts <=> z \in r.reacts)
  PROVE  Since(f, n, k, s, q, more)
<1>1. Reads(f, n, s, q)
  <2>1. Reads(f, n, s, r)
    BY Zenon DEF Since
  <2>2. PostedAs(f, n, Room, s, q)
    BY Zenon, <2>1 DEF Reads, PostedAs
  <2>3. QED
    BY Zenon, <2>1, <2>2 DEF Reads
<1>2. EditsTo(f, k, s, q.rev) /\ \A i \in 1..k : OpOn(f[i], "delete", Room, s) => q.deleted
  BY Zenon DEF Since
<1>3. ASSUME ~q.deleted, NEW z \in Emoji \X Party
      PROVE  \/ z \in more
             \/ \E i \in 1..n : k < i /\ Reacts(f[i], s, z)
             \/ z \in q.reacts <=> Holds(f, k, s, z)
  <2>1. Toggles(f, n, k, s, r.reacts, free)
    BY Zenon, <1>3 DEF Since
  <2>2. \/ z \in free
        \/ \E i \in 1..n : k < i /\ Reacts(f[i], s, z)
        \/ z \in r.reacts <=> Holds(f, k, s, z)
    BY Zenon, <2>1 DEF Toggles
  <2>3. QED
    BY Zenon, <1>3, <2>2
<1>4. QED
  BY Zenon, <1>1, <1>2, <1>3 DEF Since, Toggles

(* The reader taps a reaction: it is shown, and free until it is applied.   *)
LEMMA TapShown ==
  ASSUME FeedOk, WinInv, ShownInv, NEW s \in Seqs, NEW e \in Emoji, NEW a \in BOOLEAN, Tap(s, e, a)
  PROVE  ShownInv'
<1> DEFINE next == [i \in DOMAIN win |-> IF Is(win[i], s) THEN ReactedOn(win[i], e, Me, a) ELSE win[i]]
<1>1. /\ view # None /\ cur' = cur /\ load' = load /\ taps' = taps \cup {<<s, e, a>>} /\ stale' = stale
      /\ feed' = feed /\ tip' = tip /\ row' = row /\ win' = next
  BY Zenon DEF Tap, source, index
<1>2. win \in Seq(Screen) /\ \A r \in Elems(win) : Fresh(feed, cur, taps, stale, r)
  BY Zenon, <1>1 DEF WinInv, WinFits, ShownInv
<1>3. \A x : TapsOf(taps, x) \subseteq TapsOf(taps', x)
  BY Zenon, <1>1 DEF TapsOf
<1>4. \A z \in Emoji \X Party : z = <<e, Me>> => z \in TapsOf(taps', s)
  <2>1. ASSUME NEW z \in Emoji \X Party, z = <<e, Me>>
        PROVE  z[1] = e /\ z[2] = Me
    BY <2>1
  <2>2. <<s, e, a>> \in taps'
    BY Zenon, <1>1
  <2>3. QED
    BY Zenon, <2>1, <2>2 DEF TapsOf
<1>5. ASSUME NEW i \in DOMAIN win
      PROVE  Fresh(feed, cur, taps', stale, next[i])
  <2>1. win[i] \in Screen /\ Fresh(feed, cur, taps, stale, win[i])
    <3>1. win[i] \in Elems(win)
      BY Zenon DEF Elems
    <3>2. win[i] \in Screen
      BY <1>2
    <3>3. QED
      BY Zenon, <1>2, <3>1, <3>2
  <2>2. PICK r, q : r = win[i] /\ q = next[i]
    OBVIOUS
  <2>3. CASE Is(r, s)
    <3>1. q = ReactedOn(r, e, Me, a)
      BY Zenon, <2>2, <2>3
    <3>2. /\ q.id = r.id /\ q.seq = r.seq /\ q.pending = r.pending /\ q.thread = r.thread
          /\ q.deleted = r.deleted /\ q.rev = r.rev /\ q.body = r.body
          /\ q.reacts = IF r.deleted THEN r.reacts ELSE IF a THEN r.reacts \cup {<<e, Me>>} ELSE r.reacts \ {<<e, Me>>}
      BY <2>1, <2>2, <3>1 DEF ReactedOn, Screen
    <3>3. ~r.pending /\ r.seq = s
      BY Zenon, <2>3 DEF Is
    <3>4. CASE s \in stale
      BY Zenon, <2>2, <3>2, <3>3, <3>4 DEF Fresh
    <3>5. CASE s \notin stale
      <4>1. Since(feed, Len(feed), cur, s, r, TapsOf(taps, s))
        BY Zenon, <2>1, <2>2, <3>3, <3>5 DEF Fresh
      <4>2. \A z \in Emoji \X Party : z \in TapsOf(taps', s) \/ (z \in q.reacts <=> z \in r.reacts)
        <5>1. \A z : z # <<e, Me>> => (z \in q.reacts <=> z \in r.reacts)
          BY <3>2
        <5>2. QED
          BY Zenon, <1>4, <5>1
      <4>3. Since(feed, Len(feed), cur, s, q, TapsOf(taps', s))
        <5>1. (q.deleted <=> r.deleted) /\ (r.deleted => q.reacts = r.reacts)
          BY <3>2
        <5>2. QED
          BY Zenon, <1>3, <3>2, <4>1, <4>2, <5>1, FreeMoves
      <4>4. QED
        BY Zenon, <2>2, <3>2, <3>3, <4>3 DEF Fresh
    <3>6. QED
      BY <3>4, <3>5
  <2>4. CASE ~Is(r, s)
    <3>1. q = r
      BY Zenon, <2>2, <2>4
    <3>2. CASE r.pending \/ r.seq \in stale
      BY Zenon, <2>1, <2>2, <3>1, <3>2 DEF Fresh
    <3>3. CASE ~r.pending /\ r.seq \notin stale
      <4>1. Since(feed, Len(feed), cur, r.seq, r, TapsOf(taps, r.seq))
        BY Zenon, <2>1, <2>2, <3>3 DEF Fresh
      <4>2. Since(feed, Len(feed), cur, r.seq, q, TapsOf(taps', r.seq))
        BY Zenon, <1>3, <3>1, <4>1, FreeMoves
      <4>3. QED
        BY Zenon, <2>2, <3>1, <3>3, <4>2 DEF Fresh
    <3>4. QED
      BY <3>2, <3>3
  <2>5. QED
    BY <2>3, <2>4
<1>6. DOMAIN next = DOMAIN win
  OBVIOUS
<1> HIDE DEF next
<1>7. \A r \in Elems(win') : Fresh(feed, cur, taps', stale, r)
  BY Zenon, <1>1, <1>5, <1>6 DEF Elems
<1>8. QED
  BY Zenon, <1>1, <1>7 DEF ShownInv

(* Whatever the step, rows show what was delivered.                         *)
LEMMA StepShown ==
  ASSUME IndexInv, ThreadsOk, WinInv, ShownInv, [Next]_vars
  PROVE  ShownInv'
<1>1. FeedOk /\ RowsOk
  BY Zenon DEF IndexInv
<1>2. ASSUME UNCHANGED <<source, index, win, cur, load, taps, stale>>
      PROVE  ShownInv'
  BY Zenon, <1>2 DEF ShownInv, source, index
<1>3. CASE ClientFeed
  <2>1. FeedStep /\ UNCHANGED <<index, win, cur, load, stale>>
    BY Zenon, <1>3 DEF ClientFeed, FeedStep, PostApplied, EditApplied, DeleteApplied, ReactApplied, Apply
  <2>2. QED
    BY Zenon, <1>1, <1>3, <2>1, FeedShown
<1>4. CASE Unattended
  <2>1. UNCHANGED <<win, cur, load, taps, stale>>
    BY Zenon, <1>4 DEF Unattended, client
  <2>2. CASE FeedStep
    <3>1. UNCHANGED index
      BY Zenon, <2>2 DEF FeedStep, PostApplied, EditApplied, DeleteApplied, ReactApplied, Apply
    <3>2. QED
      BY Zenon, <1>1, <2>1, <2>2, <3>1, FeedShown
  <2>3. CASE WalkStep
    <3>1. UNCHANGED <<source, index>>
      BY Zenon, <2>3 DEF WalkStep, TurnPage, OpenWalk
    <3>2. QED
      BY Zenon, <1>2, <2>1, <3>1
  <2>4. QED
    BY Zenon, <1>4, <2>2, <2>3 DEF Unattended
<1>5. CASE IndexOnly
  <2>1. UNCHANGED client /\ (FoldNext("post") \/ FoldNext("edit") \/ FoldNext("delete") \/ FoldNext("react"))
    BY Zenon, <1>5 DEF IndexOnly, Fold, FoldPost, FoldEdit, FoldDelete, FoldReact
  <2>2. QED
    BY Zenon, <1>1, <2>1, FoldShown
<1>6. ASSUME NEW v \in 0..MaxSeq, Open(v)
      PROVE  ShownInv'
  <2>1. /\ view = None /\ cur' \in 0..Len(feed) /\ load' = Asked /\ win' = win /\ taps' = taps /\ stale' = stale
        /\ feed' = feed /\ tip' = tip /\ row' = row
    BY Zenon, <1>6 DEF Open, source, index
  <2>2. win' = <<>> /\ load'.page = None
    BY <2>1 DEF WinInv, Asked
  <2>3. Elems(win') = {}
    BY <2>2 DEF Elems
  <2>4. QED
    BY Zenon, <2>1, <2>2, <2>3 DEF ShownInv
<1>7. CASE Resync
  <2>1. /\ load' = Asked /\ cur' = cur /\ win' = win /\ taps' = taps /\ stale' = stale
        /\ feed' = feed /\ tip' = tip /\ row' = row
    BY Zenon, <1>7 DEF Resync, source, index
  <2>2. load'.page = None
    BY <2>1 DEF Asked
  <2>3. QED
    BY Zenon, <2>1, <2>2 DEF ShownInv
<1>8. CASE Read
  BY Zenon, <1>1, <1>8, ReadShown
<1>9. CASE Land
  BY Zenon, <1>1, <1>9, LandShown
<1>10. CASE Deliver
  BY Zenon, <1>1, <1>10, DeliverShown
<1>11. CASE \E m \in Id : Send(m)
  BY Zenon, <1>1, <1>11, SendShown
<1>12. CASE \E s \in Seqs, e \in Emoji, a \in BOOLEAN : Tap(s, e, a)
  BY Zenon, <1>1, <1>12, TapShown
<1>13. CASE UNCHANGED vars
  <2>1. UNCHANGED <<source, index, win, cur, load, taps, stale>>
    BY Zenon, <1>13 DEF vars, client
  <2>2. QED
    BY <1>2, <2>1
<1>14. QED
  BY Zenon, <1>3, <1>4, <1>5, <1>6, <1>7, <1>8, <1>9, <1>10, <1>11, <1>12, <1>13 DEF Next

(* With everything delivered, rows are the heads the feed makes.            *)
LEMMA ShownMatches ==
  ASSUME FeedOk, WinInv, ShownInv
  PROVE  DrainedMatches
<1> DEFINE N == Len(feed)
           truth == RowsOf(N)
<1> SUFFICES ASSUME view # None, cur = N, NEW i \in DOMAIN win, ~win[i].pending, win[i].seq \notin stale,
                    ~\E x \in taps : x[1] = win[i].seq
             PROVE  win[i] = Shown(truth[win[i].seq], win[i].seq)
  BY Zenon DEF DrainedMatches
<1> HIDE DEF truth
<1>1. PICK r, s : r = win[i] /\ s = r.seq
  OBVIOUS
<1>2. feed \in Seq(Op) /\ N \in Nat /\ N <= N /\ \A j \in 1..N : Follows(feed, j)
  BY DEF FeedOk
<1>3. r \in Screen /\ r \in Elems(win)
  <2>1. win \in Seq(Screen)
    BY Zenon DEF WinInv, WinFits
  <2>2. QED
    BY <1>1, <2>1 DEF Elems
<1>4. Since(feed, N, N, s, r, {})
  <2>1. TapsOf(taps, s) = {}
    <3>1. \A x, y, z : <<x, y, z>>[1] = x
      OBVIOUS
    <3>2. ASSUME NEW z \in TapsOf(taps, s)
          PROVE  FALSE
      BY Zenon, <1>1, <3>1 DEF TapsOf
    <3>3. QED
      BY Zenon, <3>2
  <2>2. Fresh(feed, cur, taps, stale, r)
    BY Zenon, <1>3 DEF ShownInv
  <2>3. Since(feed, Len(feed), cur, s, r, TapsOf(taps, s))
    BY Zenon, <1>1, <2>2 DEF Fresh
  <2>4. QED
    BY Zenon, <2>1, <2>3
<1>5. Exact(feed, N, truth)
  BY Zenon, RowsOfIs DEF ShownInv, truth
<1>6. s \in Seqs /\ \E j \in 1..N : OpOn(feed[j], "post", Room, s)
  <2>1. PICK j \in 1..N : OpOn(feed[j], "post", Room, s)
    BY Zenon, <1>4 DEF Since, Reads, PostedAs
  <2>2. feed[j] \in Op
    BY <1>2
  <2>3. \A x \in Op : x.seq \in Seqs
    BY DEF Op
  <2>4. QED
    BY Zenon, <2>1, <2>2, <2>3 DEF OpOn
<1>7. PICK q : q = truth[s]
  OBVIOUS
<1>8. q # None /\ truth \in Rows /\ Since(feed, N, N, s, q, {})
  BY Zenon, <1>5, <1>6, <1>7 DEF Exact
<1> HIDE DEF N
<1>9. /\ r.id = q.id /\ r.thread = q.thread /\ r.rev = q.rev /\ (r.deleted <=> q.deleted)
      /\ r.body = q.body /\ \A z \in Emoji \X Party : z \in r.reacts <=> z \in q.reacts
  <2>1. N <= Len(feed)
    BY <1>2 DEF N
  <2>2. QED
    BY ONLY Zenon, <1>2, <1>4, <1>8, <2>1, SinceSame
<1>10. r.deleted = q.deleted /\ r.reacts = q.reacts
  <2>1. q \in Row
    BY <1>6, <1>7, <1>8 DEF Rows
  <2>2. r.deleted \in BOOLEAN /\ q.deleted \in BOOLEAN /\ r.reacts \subseteq Emoji \X Party /\ q.reacts \subseteq Emoji \X Party
    BY <1>3, <2>1 DEF Screen, Row
  <2>3. QED
    BY <1>9, <2>2
<1>11. r = Shown(q, s)
  <2>1. ~r.pending
    BY Zenon, <1>1
  <2>2. QED
    BY <1>1, <1>3, <1>9, <1>10, <2>1 DEF Screen, Shown
<1>12. QED
  BY Zenon, <1>1, <1>7, <1>11 DEF N

(* For any window size, channels, messages and reactions: once the stream   *)
(* has delivered the whole feed, every committed row on screen is the row   *)
(* the feed makes of its message, in whatever order pages were read and     *)
(* landed, deltas came and reactions were tapped, but for rows under a tap  *)
(* not applied yet and rows a page took back (client.rs:784-1196).          *)
THEOREM DrainedMatchesHolds == Spec => []DrainedMatches
<1> DEFINE Inv == IndexInv /\ ThreadsOk /\ WinInv /\ ShownInv
<1>1. ClientInit => Inv
  <2>1. ClientInit => WinInv
    BY DEF ClientInit, WinInv
  <2>2. QED
    BY <2>1, InitIndexInv, InitThreadsOk, InitShown
<1>2. Inv /\ [Next]_vars => Inv'
  BY StepIndexInv, StepThreadsOk, StepWinInv, StepShown
<1>3. Inv => DrainedMatches
  BY ShownMatches DEF IndexInv
<1>4. QED
  BY <1>1, <1>2, <1>3, PTL DEF Spec

------------------------------------------------------------------------------
(* The editor mirror.                                                       *)

Text == Seq(Byte)

------------------------------------------------------------------------------
(* Numbers: the least of two and the greatest of a bounded set.             *)

(* The lesser of two numbers.                                              *)
LEMMA MinOfTwo ==
  ASSUME NEW a \in Nat, NEW b \in Nat
  PROVE  Min({a, b}) = IF a <= b THEN a ELSE b
<1> DEFINE m == IF a <= b THEN a ELSE b
<1>1. m \in {a, b} /\ \A y \in {a, b} : m <= y
  OBVIOUS
<1>2. \A x \in {a, b} : (\A y \in {a, b} : x <= y) => x = m
  OBVIOUS
<1> HIDE DEF m
<1>3. QED
  BY <1>1, <1>2 DEF Min, m

(* A set of numbers up to n that is not empty has a greatest one.          *)
LEMMA MaxOfSome ==
  ASSUME NEW n \in Nat, NEW S \in SUBSET (0..n), S # {}
  PROVE  Max(S) \in S /\ \A y \in S : y <= Max(S)
<1> DEFINE T == {k \in Nat : n - k \in S}
<1>1. T # {}
  <2>1. PICK x \in S : TRUE
    OBVIOUS
  <2>2. n - x \in Nat /\ n - (n - x) = x
    BY <2>1
  <2>3. QED
    BY <2>1, <2>2
<1>2. PICK k \in T : \A j \in T : ~ (<<j, k>> \in OpToRel(<, Nat))
  <2> HIDE DEF T
  <2>1. T \subseteq Nat
    BY DEF T
  <2>2. QED
    BY <1>1, <2>1, WFMin, NatLessThanWellFounded
<1>3. \A j \in T : ~ (j < k)
  BY <1>2 DEF OpToRel
<1>4. \A y \in S : y <= n - k
  <2>1. ASSUME NEW y \in S PROVE y <= n - k
    <3>1. n - y \in Nat /\ n - (n - y) = y /\ k \in Nat
      BY <2>1
    <3>2. ~ (n - y < k)
      BY <3>1, <1>3
    <3>3. QED
      BY <3>1, <3>2
  <2>2. QED
    BY <2>1
<1>5. n - k \in S
  OBVIOUS
<1> HIDE DEF T
<1>6. \E x \in S : \A y \in S : x >= y
  BY <1>4, <1>5
<1>7. QED
  BY <1>6 DEF Max

------------------------------------------------------------------------------
(* Texts, their ends and the patch between two of them.                     *)

(* The whole, a beginning and an end of a text.                             *)
LEMMA TextParts ==
  ASSUME NEW t \in Text, NEW n \in 0..Len(t), NEW m \in n..Len(t)
  PROVE  /\ Len(t) \in Nat
         /\ SubSeq(t, n + 1, m) \in Text /\ Len(SubSeq(t, n + 1, m)) = m - n
         /\ SubSeq(t, 1, n) \o SubSeq(t, n + 1, m) = SubSeq(t, 1, m)
         /\ SubSeq(t, 1, Len(t)) = t
<1>1. /\ Len(t) \in Nat /\ n \in Nat /\ m \in Nat /\ n <= m /\ m <= Len(t)
      /\ \A i \in 1..Len(t) : t[i] \in Byte
  BY DEF Text
<1>2. \A i \in n + 1..m : t[i] \in Byte
  BY <1>1
<1>3. SubSeq(t, n + 1, m) \in Text /\ Len(SubSeq(t, n + 1, m)) = m - n
  <2>1. n + 1 \in Int /\ m \in Int
    BY <1>1
  <2>2. /\ SubSeq(t, n + 1, m) \in Seq(Byte)
        /\ Len(SubSeq(t, n + 1, m)) = IF n + 1 <= m THEN m - (n + 1) + 1 ELSE 0
    BY <1>2, <2>1, SubSeqProperties
  <2>3. QED
    BY <1>1, <2>2 DEF Text
<1>4. SubSeq(t, 1, n) \o SubSeq(t, n + 1, m) = SubSeq(t, 1, m)
  <2>1. 1 \in 1..Len(t) + 1 /\ n \in 1 - 1..Len(t) /\ m \in n..Len(t)
    BY <1>1
  <2>2. QED
    BY <2>1, ConcatAdjacentSubSeq DEF Text
<1>5. SubSeq(t, 1, Len(t)) = t
  BY SubSeqFull DEF Text
<1>6. QED
  BY <1>1, <1>3, <1>4, <1>5

(* The ends of a text are boundaries.                                       *)
LEMMA Ends ==
  ASSUME NEW t \in Text
  PROVE  Boundary(t, 0) /\ Boundary(t, Len(t))
<1>1. Len(t) \in Nat
  BY DEF Text
<1>2. QED
  BY <1>1 DEF Boundary

(* A caret at a boundary is where clamping leaves it.                      *)
LEMMA ClampedBoundary ==
  ASSUME NEW t \in Text, NEW at, Boundary(t, at)
  PROVE  Clamped(t, at) = at
<1>1. Len(t) \in Nat /\ at \in 0..Len(t) /\ at \in Nat
  BY DEF Text, Boundary
<1> DEFINE S == {o \in 0..at : Boundary(t, o)}
<1>2. Min({at, Len(t)}) = at
  BY <1>1, MinOfTwo
<1>3. Clamped(t, at) = Max(S)
  BY <1>2 DEF Clamped
<1>4. at \in S /\ S \in SUBSET (0..at)
  BY <1>1
<1> HIDE DEF S
<1>5. Max(S) \in S /\ at <= Max(S)
  BY <1>1, <1>4, MaxOfSome
<1>6. Max(S) \in 0..at
  BY <1>4, <1>5
<1>7. QED
  BY <1>1, <1>3, <1>5, <1>6

(* Both texts begin alike up to the start of the span, and end alike from   *)
(* its end; the two runs do not cross, and neither parts joined bytes.      *)
LEMMA SpanStartIs ==
  ASSUME NEW before \in Text, NEW after \in Text
  PROVE  LET n == SpanStart(before, after) IN
         /\ n \in 0..Len(before) /\ n \in 0..Len(after)
         /\ SubSeq(before, 1, n) = SubSeq(after, 1, n)
         /\ Boundary(before, n) /\ Boundary(after, n)
<1> DEFINE least == Min({Len(before), Len(after)})
           C == {n \in 0..least : SubSeq(before, 1, n) = SubSeq(after, 1, n)}
           c == CommonStart(before, after)
           S == {n \in 0..c : Boundary(before, n) /\ Boundary(after, n)}
           n == SpanStart(before, after)
<1>1. /\ Len(before) \in Nat /\ Len(after) \in Nat
      /\ least \in Nat /\ least <= Len(before) /\ least <= Len(after)
  <2>1. Len(before) \in Nat /\ Len(after) \in Nat
    BY DEF Text
  <2>2. QED
    BY <2>1, MinOfTwo
<1>2. c = Max(C) /\ n = Max(S)
  BY DEF CommonStart, SpanStart
<1> HIDE DEF least, c, n
<1>3. 0 \in C /\ C \in SUBSET (0..least)
  <2>1. SubSeq(before, 1, 0) = <<>> /\ SubSeq(after, 1, 0) = <<>>
    BY SubSeqEmpty
  <2>2. QED
    BY <1>1, <2>1
<1>4. c \in C
  <2> HIDE DEF C
  <2>1. QED
    BY <1>1, <1>2, <1>3, MaxOfSome
<1>5. c \in Nat /\ c <= least /\ SubSeq(before, 1, c) = SubSeq(after, 1, c)
  BY <1>1, <1>4
<1>6. 0 \in S /\ S \in SUBSET (0..c)
  BY <1>5, Ends
<1>7. n \in S
  <2> HIDE DEF S
  <2>1. QED
    BY <1>2, <1>5, <1>6, MaxOfSome
<1>8. n \in 0..c /\ Boundary(before, n) /\ Boundary(after, n)
  BY <1>7
<1>9. n \in 0..Len(before) /\ n \in 0..Len(after)
  BY <1>1, <1>5, <1>8
<1>10. SubSeq(before, 1, n) = SubSeq(after, 1, n)
  <2> DEFINE x == SubSeq(before, 1, c)
             y == SubSeq(after, 1, c)
  <2>1. \A i \in 1..n : before[i] = after[i]
    <3>1. ASSUME NEW i \in 1..n PROVE before[i] = after[i]
      <4>1. i \in 1..c - 1 + 1 /\ 1 + i - 1 = i
        BY <1>5, <1>8
      <4>2. x[i] = before[i] /\ y[i] = after[i]
        BY <1>1, <1>5, <4>1, SubSeqProperties DEF Text
      <4>3. QED
        BY <1>5, <4>2
    <3>2. QED
      BY <3>1
  <2>2. QED
    BY <1>1, <1>8, <1>9, <2>1 DEF Text
<1>11. QED
  BY <1>8, <1>9, <1>10 DEF n

(* The end of a text.                                                       *)
LEMMA SuffixIs ==
  ASSUME NEW t \in Text, NEW n \in 0..Len(t)
  PROVE  /\ Suffix(t, n) \in Text /\ Len(Suffix(t, n)) = n
         /\ \A i \in 1..n : Suffix(t, n)[i] = t[Len(t) - n + i]
<1> DEFINE m == Len(t) - n + 1
<1>1. /\ Len(t) \in Int /\ m \in Int /\ Len(t) - m + 1 = n /\ n \in Nat
      /\ (IF m <= Len(t) THEN Len(t) - m + 1 ELSE 0) = n
      /\ \A i \in 1..n : m + i - 1 = Len(t) - n + i
      /\ \A i \in m..Len(t) : t[i] \in Byte
  BY DEF Text
<1>2. Suffix(t, n) = SubSeq(t, m, Len(t))
  BY DEF Suffix
<1> HIDE DEF m
<1>3. /\ SubSeq(t, m, Len(t)) \in Seq(Byte) /\ Len(SubSeq(t, m, Len(t))) = n
      /\ \A i \in 1..n : SubSeq(t, m, Len(t))[i] = t[m + i - 1]
  BY <1>1, SubSeqProperties
<1>4. QED
  BY <1>1, <1>2, <1>3 DEF Text

(* And the two texts end alike from the end of the span.                    *)
LEMMA SpanEndIs ==
  ASSUME NEW before \in Text, NEW after \in Text,
         NEW start \in 0..Len(before), start <= Len(after)
  PROVE  LET n == SpanEnd(before, after, start) IN
         /\ n \in Nat /\ start + n <= Len(before) /\ start + n <= Len(after)
         /\ Suffix(before, n) = Suffix(after, n)
         /\ Boundary(before, Len(before) - n) /\ Boundary(after, Len(after) - n)
<1> DEFINE lb == Len(before)
           la == Len(after)
           least == Min({lb, la})
           C == {n \in 0..least - start : Suffix(before, n) = Suffix(after, n)}
           c == CommonEnd(before, after, start)
           S == {n \in 0..c : Boundary(before, lb - n) /\ Boundary(after, la - n)}
           n == SpanEnd(before, after, start)
<1>1. /\ lb \in Nat /\ la \in Nat
      /\ least \in Nat /\ least <= lb /\ least <= la /\ least - start \in Nat
  <2>1. lb \in Nat /\ la \in Nat
    BY DEF Text
  <2>2. QED
    BY <2>1, MinOfTwo
<1>2. c = Max(C) /\ n = Max(S)
  BY DEF CommonEnd, SpanEnd
<1> HIDE DEF least, c, n
<1>3. 0 \in C /\ C \in SUBSET (0..least - start)
  <2>1. Suffix(before, 0) = <<>> /\ Suffix(after, 0) = <<>>
    BY <1>1, SubSeqEmpty DEF Suffix
  <2>2. QED
    BY <1>1, <2>1
<1>4. c \in C
  <2> HIDE DEF C
  <2>1. QED
    BY <1>1, <1>2, <1>3, MaxOfSome
<1>5. c \in Nat /\ c <= lb /\ c <= la /\ start + c <= lb /\ start + c <= la
  BY <1>1, <1>4
<1>6. Suffix(before, c) = Suffix(after, c)
  BY <1>4
<1>7. 0 \in S /\ S \in SUBSET (0..c)
  <2>1. lb - 0 = lb /\ la - 0 = la
    BY <1>1
  <2>2. QED
    BY <1>5, <2>1, Ends
<1>8. n \in S
  <2> HIDE DEF S
  <2>1. QED
    BY <1>2, <1>5, <1>7, MaxOfSome
<1>9. n \in 0..c /\ Boundary(before, lb - n) /\ Boundary(after, la - n)
  BY <1>8
<1>10. Suffix(before, n) = Suffix(after, n)
  <2>1. /\ n \in 0..lb /\ n \in 0..la /\ c \in 0..lb /\ c \in 0..la
        /\ \A i \in 1..n : /\ c - n + i \in 1..c
                            /\ lb - c + (c - n + i) = lb - n + i
                            /\ la - c + (c - n + i) = la - n + i
    BY <1>1, <1>5, <1>9
  <2>2. /\ \A i \in 1..c : Suffix(before, c)[i] = before[lb - c + i]
        /\ \A i \in 1..c : Suffix(after, c)[i] = after[la - c + i]
    BY <2>1, SuffixIs
  <2>3. ASSUME NEW i \in 1..n PROVE before[lb - n + i] = after[la - n + i]
    <3>1. before[lb - c + (c - n + i)] = after[la - c + (c - n + i)]
      BY <1>6, <2>1, <2>2
    <3>2. QED
      BY <2>1, <3>1
  <2>4. /\ Suffix(before, n) \in Seq(Byte) /\ Suffix(after, n) \in Seq(Byte)
        /\ Len(Suffix(before, n)) = n /\ Len(Suffix(after, n)) = n
        /\ \A i \in 1..n : Suffix(before, n)[i] = before[lb - n + i]
        /\ \A i \in 1..n : Suffix(after, n)[i] = after[la - n + i]
    BY <2>1, SuffixIs DEF Text
  <2>5. QED
    BY <2>3, <2>4, SeqEqual
<1>11. n \in Nat /\ start + n <= lb /\ start + n <= la
  BY <1>1, <1>5, <1>9
<1>12. QED
  BY <1>9, <1>10, <1>11 DEF n

------------------------------------------------------------------------------
(* Patches.                                                                 *)

IsBatch(f, text, patches) ==
  f = [i \in 0..Len(patches) |->
         IF i = 0 THEN [out |-> <<>>, at |-> 0]
         ELSE [out |-> f[i - 1].out \o SubSeq(text, f[i - 1].at + 1, patches[i].from) \o patches[i].with,
               at |-> patches[i].to]]

(* No patch leaves a text as it is.                                         *)
LEMMA PatchedByNone ==
  ASSUME NEW text \in Text
  PROVE  PatchedText(text, <<>>) = text
<1> DEFINE f == CHOOSE f : IsBatch(f, text, <<>>)
           g == [i \in 0..0 |-> [out |-> <<>>, at |-> 0]]
<1>1. Len(<<>>) = 0
  OBVIOUS
<1>2. IsBatch(g, text, <<>>)
  BY <1>1 DEF IsBatch
<1>3. IsBatch(f, text, <<>>)
  <2> HIDE DEF g
  <2>1. QED
    BY <1>2
<1>4. Patched(text, <<>>) = f[0]
  BY <1>1 DEF Patched, IsBatch
<1> HIDE DEF f
<1>5. f[0] = [out |-> <<>>, at |-> 0]
  BY <1>1, <1>3 DEF IsBatch
<1>6. PatchedText(text, <<>>) = <<>> \o SubSeq(text, 0 + 1, Len(text))
  BY <1>4, <1>5 DEF PatchedText
<1>7. SubSeq(text, 1, Len(text)) = text /\ <<>> \o text = text
  BY SubSeqFull, ConcatEmptySeq DEF Text
<1>8. QED
  BY <1>6, <1>7

(* One patch is written between what stands before and behind it.           *)
LEMMA PatchedByOne ==
  ASSUME NEW text \in Text, NEW p
  PROVE  PatchedText(text, <<p>>)
           = ((<<>> \o SubSeq(text, 0 + 1, p.from)) \o p.with) \o SubSeq(text, p.to + 1, Len(text))
<1> DEFINE q == <<p>>
           f == CHOOSE f : IsBatch(f, text, q)
           none == [out |-> <<>>, at |-> 0]
           one == [out |-> none.out \o SubSeq(text, none.at + 1, p.from) \o p.with, at |-> p.to]
           g == [i \in 0..1 |-> IF i = 0 THEN none ELSE one]
<1>1. Len(q) = 1 /\ q[1] = p
  OBVIOUS
<1> HIDE DEF q
<1>2. IsBatch(g, text, q)
  <2>1. g[0] = none /\ g[1] = one
    OBVIOUS
  <2> HIDE DEF one, none
  <2>2. ASSUME NEW i \in 0..1
        PROVE  g[i] = IF i = 0 THEN none
                      ELSE [out |-> g[i - 1].out \o SubSeq(text, g[i - 1].at + 1, q[i].from) \o q[i].with,
                            at |-> q[i].to]
    <3>1. CASE i = 0
      BY <2>1, <3>1
    <3>2. CASE i = 1
      <4>1. i # 0 /\ i - 1 = 0
        BY <3>2
      <4>2. g[i - 1] = none /\ g[i] = one /\ q[i] = p
        BY <1>1, <2>1, <3>2, <4>1
      <4>3. QED
        BY Zenon, <4>1, <4>2 DEF one
    <3>3. i = 0 \/ i = 1
      <4> HIDE DEF g
      <4>1. QED
        OBVIOUS
    <3>4. QED
      BY Zenon, <3>1, <3>2, <3>3
  <2>3. QED
    BY <1>1, <2>2 DEF IsBatch, none
<1>3. IsBatch(f, text, q)
  <2> HIDE DEF g
  <2>1. QED
    BY <1>2
<1>4. Patched(text, q) = f[1]
  BY <1>1 DEF Patched, IsBatch
<1> HIDE DEF f
<1>5. /\ f[0] = none
      /\ f[1] = [out |-> f[1 - 1].out \o SubSeq(text, f[1 - 1].at + 1, q[1].from) \o q[1].with,
                 at |-> q[1].to]
  <2>1. 0 \in 0..Len(q) /\ 1 \in 0..Len(q) /\ 1 # 0
    BY <1>1
  <2>2. f[0] = none
    BY <2>1, <1>3 DEF IsBatch
  <2>3. f = [i \in 0..Len(q) |->
              IF i = 0 THEN none
              ELSE [out |-> f[i - 1].out \o SubSeq(text, f[i - 1].at + 1, q[i].from) \o q[i].with,
                    at |-> q[i].to]]
    BY Zenon, <1>3 DEF IsBatch
  <2>4. QED
    BY Zenon, <2>1, <2>2, <2>3
<1>6. /\ f[1].out = f[0].out \o SubSeq(text, f[0].at + 1, p.from) \o p.with
      /\ f[1].at = p.to
  <2>1. 1 - 1 = 0
    OBVIOUS
  <2>2. f[1] = [out |-> f[0].out \o SubSeq(text, f[0].at + 1, p.from) \o p.with, at |-> p.to]
    BY Zenon, <1>1, <1>5, <2>1
  <2> DEFINE o == f[0].out \o SubSeq(text, f[0].at + 1, p.from) \o p.with
  <2> HIDE DEF o
  <2>3. f[1] = [out |-> o, at |-> p.to]
    BY <2>2 DEF o
  <2>4. f[1].out = o /\ f[1].at = p.to
    BY <2>3
  <2>5. QED
    BY <2>4 DEF o
<1>7. PatchedText(text, q)
        = ((<<>> \o SubSeq(text, 0 + 1, p.from)) \o p.with) \o SubSeq(text, p.to + 1, Len(text))
  <2>1. f[0].out = <<>> /\ f[0].at = 0
    BY <1>5
  <2>2. QED
    BY Zenon, <1>4, <1>6, <2>1 DEF PatchedText
<1>8. QED
  BY <1>7 DEF q

(* The changed span, patched into the text before, makes the text after; it *)
(* starts and ends where both sides can select.                             *)
LEMMA SpanExact ==
  ASSUME NEW before \in Text, NEW after \in Text, NEW at, Boundary(after, at)
  PROVE  /\ PatchedText(before, ChangedSpan(before, after)) = after
         /\ PatchFits(before, ChangedSpan(before, after), at)
         /\ ChangedSpan(before, after) \in Seq([from : Nat, to : Nat, with : Text])
<1> DEFINE patches == ChangedSpan(before, after)
           start == SpanStart(before, after)
           tail == SpanEnd(before, after, start)
           lb == Len(before)
           la == Len(after)
           with == SubSeq(after, start + 1, la - tail)
           p == [from |-> start, to |-> lb - tail, with |-> with]
<1>1. lb \in Nat /\ la \in Nat
  BY DEF Text
<1>2. CASE before = after
  <2>1. patches = <<>>
    BY <1>2 DEF ChangedSpan
  <2>2. PatchedText(before, patches) = after
    BY <1>2, <2>1, PatchedByNone
  <2>3. DOMAIN patches = {}
    BY <2>1
  <2>4. Clamped(after, at) = at
    BY ClampedBoundary
  <2>5. patches \in Seq([from : Nat, to : Nat, with : Text])
    BY <2>1
  <2> HIDE DEF patches
  <2>6. QED
    BY <2>2, <2>3, <2>4, <2>5 DEF PatchFits, patches
<1>3. CASE before # after
  <2>1. patches = <<p>>
    BY Zenon, <1>3 DEF ChangedSpan
  <2>2. /\ start \in 0..lb /\ start \in 0..la
        /\ SubSeq(before, 1, start) = SubSeq(after, 1, start)
        /\ Boundary(before, start)
    BY SpanStartIs
  <2> HIDE DEF start
  <2>3. start \in Nat /\ start <= lb /\ start <= la
    BY <1>1, <2>2
  <2>4. /\ tail \in Nat /\ start + tail <= lb /\ start + tail <= la
        /\ Suffix(before, tail) = Suffix(after, tail)
        /\ Boundary(before, lb - tail)
    BY <2>2, <2>3, SpanEndIs
  <2> HIDE DEF tail
  <2>5. p.from = start /\ p.to = lb - tail /\ p.with = with
    OBVIOUS
  <2> HIDE DEF p
  <2>6. PatchedText(before, patches)
          = ((<<>> \o SubSeq(before, 1, start)) \o with) \o SubSeq(before, lb - tail + 1, lb)
    <3>1. PatchedText(before, <<p>>)
            = ((<<>> \o SubSeq(before, 0 + 1, p.from)) \o p.with) \o SubSeq(before, p.to + 1, lb)
      BY PatchedByOne
    <3>2. 0 + 1 = 1
      OBVIOUS
    <3>3. QED
      BY Zenon, <2>1, <2>5, <3>1, <3>2
  <2>7. SubSeq(before, lb - tail + 1, lb) = SubSeq(after, la - tail + 1, la)
    BY <2>4 DEF Suffix
  <2>8. <<>> \o SubSeq(before, 1, start) = SubSeq(after, 1, start)
    <3>1. SubSeq(after, 0 + 1, start) \in Text /\ 0 + 1 = 1
      BY <1>1, <2>3, TextParts
    <3>2. QED
      BY <2>2, <3>1, ConcatEmptySeq DEF Text
  <2>9. SubSeq(after, 1, start) \o with = SubSeq(after, 1, la - tail)
    <3>1. start \in 0..la /\ la - tail \in start..la
      BY <1>1, <2>3, <2>4
    <3>2. QED
      BY <3>1, TextParts
  <2>10. SubSeq(after, 1, la - tail) \o SubSeq(after, la - tail + 1, la) = after
    <3>1. la - tail \in 0..la /\ la \in la - tail..la
      BY <1>1, <2>3, <2>4
    <3>2. QED
      BY <3>1, TextParts
  <2>11. PatchedText(before, patches) = after
    BY Zenon, <2>6, <2>7, <2>8, <2>9, <2>10
  <2>12. /\ DOMAIN patches = {1} /\ patches[1].from = start /\ patches[1].to = lb - tail
         /\ start <= lb - tail
    BY <1>1, <2>1, <2>3, <2>4, <2>5
  <2>13. Clamped(after, at) = at
    BY ClampedBoundary
  <2>14. patches \in Seq([from : Nat, to : Nat, with : Text])
    <3>1. start \in 0..la /\ la - tail \in start..la /\ start \in Nat /\ lb - tail \in Nat
      BY <1>1, <2>3, <2>4
    <3>2. with \in Text
      BY <3>1, TextParts
    <3> HIDE DEF with
    <3>3. p \in [from : Nat, to : Nat, with : Text]
      BY <3>1, <3>2 DEF p
    <3> DEFINE P == [from : Nat, to : Nat, with : Text]
    <3> HIDE DEF P
    <3>4. p \in P
      BY Zenon, <3>3 DEF P
    <3>5. <<p>> \in Seq(P)
      BY <3>4
    <3>6. QED
      BY Zenon, <2>1, <3>5 DEF P
  <2> HIDE DEF patches, with, lb, la
  <2>15. \A i \in DOMAIN patches :
           /\ patches[i].from <= patches[i].to
           /\ i > 1 => patches[i - 1].to <= patches[i].from
           /\ Boundary(before, patches[i].from) /\ Boundary(before, patches[i].to)
    BY <2>2, <2>4, <2>12
  <2>16. QED
    BY <2>11, <2>13, <2>15, <2>14 DEF PatchFits, patches
<1>4. QED
  BY <1>2, <1>3

(* A caret that moves within its text.                                      *)
LEMMA CaretExact ==
  ASSUME NEW text \in Text, NEW at, Boundary(text, at)
  PROVE  PatchedText(text, <<>>) = text /\ PatchFits(text, <<>>, at)
<1>1. PatchedText(text, <<>>) = text
  BY PatchedByNone
<1>2. Clamped(text, at) = at
  BY ClampedBoundary
<1>3. DOMAIN <<>> = {}
  OBVIOUS
<1>4. QED
  BY <1>1, <1>2, <1>3 DEF PatchFits

------------------------------------------------------------------------------
(* The inductive invariant.  A reference names a text of the owner's and    *)
(* its length.  A commit on the wire leads from one such text to another.   *)
(* Whatever carries the id of the mirror's transfer - the request, the      *)
(* sender, a chunk on the wire - is about the transfer's own target, since  *)
(* an id is made once and the sender aborts when its target is no longer    *)
(* the document; so what the mirror has assembled begins the target's text. *)

Ref == [textRevision : Nat, revision : Nat, cursor : Nat, byteLen : Nat]
Patch == [from : Nat, to : Nat, with : Text]

Message ==
       [type : {"commit"}, before : Ref, after : Ref, patches : Seq(Patch)]
  \cup [type : {"begin"}, id : Nat, target : Ref]
  \cup [type : {"chunk"}, id : Nat, index : Nat, bytes : Text]
  \cup [type : {"complete", "abort"}, id : Nat]

Names(ts, ref) ==
  ref \in Ref /\ ref.textRevision \in 1..Len(ts) /\ ref.byteLen = Len(ts[ref.textRevision])

\* The i-th chunk of a text, from 0, and the chunks before it.
Piece(t, i) == SubSeq(t, i * Chunk + 1, Min({i * Chunk + Chunk, Len(t)}))
Pieces(t, i) == SubSeq(t, 1, Min({i * Chunk, Len(t)}))

Leads(ts, m) ==
  /\ Names(ts, m.before) /\ Names(ts, m.after)
  /\ PatchFits(ts[m.before.textRevision], m.patches, m.after.cursor)
  /\ PatchedText(ts[m.before.textRevision], m.patches) = ts[m.after.textRevision]

\* What a message says that is on the wire while transfer r is under way and
\* n is the last id.
Carried(ts, r, n, m) ==
  /\ m.type = "commit" => Leads(ts, m)
  /\ m.type # "commit" => m.id <= n
  /\ (m.type = "chunk" /\ r # NoTransfer /\ m.id = r.id)
       => m.bytes = Piece(ts[r.target.textRevision], m.index)

OwnerOk ==
  /\ texts \in Seq(Text) /\ Len(texts) # 0
  /\ revision \in Nat /\ serial \in Nat
  /\ caret \in Nat /\ Boundary(Last(texts), caret)

MirrorOk ==
  mirror # NoMirror => Names(texts, mirror.ref) /\ mirror.text = texts[mirror.ref.textRevision]

\* The request or the sender, x, of one transfer, and the receiver r of one.
Asks(ts, r, n, x) ==
  /\ x.id \in Nat /\ x.id <= n /\ Names(ts, x.target)
  /\ r # NoTransfer /\ x.id = r.id => x.target = r.target

RequestOk ==
  request # NoTransfer => Asks(texts, receiver, serial, request)

SenderOk ==
  sender # NoTransfer =>
    /\ sender \in [id : Nat, target : Ref, stage : {"begin", "chunk"}, index : Nat]
    /\ Asks(texts, receiver, serial, sender)

ReceiverOk ==
  receiver # NoTransfer =>
    /\ receiver \in [id : Nat, target : Ref, bytes : Text, next : Nat, begun : BOOLEAN]
    /\ receiver.id <= serial /\ Names(texts, receiver.target)
    /\ receiver.bytes = Pieces(texts[receiver.target.textRevision], receiver.next)

WireOk ==
  /\ wire \in Seq(Message)
  /\ \A i \in DOMAIN wire : Carried(texts, receiver, serial, wire[i])

MirrorInv == OwnerOk /\ MirrorOk /\ RequestOk /\ SenderOk /\ ReceiverOk /\ WireOk

------------------------------------------------------------------------------
(* Chunks.                                                                  *)

(* The chunks before the first, the chunks before the next, and all.        *)
LEMMA PiecesAre ==
  ASSUME NEW t \in Text, NEW i \in Nat
  PROVE  /\ Pieces(t, 0) = <<>>
         /\ Pieces(t, i) \in Text
         /\ Len(Pieces(t, i)) = Len(t) => Pieces(t, i) = t
         /\ Len(Pieces(t, i)) < Len(t) => Pieces(t, i) \o Piece(t, i) = Pieces(t, i + 1)
<1> DEFINE l == Len(t)
           k == i * Chunk
<1>1. l \in Nat /\ k \in Nat /\ Chunk \in Nat /\ 0 * Chunk = 0 /\ (i + 1) * Chunk = k + Chunk
  BY EditorBounds DEF Text
<1> HIDE DEF k
<1>2. Pieces(t, 0) = <<>>
  <2>1. Min({0, l}) = 0
    BY <1>1, MinOfTwo
  <2>2. SubSeq(t, 1, 0) = <<>>
    BY SubSeqEmpty
  <2>3. Pieces(t, 0) = SubSeq(t, 1, Min({0, l}))
    BY Zenon, <1>1 DEF Pieces
  <2>4. QED
    BY Zenon, <2>1, <2>2, <2>3
<1> DEFINE a == IF k <= l THEN k ELSE l
           b == IF k + Chunk <= l THEN k + Chunk ELSE l
<1>3. Min({k, l}) = a /\ Min({k + Chunk, l}) = b
  BY <1>1, MinOfTwo
<1>4. /\ a \in 0..l /\ b \in a..l /\ a - 0 = a
      /\ a < l => a = k
  BY <1>1
<1> HIDE DEF a, b
<1>5. Pieces(t, i) = SubSeq(t, 1, a)
  BY <1>3 DEF Pieces, k
<1>6. Pieces(t, i + 1) = SubSeq(t, 1, b)
  BY <1>1, <1>3 DEF Pieces
<1>7. Piece(t, i) = SubSeq(t, k + 1, b)
  BY <1>3 DEF Piece, k
<1>8. SubSeq(t, 1, a) \in Text /\ Len(SubSeq(t, 1, a)) = a
  <2>1. 0 \in 0..l /\ a \in 0..l /\ 0 + 1 = 1
    BY <1>1, <1>4
  <2>2. QED
    BY <1>4, <2>1, TextParts
<1>9. /\ SubSeq(t, 1, l) = t
      /\ SubSeq(t, 1, a) \o SubSeq(t, a + 1, b) = SubSeq(t, 1, b)
  BY <1>4, TextParts
<1>10. QED
  BY <1>2, <1>4, <1>5, <1>6, <1>7, <1>8, <1>9

------------------------------------------------------------------------------
(* What a step leaves true.                                                 *)

(* A text added to the owner's texts takes no name from another.            *)
LEMMA NamesKept ==
  ASSUME NEW ts \in Seq(Text), NEW t \in Text
  PROVE  LET more == Append(ts, t) IN
         /\ more \in Seq(Text) /\ Len(more) = Len(ts) + 1 /\ more[Len(ts) + 1] = t
         /\ \A ref : Names(ts, ref) => Names(more, ref) /\ more[ref.textRevision] = ts[ref.textRevision]
         /\ \A m : Leads(ts, m) => Leads(more, m)
<1> DEFINE more == Append(ts, t)
<1>1. /\ more \in Seq(Text) /\ Len(more) = Len(ts) + 1 /\ more[Len(ts) + 1] = t
      /\ \A i \in 1..Len(ts) : more[i] = ts[i]
      /\ Len(ts) \in Nat
  OBVIOUS
<1> HIDE DEF more
<1>2. ASSUME NEW ref, Names(ts, ref)
      PROVE  Names(more, ref) /\ more[ref.textRevision] = ts[ref.textRevision]
  <2>1. ref.textRevision \in 1..Len(ts) /\ ref.textRevision \in 1..Len(more)
    BY <1>1, <1>2 DEF Names
  <2>2. QED
    BY <1>1, <1>2, <2>1 DEF Names
<1>3. ASSUME NEW m, Leads(ts, m)
      PROVE  Leads(more, m)
  BY <1>2, <1>3 DEF Leads
<1>4. QED
  BY <1>1, <1>2, <1>3 DEF more

(* A transfer that ends or goes on under its id and target.                 *)
Keeps(r, r2) ==
  r2 # NoTransfer => r # NoTransfer /\ r2.id = r.id /\ r2.target = r.target

(* What was true of its messages, its request and its sender still is, also *)
(* when the owner has a text more.                                          *)
LEMMA TransferKept ==
  ASSUME NEW ts \in Seq(Text), NEW t \in Text, NEW r, NEW r2, NEW n, Keeps(r, r2)
  PROVE  /\ \A m : Carried(ts, r, n, m) => Carried(ts, r2, n, m)
         /\ \A x : Asks(ts, r, n, x) => Asks(ts, r2, n, x)
         /\ (r # NoTransfer => Names(ts, r.target))
              => \A m : Carried(ts, r, n, m) => Carried(Append(ts, t), r, n, m)
         /\ \A x : Asks(ts, r, n, x) => Asks(Append(ts, t), r, n, x)
<1>1. ASSUME NEW m, Carried(ts, r, n, m)
      PROVE  Carried(ts, r2, n, m)
  <2>1. QED
    BY Zenon, <1>1 DEF Carried, Keeps
<1>2. ASSUME NEW x, Asks(ts, r, n, x)
      PROVE  Asks(ts, r2, n, x)
  BY Zenon, <1>2 DEF Asks, Keeps
<1>3. ASSUME NEW m, Carried(ts, r, n, m), r # NoTransfer => Names(ts, r.target)
      PROVE  Carried(Append(ts, t), r, n, m)
  <2> DEFINE more == Append(ts, t)
  <2>1. m.type = "commit" => Leads(more, m)
    BY Zenon, <1>3, NamesKept DEF Carried
  <2>2. ASSUME r # NoTransfer
        PROVE  more[r.target.textRevision] = ts[r.target.textRevision]
    <3>1. Names(ts, r.target)
      BY Zenon, <1>3, <2>2
    <3>2. \A ref : Names(ts, ref) => Names(more, ref) /\ more[ref.textRevision] = ts[ref.textRevision]
      BY NamesKept
    <3> HIDE DEF more
    <3>3. QED
      BY Zenon, <3>1, <3>2
  <2> HIDE DEF more
  <2>3. Carried(more, r, n, m)
    BY Zenon, <1>3, <2>1, <2>2 DEF Carried
  <2>4. QED
    BY <2>3 DEF more
<1>4. ASSUME NEW x, Asks(ts, r, n, x)
      PROVE  Asks(Append(ts, t), r, n, x)
  <2> DEFINE more == Append(ts, t)
  <2>1. Names(more, x.target)
    BY Zenon, <1>4, NamesKept DEF Asks
  <2> HIDE DEF more
  <2>2. Asks(more, r, n, x)
    BY Zenon, <1>4, <2>1 DEF Asks
  <2>3. QED
    BY <2>2 DEF more
<1>5. QED
  BY Zenon, <1>1, <1>2, <1>3, <1>4

(* A message sent joins those on the wire; the first taken leaves the rest. *)
LEMMA WireStep ==
  ASSUME NEW ts, NEW r, NEW n, NEW w \in Seq(Message),
         \A i \in DOMAIN w : Carried(ts, r, n, w[i])
  PROVE  /\ \A m \in Message : Carried(ts, r, n, m) =>
              /\ Append(w, m) \in Seq(Message)
              /\ \A i \in DOMAIN Append(w, m) : Carried(ts, r, n, Append(w, m)[i])
         /\ w # <<>> =>
              /\ Head(w) \in Message /\ Carried(ts, r, n, Head(w))
              /\ Tail(w) \in Seq(Message)
              /\ \A i \in DOMAIN Tail(w) : Carried(ts, r, n, Tail(w)[i])
<1>1. Len(w) \in Nat /\ DOMAIN w = 1..Len(w)
  OBVIOUS
<1>2. ASSUME NEW m \in Message, Carried(ts, r, n, m)
      PROVE  /\ Append(w, m) \in Seq(Message)
             /\ \A i \in DOMAIN Append(w, m) : Carried(ts, r, n, Append(w, m)[i])
  <2>1. /\ Append(w, m) \in Seq(Message) /\ DOMAIN Append(w, m) = 1..Len(w) + 1
        /\ Append(w, m)[Len(w) + 1] = m
        /\ \A i \in 1..Len(w) : Append(w, m)[i] = w[i]
    BY AppendProperties
  <2>2. \A i \in 1..Len(w) + 1 : i \in 1..Len(w) \/ i = Len(w) + 1
    BY <1>1
  <2>3. QED
    BY Zenon, <1>1, <1>2, <2>1, <2>2
<1>3. ASSUME w # <<>>
      PROVE  /\ Head(w) \in Message /\ Carried(ts, r, n, Head(w))
             /\ Tail(w) \in Seq(Message)
             /\ \A i \in DOMAIN Tail(w) : Carried(ts, r, n, Tail(w)[i])
  <2>1. 1 \in 1..Len(w) /\ Head(w) = w[1] /\ w[1] \in Message
    BY <1>1, <1>3, EmptySeq
  <2>2. /\ Tail(w) \in Seq(Message)
        /\ Len(Tail(w)) = Len(w) - 1 /\ DOMAIN Tail(w) = 1..Len(Tail(w))
        /\ \A i \in 1..Len(Tail(w)) : Tail(w)[i] = w[i + 1]
    BY <1>1, <1>3, HeadTailProperties
  <2>3. \A i \in 1..Len(Tail(w)) : i + 1 \in 1..Len(w)
    BY <1>1, <2>2
  <2>4. QED
    BY Zenon, <1>1, <2>1, <2>2, <2>3
<1>4. QED
  BY <1>2, <1>3

------------------------------------------------------------------------------
(* The steps.                                                               *)

(* It holds at the start, whether the mirror begins with the text or not.   *)
LEMMA InitMirrorInv ==
  MirrorInit => MirrorInv
<1> SUFFICES ASSUME MirrorInit
             PROVE  MirrorInv
  OBVIOUS
<1>1. PICK text \in Texts :
        texts = <<text>> /\ mirror \in {NoMirror, [ref |-> Reference(1, 0, 0, text), text |-> text]}
  BY DEF MirrorInit
<1>2. text \in Text /\ Len(text) \in Nat
  BY EditorBounds DEF Text
<1>3. /\ texts \in Seq(Text) /\ Len(texts) = 1 /\ texts[1] = text
  BY <1>1, <1>2
<1>4. OwnerOk
  <2>1. Last(texts) = text
    BY <1>3 DEF Last
  <2>2. QED
    BY <1>2, <1>3, <2>1, Ends DEF OwnerOk, MirrorInit
<1>5. MirrorOk
  <2>1. ASSUME mirror # NoMirror
        PROVE  Names(texts, mirror.ref) /\ mirror.text = texts[mirror.ref.textRevision]
    <3> DEFINE r == [textRevision |-> 1, revision |-> 0, cursor |-> 0, byteLen |-> Len(text)]
    <3>1. mirror = [ref |-> r, text |-> text]
      BY Zenon, <1>1, <2>1 DEF Reference
    <3>2. r \in Ref /\ r.textRevision = 1 /\ r.byteLen = Len(text)
      BY <1>2 DEF Ref
    <3> HIDE DEF r
    <3>3. mirror.ref = r /\ mirror.text = text
      BY <3>1
    <3>4. QED
      BY <1>3, <3>2, <3>3 DEF Names
  <2>2. QED
    BY Zenon, <2>1 DEF MirrorOk
<1>6. wire = <<>> /\ DOMAIN wire = {} /\ wire \in Seq(Message)
  BY DEF MirrorInit
<1>7. RequestOk /\ SenderOk /\ ReceiverOk /\ WireOk
  BY Zenon, <1>6 DEF MirrorInit, RequestOk, SenderOk, ReceiverOk, WireOk
<1>8. QED
  BY Zenon, <1>4, <1>5, <1>7 DEF MirrorInv

(* The reference of the document as it stands.                              *)
LEMMA CurrentNames ==
  ASSUME OwnerOk
  PROVE  /\ Names(texts, Current) /\ Current.textRevision = Len(texts)
         /\ Last(texts) = texts[Len(texts)] /\ Last(texts) \in Text
         /\ Len(texts) \in Nat /\ Current.revision = revision
<1> DEFINE l == Len(texts)
<1>1. l \in Nat /\ l \in 1..l /\ texts[l] \in Text /\ Last(texts) = texts[l]
  BY DEF OwnerOk, Last
<1>2. Len(texts[l]) \in Nat
  BY <1>1 DEF Text
<1>3. Current = [textRevision |-> l, revision |-> revision, cursor |-> caret, byteLen |-> Len(texts[l])]
  BY Zenon, <1>1 DEF Current, Reference
<1>4. revision \in Nat /\ caret \in Nat
  BY DEF OwnerOk
<1> HIDE DEF l
<1>5. /\ Current \in Ref /\ Current.textRevision = l /\ Current.byteLen = Len(texts[l])
      /\ Current.revision = revision
  BY <1>1, <1>2, <1>3, <1>4 DEF Ref
<1>6. QED
  BY <1>1, <1>5 DEF Names, l

(* An edit sends the commit that leads to the new text.                     *)
LEMMA EditInv ==
  ASSUME MirrorInv, NEW text \in Texts, NEW at \in 0..Len(text), Edit(text, at)
  PROVE  MirrorInv'
<1> DEFINE l == Len(texts)
           more == Append(texts, text)
           after == Reference(l + 1, revision + 1, at, text)
           m == Commit(Current, after, ChangedSpan(Last(texts), text))
<1>1. /\ OwnerOk /\ MirrorOk /\ RequestOk /\ SenderOk /\ ReceiverOk /\ WireOk
  BY DEF MirrorInv
<1>2. /\ texts' = more /\ revision' = revision + 1 /\ caret' = at /\ Boundary(text, at)
      /\ wire' = Append(wire, m)
      /\ sender' = sender /\ mirror' = mirror /\ receiver' = receiver
      /\ request' = request /\ serial' = serial
  BY Zenon DEF Edit, Transmit
<1>3. text \in Text /\ Len(text) \in Nat /\ at \in Nat
  BY EditorBounds DEF Text
<1>4. /\ Names(texts, Current) /\ Current.textRevision = l
      /\ Last(texts) = texts[l] /\ Last(texts) \in Text /\ l \in Nat
  BY <1>1, CurrentNames
<1>5. texts \in Seq(Text) /\ serial \in Nat /\ revision \in Nat
  BY <1>1 DEF OwnerOk
<1>6. /\ more \in Seq(Text) /\ Len(more) = l + 1 /\ more[l + 1] = text
      /\ \A ref : Names(texts, ref) => Names(more, ref) /\ more[ref.textRevision] = texts[ref.textRevision]
      /\ \A c : Leads(texts, c) => Leads(more, c)
  BY <1>3, <1>5, NamesKept
<1> HIDE DEF more
<1>7. OwnerOk'
  <2>1. Last(more) = text
    BY <1>6 DEF Last
  <2>2. QED
    BY <1>2, <1>3, <1>4, <1>5, <1>6, <2>1 DEF OwnerOk
<1>8. MirrorOk'
  BY Zenon, <1>1, <1>2, <1>6 DEF MirrorOk
<1>9. Keeps(receiver, receiver)
  BY Zenon DEF Keeps
<1>10. /\ \A x : Asks(texts, receiver, serial, x) => Asks(more, receiver, serial, x)
       /\ \A c : Carried(texts, receiver, serial, c) => Carried(more, receiver, serial, c)
  <2>1. receiver # NoTransfer => Names(texts, receiver.target)
    BY Zenon, <1>1 DEF ReceiverOk
  <2>2. QED
    BY Zenon, <1>3, <1>5, <1>9, <2>1, TransferKept DEF more
<1>11. RequestOk' /\ SenderOk'
  BY Zenon, <1>1, <1>2, <1>10 DEF RequestOk, SenderOk
<1>12. ReceiverOk'
  BY Zenon, <1>1, <1>2, <1>6 DEF ReceiverOk
<1>13. WireOk'
  <2>1. after \in Ref /\ after.textRevision = l + 1 /\ after.byteLen = Len(text) /\ after.cursor = at
    BY <1>3, <1>4, <1>5 DEF Reference, Ref
  <2> HIDE DEF after
  <2>2. Names(more, after) /\ more[after.textRevision] = text
    BY <1>4, <1>6, <2>1 DEF Names
  <2> DEFINE patches == ChangedSpan(Last(texts), text)
  <2>3. /\ PatchedText(Last(texts), patches) = text
        /\ PatchFits(Last(texts), patches, at)
        /\ patches \in Seq(Patch)
    BY <1>2, <1>3, <1>4, SpanExact DEF Patch
  <2>4. Names(more, Current) /\ more[Current.textRevision] = Last(texts) /\ Current \in Ref
    BY Zenon, <1>4, <1>6 DEF Names
  <2>5. m = [type |-> "commit", before |-> Current, after |-> after, patches |-> patches]
    BY Zenon DEF Commit
  <2> HIDE DEF patches, m
  <2> DEFINE now == Current
  <2>6. m = [type |-> "commit", before |-> now, after |-> after, patches |-> patches] /\ now \in Ref
    BY Zenon, <2>4, <2>5
  <2> HIDE DEF now
  <2>7. m \in Message /\ m.type = "commit" /\ m.before = now /\ m.after = after /\ m.patches = patches
    BY <2>1, <2>3, <2>6 DEF Message
  <2>8. Leads(more, m)
    BY Zenon, <2>1, <2>2, <2>3, <2>4, <2>7 DEF Leads, now
  <2>9. Carried(more, receiver, serial, m)
    BY <2>7, <2>8 DEF Carried
  <2>10. wire \in Seq(Message) /\ \A i \in DOMAIN wire : Carried(more, receiver, serial, wire[i])
    BY Zenon, <1>1, <1>10 DEF WireOk
  <2>11. wire' \in Seq(Message) /\ \A i \in DOMAIN wire' : Carried(more, receiver, serial, wire'[i])
    BY Zenon, <1>2, <2>7, <2>9, <2>10, WireStep DEF m
  <2>12. QED
    BY Zenon, <1>2, <2>11 DEF WireOk
<1>14. QED
  BY Zenon, <1>7, <1>8, <1>11, <1>12, <1>13 DEF MirrorInv

(* A caret move leads from a text to itself.                                *)
LEMMA MoveCaretInv ==
  ASSUME MirrorInv, NEW at \in 0..Len(Last(texts)), MoveCaret(at)
  PROVE  MirrorInv'
<1> DEFINE l == Len(texts)
           after == Reference(l, revision + 1, at, Last(texts))
           m == Commit(Current, after, <<>>)
<1>1. /\ OwnerOk /\ MirrorOk /\ RequestOk /\ SenderOk /\ ReceiverOk /\ WireOk
  BY DEF MirrorInv
<1>2. /\ texts' = texts /\ revision' = revision + 1 /\ caret' = at /\ Boundary(Last(texts), at)
      /\ wire' = Append(wire, m)
      /\ sender' = sender /\ mirror' = mirror /\ receiver' = receiver
      /\ request' = request /\ serial' = serial
  BY Zenon DEF MoveCaret, Transmit
<1>3. /\ Names(texts, Current) /\ Current.textRevision = l
      /\ Last(texts) = texts[l] /\ Last(texts) \in Text /\ l \in Nat
  BY <1>1, CurrentNames
<1>4. at \in Nat /\ Len(Last(texts)) \in Nat
  BY <1>3 DEF Text
<1>5. OwnerOk'
  BY <1>1, <1>2, <1>4 DEF OwnerOk
<1>6. MirrorOk' /\ RequestOk' /\ SenderOk' /\ ReceiverOk'
  BY Zenon, <1>1, <1>2 DEF MirrorOk, RequestOk, SenderOk, ReceiverOk
<1>7. WireOk'
  <2>1. revision \in Nat
    BY <1>1 DEF OwnerOk
  <2> DEFINE length == Len(Last(texts))
  <2>2. after = [textRevision |-> l, revision |-> revision + 1, cursor |-> at, byteLen |-> length]
    BY Zenon DEF Reference
  <2> HIDE DEF after, length
  <2>3. /\ after \in Ref /\ after.textRevision = l /\ after.cursor = at
        /\ after.byteLen = length
    BY <1>3, <1>4, <2>1, <2>2 DEF Ref, length
  <2>4. Names(texts, after)
    <3>1. l \in 1..Len(texts)
      BY Zenon, <1>3 DEF Names
    <3>2. QED
      BY Zenon, <1>3, <2>3, <3>1 DEF Names, length
  <2>5. PatchedText(Last(texts), <<>>) = Last(texts) /\ PatchFits(Last(texts), <<>>, at)
    BY <1>2, <1>3, CaretExact
  <2> DEFINE now == Current
  <2>6. m = [type |-> "commit", before |-> now, after |-> after, patches |-> <<>>] /\ now \in Ref
    BY Zenon, <1>3 DEF Commit, Names
  <2> HIDE DEF m, now
  <2>7. m \in Message /\ m.type = "commit" /\ m.before = now /\ m.after = after /\ m.patches = <<>>
    <3>1. <<>> \in Seq(Patch)
      OBVIOUS
    <3>2. QED
      BY <2>3, <2>6, <3>1 DEF Message
  <2>8. Leads(texts, m)
    BY Zenon, <1>3, <2>3, <2>4, <2>5, <2>7 DEF Leads, now
  <2>9. Carried(texts, receiver, serial, m)
    BY <2>7, <2>8 DEF Carried
  <2>10. wire' \in Seq(Message) /\ \A i \in DOMAIN wire' : Carried(texts, receiver, serial, wire'[i])
    BY Zenon, <1>1, <1>2, <2>7, <2>9, WireStep DEF WireOk, m
  <2>11. QED
    BY Zenon, <1>2, <2>10 DEF WireOk
<1>8. QED
  BY Zenon, <1>5, <1>6, <1>7 DEF MirrorInv

(* The owner's side takes a request over as it came.                        *)
LEMMA TakeRequestInv ==
  ASSUME MirrorInv, TakeRequest
  PROVE  MirrorInv'
<1>1. /\ OwnerOk /\ MirrorOk /\ RequestOk /\ ReceiverOk /\ WireOk
  BY DEF MirrorInv
<1>2. /\ request # NoTransfer /\ request' = NoTransfer
      /\ sender' = [id |-> request.id, target |-> request.target, stage |-> "begin", index |-> 0]
      /\ texts' = texts /\ revision' = revision /\ caret' = caret /\ wire' = wire
      /\ mirror' = mirror /\ receiver' = receiver /\ serial' = serial
  BY Zenon DEF TakeRequest
<1>3. Asks(texts, receiver, serial, request)
  BY Zenon, <1>1, <1>2 DEF RequestOk
<1>4. request.id \in Nat /\ request.target \in Ref
  BY Zenon, <1>3 DEF Asks, Names
<1>5. /\ sender' \in [id : Nat, target : Ref, stage : {"begin", "chunk"}, index : Nat]
      /\ sender'.id = request.id /\ sender'.target = request.target
  BY <1>2, <1>4
<1>6. SenderOk'
  BY Zenon, <1>2, <1>3, <1>5 DEF SenderOk, Asks
<1>7. OwnerOk' /\ MirrorOk' /\ RequestOk' /\ ReceiverOk' /\ WireOk'
  BY Zenon, <1>1, <1>2 DEF OwnerOk, MirrorOk, RequestOk, ReceiverOk, WireOk
<1>8. QED
  BY Zenon, <1>6, <1>7 DEF MirrorInv

(* The sender sends a piece of its target while that is the document.       *)
LEMMA NextFrameInv ==
  ASSUME MirrorInv, NextFrame
  PROVE  MirrorInv'
<1> DEFINE m == NextMessage
           start == sender.index * Chunk
           text == Last(texts)
<1>1. /\ OwnerOk /\ MirrorOk /\ RequestOk /\ SenderOk /\ ReceiverOk /\ WireOk
  BY DEF MirrorInv
<1>2. /\ sender # NoTransfer
      /\ wire' = Append(wire, m)
      /\ sender' = CASE m.type = "begin" -> [sender EXCEPT !.stage = "chunk"]
                     [] m.type = "chunk" -> [sender EXCEPT !.index = @ + 1]
                     [] OTHER -> NoTransfer
      /\ texts' = texts /\ revision' = revision /\ caret' = caret
      /\ mirror' = mirror /\ receiver' = receiver /\ request' = request /\ serial' = serial
  BY Zenon DEF NextFrame, Transmit
<1>3. /\ sender \in [id : Nat, target : Ref, stage : {"begin", "chunk"}, index : Nat]
      /\ Asks(texts, receiver, serial, sender)
  BY Zenon, <1>1, <1>2 DEF SenderOk
<1>4. /\ Current.textRevision = Len(texts) /\ text = texts[Len(texts)] /\ text \in Text
      /\ Names(texts, Current) /\ Len(text) \in Nat
  <2>1. /\ Current.textRevision = Len(texts) /\ text = texts[Len(texts)] /\ text \in Text
        /\ Names(texts, Current)
    BY <1>1, CurrentNames
  <2>2. QED
    BY <2>1 DEF Text
<1>5. sender.id \in Nat /\ sender.index \in Nat /\ sender.target \in Ref /\ sender.id <= serial
  BY <1>3 DEF Asks
<1> DEFINE bytes == Piece(text, sender.index)
<1>6. \/ m = Abort(sender.id)
      \/ m = Begin(sender.id, sender.target)
      \/ m = Complete(sender.id)
      \/ sender.target = Current /\ m = ChunkAt(sender.id, sender.index, bytes)
  BY Zenon DEF NextMessage, Piece
<1>7. bytes \in Text
  <2>1. start \in Nat /\ Chunk \in Nat
    BY <1>5, EditorBounds
  <2> HIDE DEF start
  <2> DEFINE b == IF start + Chunk <= Len(text) THEN start + Chunk ELSE Len(text)
  <2>2. Min({start + Chunk, Len(text)}) = b
    BY <1>4, <2>1, MinOfTwo
  <2>3. bytes = SubSeq(text, start + 1, b)
    BY <2>2 DEF Piece, start
  <2>4. b \in Int /\ start + 1 \in Int /\ \A i \in start + 1..b : i \in 1..Len(text)
    BY <1>4, <2>1
  <2>5. \A i \in start + 1..b : text[i] \in Byte
    BY <1>4, <2>4 DEF Text
  <2> HIDE DEF b, text
  <2>6. SubSeq(text, start + 1, b) \in Seq(Byte)
    BY <2>4, <2>5, SubSeqProperties
  <2>7. QED
    BY <2>3, <2>6 DEF Text
<1> HIDE DEF m, bytes, text
<1>8. /\ m \in Message /\ m.type # "commit" /\ m.id = sender.id
      /\ m.type = "chunk" => sender.target = Current /\ m.bytes = bytes /\ m.index = sender.index
  <2>1. CASE m = Abort(sender.id)
    BY <1>5, <2>1 DEF Abort, Message
  <2>2. CASE m = Begin(sender.id, sender.target)
    BY <1>5, <2>2 DEF Begin, Message
  <2>3. CASE m = Complete(sender.id)
    BY <1>5, <2>3 DEF Complete, Message
  <2>4. CASE sender.target = Current /\ m = ChunkAt(sender.id, sender.index, bytes)
    <3>1. m = [type |-> "chunk", id |-> sender.id, index |-> sender.index, bytes |-> bytes]
      BY Zenon, <2>4 DEF ChunkAt
    <3>2. m \in Message /\ m.type = "chunk" /\ m.id = sender.id /\ m.bytes = bytes /\ m.index = sender.index
      BY <1>5, <1>7, <3>1 DEF Message
    <3>3. QED
      BY <2>4, <3>2
  <2>5. QED
    BY Zenon, <1>6, <2>1, <2>2, <2>3, <2>4
<1>9. Carried(texts, receiver, serial, m)
  <2>1. ASSUME m.type = "chunk", receiver # NoTransfer, m.id = receiver.id
        PROVE  m.bytes = Piece(texts[receiver.target.textRevision], m.index)
    <3>1. receiver.target = Current
      BY Zenon, <1>3, <1>8, <2>1 DEF Asks
    <3>2. QED
      BY Zenon, <1>4, <1>8, <2>1, <3>1 DEF bytes
  <2>2. m.type # "commit" /\ m.id <= serial
    BY <1>5, <1>8
  <2>3. QED
    BY Zenon, <2>1, <2>2 DEF Carried
<1>10. WireOk'
  <2>1. wire' \in Seq(Message) /\ \A i \in DOMAIN wire' : Carried(texts, receiver, serial, wire'[i])
    BY Zenon, <1>1, <1>2, <1>8, <1>9, WireStep DEF WireOk
  <2>2. QED
    BY Zenon, <1>2, <2>1 DEF WireOk
<1>11. SenderOk'
  <2>1. sender' # NoTransfer =>
          sender' = [sender EXCEPT !.stage = "chunk"] \/ sender' = [sender EXCEPT !.index = @ + 1]
    BY Zenon, <1>2
  <2>2. sender' # NoTransfer =>
          /\ sender' \in [id : Nat, target : Ref, stage : {"begin", "chunk"}, index : Nat]
          /\ sender'.id = sender.id /\ sender'.target = sender.target
    BY <1>3, <2>1
  <2>3. QED
    BY Zenon, <1>2, <1>3, <2>2 DEF SenderOk, Asks
<1>12. OwnerOk' /\ MirrorOk' /\ RequestOk' /\ ReceiverOk'
  BY Zenon, <1>1, <1>2 DEF OwnerOk, MirrorOk, RequestOk, ReceiverOk
<1>13. QED
  BY Zenon, <1>10, <1>11, <1>12 DEF MirrorInv

(* Every other step but a new request: the owner rests, the mirror takes    *)
(* the first message or none, and its transfer goes on, or ends.            *)
LEMMA RestInv ==
  ASSUME MirrorInv,
         UNCHANGED <<texts, revision, caret, sender, serial>>,
         request' = request \/ request' = NoTransfer,
         wire' = wire \/ (wire # <<>> /\ wire' = Tail(wire)),
         Keeps(receiver, receiver'), ReceiverOk', MirrorOk'
  PROVE  MirrorInv'
<1>1. /\ OwnerOk /\ RequestOk /\ SenderOk /\ WireOk
      /\ texts' = texts /\ revision' = revision /\ caret' = caret /\ sender' = sender /\ serial' = serial
  BY DEF MirrorInv
<1>2. /\ \A m : Carried(texts, receiver, serial, m) => Carried(texts, receiver', serial, m)
      /\ \A x : Asks(texts, receiver, serial, x) => Asks(texts, receiver', serial, x)
  BY Zenon DEF Carried, Asks, Keeps
<1>3. OwnerOk'
  BY Zenon, <1>1 DEF OwnerOk
<1>4. RequestOk' /\ SenderOk'
  BY Zenon, <1>1, <1>2 DEF RequestOk, SenderOk
<1>5. wire' \in Seq(Message) /\ \A i \in DOMAIN wire' : Carried(texts, receiver, serial, wire'[i])
  <2>1. wire \in Seq(Message) /\ \A i \in DOMAIN wire : Carried(texts, receiver, serial, wire[i])
    BY Zenon, <1>1 DEF WireOk
  <2>2. CASE wire' = wire
    BY Zenon, <2>1, <2>2
  <2>3. CASE wire # <<>> /\ wire' = Tail(wire)
    BY Zenon, <2>1, <2>3, WireStep
  <2>4. QED
    BY Zenon, <2>2, <2>3
<1>6. WireOk'
  BY Zenon, <1>1, <1>2, <1>5 DEF WireOk
<1>7. QED
  BY Zenon, <1>3, <1>4, <1>6 DEF MirrorInv

(* The message a mirror takes is one of those on the wire.                  *)
LEMMA HeadCarried ==
  ASSUME MirrorInv, wire # <<>>
  PROVE  Head(wire) \in Message /\ Carried(texts, receiver, serial, Head(wire))
<1>1. wire \in Seq(Message) /\ \A i \in DOMAIN wire : Carried(texts, receiver, serial, wire[i])
  BY Zenon DEF MirrorInv, WireOk
<1>2. QED
  BY Zenon, <1>1, WireStep

(* A commit is taken at the text its first reference names, which is the    *)
(* mirror's, and leads to the text its second names.                        *)
LEMMA ReceiveCommitInv ==
  ASSUME MirrorInv, ReceiveCommit
  PROVE  MirrorInv'
<1> DEFINE m == Head(wire)
           patched == PatchedText(mirror.text, m.patches)
<1>1. MirrorOk /\ ReceiverOk
  BY DEF MirrorInv
<1>2. /\ wire # <<>> /\ wire' = Tail(wire) /\ m.type = "commit"
      /\ UNCHANGED <<texts, revision, caret, sender, request, serial, receiver>>
      /\ \/ mirror' = mirror
         \/ /\ mirror # NoMirror /\ mirror.ref = m.before
            /\ mirror' = [ref |-> m.after, text |-> patched]
  BY Zenon DEF ReceiveCommit, Arrive
<1>3. Leads(texts, m)
  BY Zenon, <1>2, HeadCarried DEF Carried
<1>4. MirrorOk'
  <2>1. CASE mirror' = mirror
    BY Zenon, <1>1, <1>2, <2>1 DEF MirrorOk
  <2>2. CASE mirror # NoMirror /\ mirror.ref = m.before /\ mirror' = [ref |-> m.after, text |-> patched]
    <3>1. mirror.text = texts[m.before.textRevision]
      BY Zenon, <1>1, <2>2 DEF MirrorOk
    <3>2. patched = texts[m.after.textRevision] /\ Names(texts, m.after)
      BY Zenon, <1>3, <3>1 DEF Leads
    <3> HIDE DEF m, patched
    <3>3. mirror'.ref = m.after /\ mirror'.text = patched
      BY <2>2
    <3>4. QED
      BY Zenon, <1>2, <3>2, <3>3 DEF MirrorOk
  <2>3. QED
    BY Zenon, <1>2, <2>1, <2>2
<1>5. ReceiverOk' /\ Keeps(receiver, receiver')
  BY Zenon, <1>1, <1>2 DEF ReceiverOk, Keeps
<1>6. QED
  BY Zenon, <1>2, <1>4, <1>5, RestInv

(* A transfer's message begins it, adds the next chunk of its target, or    *)
(* ends it; one that is complete has all of its target.                     *)
LEMMA ReceiveTransferInv ==
  ASSUME MirrorInv, ReceiveTransfer
  PROVE  MirrorInv'
<1> DEFINE m == Head(wire)
<1>1. MirrorOk /\ ReceiverOk /\ OwnerOk
  BY DEF MirrorInv
<1>2. /\ wire # <<>> /\ wire' = Tail(wire)
      /\ UNCHANGED <<texts, revision, caret, sender, request, serial>>
      /\ \/ UNCHANGED <<receiver, mirror>>
         \/ /\ receiver # NoTransfer /\ m.id = receiver.id
            /\ receiver' = Received(m)
            /\ \/ mirror' = mirror
               \/ Assembled /\ mirror' = [ref |-> receiver.target, text |-> receiver.bytes]
  BY Zenon DEF ReceiveTransfer, Arrive
<1>3. m \in Message /\ Carried(texts, receiver, serial, m)
  BY Zenon, <1>2, HeadCarried
<1> HIDE DEF m
<1>4. CASE UNCHANGED <<receiver, mirror>>
  <2>1. ReceiverOk' /\ MirrorOk' /\ Keeps(receiver, receiver')
    BY Zenon, <1>1, <1>2, <1>4 DEF ReceiverOk, MirrorOk, Keeps
  <2>2. QED
    BY Zenon, <1>2, <2>1, RestInv
<1>5. CASE /\ receiver # NoTransfer /\ m.id = receiver.id
           /\ receiver' = Received(m)
           /\ \/ mirror' = mirror
              \/ Assembled /\ mirror' = [ref |-> receiver.target, text |-> receiver.bytes]
  <2> DEFINE t == texts[receiver.target.textRevision]
  <2>1. /\ receiver \in [id : Nat, target : Ref, bytes : Text, next : Nat, begun : BOOLEAN]
        /\ receiver.id <= serial /\ Names(texts, receiver.target)
        /\ receiver.bytes = Pieces(t, receiver.next)
    BY Zenon, <1>1, <1>5 DEF ReceiverOk
  <2>2. t \in Text /\ receiver.target.byteLen = Len(t) /\ receiver.next \in Nat
    BY <1>1, <2>1 DEF Names, OwnerOk
  <2>3. /\ Len(receiver.bytes) = Len(t) => receiver.bytes = t
        /\ Len(receiver.bytes) < Len(t) =>
             receiver.bytes \o Piece(t, receiver.next) = Pieces(t, receiver.next + 1)
        /\ Pieces(t, receiver.next + 1) \in Text
    <3> DEFINE k == receiver.next
    <3>1. k \in Nat /\ k + 1 \in Nat /\ receiver.bytes = Pieces(t, k)
      BY <2>1, <2>2
    <3> HIDE DEF k, t
    <3>2. /\ Len(Pieces(t, k)) = Len(t) => Pieces(t, k) = t
          /\ Len(Pieces(t, k)) < Len(t) => Pieces(t, k) \o Piece(t, k) = Pieces(t, k + 1)
      BY <2>2, <3>1, PiecesAre
    <3>3. Pieces(t, k + 1) \in Text
      BY <2>2, <3>1, PiecesAre
    <3>4. QED
      BY Zenon, <3>1, <3>2, <3>3 DEF k
  <2> HIDE DEF t
  <2>4. MirrorOk'
    <3>1. CASE mirror' = mirror
      BY Zenon, <1>1, <1>2, <3>1 DEF MirrorOk
    <3>2. CASE Assembled /\ mirror' = [ref |-> receiver.target, text |-> receiver.bytes]
      <4>1. receiver.bytes = t
        BY Zenon, <2>2, <2>3, <3>2 DEF Assembled
      <4>2. mirror'.ref = receiver.target /\ mirror'.text = receiver.bytes
        BY <3>2
      <4>3. QED
        BY Zenon, <1>2, <2>1, <4>1, <4>2 DEF MirrorOk, t
    <3>3. QED
      BY Zenon, <1>5, <3>1, <3>2
  <2>5. \/ receiver' = [receiver EXCEPT !.begun = TRUE]
        \/ /\ m.type = "chunk" /\ TakesChunk(m)
           /\ receiver' = [receiver EXCEPT !.bytes = @ \o m.bytes, !.next = @ + 1]
        \/ receiver' = NoTransfer
    BY Zenon, <1>5 DEF Received
  <2>6. CASE receiver' = [receiver EXCEPT !.begun = TRUE]
    <3>1. /\ receiver' \in [id : Nat, target : Ref, bytes : Text, next : Nat, begun : BOOLEAN]
          /\ receiver'.id = receiver.id /\ receiver'.target = receiver.target
          /\ receiver'.bytes = receiver.bytes /\ receiver'.next = receiver.next
      BY <2>1, <2>6
    <3>2. ReceiverOk' /\ Keeps(receiver, receiver')
      BY Zenon, <1>2, <1>5, <2>1, <3>1 DEF ReceiverOk, Keeps, t
    <3>3. QED
      BY Zenon, <1>2, <2>4, <3>2, RestInv
  <2>7. CASE /\ m.type = "chunk" /\ TakesChunk(m)
             /\ receiver' = [receiver EXCEPT !.bytes = @ \o m.bytes, !.next = @ + 1]
    <3>1. m.bytes = Piece(t, receiver.next) /\ Len(receiver.bytes) < Len(t)
      <4>1. m.bytes = Piece(t, m.index)
        BY Zenon, <1>3, <1>5, <2>7 DEF Carried, t
      <4>2. m.index = receiver.next /\ Len(receiver.bytes) < receiver.target.byteLen
        BY Zenon, <2>7 DEF TakesChunk
      <4>3. QED
        BY <2>2, <4>1, <4>2
    <3>2. receiver.bytes \o m.bytes = Pieces(t, receiver.next + 1)
      BY Zenon, <2>3, <3>1
    <3> DEFINE b == receiver.bytes \o m.bytes
    <3>3. receiver' = [receiver EXCEPT !.bytes = b, !.next = receiver.next + 1]
      BY <2>7
    <3>4. b = Pieces(t, receiver.next + 1) /\ b \in Text
      BY Zenon, <2>3, <3>2
    <3> DEFINE k == receiver.next + 1
    <3>5. k \in Nat
      BY <2>2
    <3> HIDE DEF b, k
    <3>6. receiver' = [receiver EXCEPT !.bytes = b, !.next = k]
      BY Zenon, <3>3 DEF k
    <3>7. /\ receiver' \in [id : Nat, target : Ref, bytes : Text, next : Nat, begun : BOOLEAN]
          /\ receiver'.id = receiver.id /\ receiver'.target = receiver.target
          /\ receiver'.bytes = b /\ receiver'.next = receiver.next + 1
      <4> DEFINE r == receiver
                 r2 == receiver'
      <4>1. /\ r \in [id : Nat, target : Ref, bytes : Text, next : Nat, begun : BOOLEAN]
            /\ r2 = [r EXCEPT !.bytes = b, !.next = k] /\ b \in Text /\ k \in Nat
        BY Zenon, <2>1, <3>4, <3>5, <3>6
      <4> HIDE DEF r, r2
      <4>2. /\ r2 \in [id : Nat, target : Ref, bytes : Text, next : Nat, begun : BOOLEAN]
            /\ r2.id = r.id /\ r2.target = r.target /\ r2.bytes = b /\ r2.next = k
        BY <4>1
      <4>3. QED
        BY Zenon, <4>2 DEF r, r2, k
    <3>8. ReceiverOk' /\ Keeps(receiver, receiver')
      BY Zenon, <1>2, <1>5, <2>1, <3>4, <3>7 DEF ReceiverOk, Keeps, t
    <3>9. QED
      BY Zenon, <1>2, <2>4, <3>8, RestInv
  <2>8. CASE receiver' = NoTransfer
    <3>1. ReceiverOk' /\ Keeps(receiver, receiver')
      BY Zenon, <2>8 DEF ReceiverOk, Keeps
    <3>2. QED
      BY Zenon, <1>2, <2>4, <3>1, RestInv
  <2>9. QED
    BY Zenon, <2>5, <2>6, <2>7, <2>8
<1>6. QED
  BY Zenon, <1>2, <1>4, <1>5

(* A new id is of no message on the wire and of no older sender.            *)
LEMMA RequestInv ==
  ASSUME MirrorInv, Request
  PROVE  MirrorInv'
<1> DEFINE id == serial + 1
           now == Current
<1>1. /\ OwnerOk /\ MirrorOk /\ SenderOk
  BY DEF MirrorInv
<1>2. /\ wire = <<>> /\ wire' = <<>>
      /\ serial' = id
      /\ receiver' = [id |-> id, target |-> now, bytes |-> <<>>, next |-> 0, begun |-> FALSE]
      /\ request' = [id |-> id, target |-> now]
      /\ UNCHANGED <<texts, revision, caret, sender, mirror>>
  BY Zenon DEF Request
<1>3. serial \in Nat /\ id \in Nat /\ serial < id
  BY <1>1 DEF OwnerOk
<1>4. Names(texts, now)
  BY <1>1, CurrentNames
<1>5. now \in Ref
  BY Zenon, <1>4 DEF Names
<1> HIDE DEF id, now
<1>6. /\ receiver' \in [id : Nat, target : Ref, bytes : Text, next : Nat, begun : BOOLEAN]
      /\ receiver'.id = id /\ receiver'.target = now /\ receiver'.bytes = <<>> /\ receiver'.next = 0
  <2> DEFINE none == <<>>
  <2>1. none \in Text
    BY DEF Text
  <2> HIDE DEF none
  <2>2. receiver' = [id |-> id, target |-> now, bytes |-> none, next |-> 0, begun |-> FALSE]
    BY Zenon, <1>2 DEF none
  <2>3. /\ receiver' \in [id : Nat, target : Ref, bytes : Text, next : Nat, begun : BOOLEAN]
        /\ receiver'.id = id /\ receiver'.target = now /\ receiver'.bytes = none /\ receiver'.next = 0
    BY <1>3, <1>5, <2>1, <2>2
  <2>4. QED
    BY Zenon, <2>3 DEF none
<1>7. request'.id = id /\ request'.target = now
  BY <1>2
<1>8. OwnerOk'
  BY Zenon, <1>1, <1>2, <1>3 DEF OwnerOk
<1>9. MirrorOk'
  BY Zenon, <1>1, <1>2 DEF MirrorOk
<1>10. RequestOk'
  <2>1. id <= serial'
    BY <1>2, <1>3
  <2>2. QED
    BY Zenon, <1>2, <1>3, <1>4, <1>6, <1>7, <2>1 DEF RequestOk, Asks
<1>11. SenderOk'
  <2>1. ASSUME sender # NoTransfer
        PROVE  sender.id \in Nat /\ sender.id <= id /\ sender.id # id
    <3>1. sender.id \in Nat /\ sender.id <= serial
      BY Zenon, <1>1, <2>1 DEF SenderOk, Asks
    <3>2. QED
      BY <1>3, <3>1
  <2>2. QED
    BY Zenon, <1>1, <1>2, <1>6, <2>1 DEF SenderOk, Asks
<1>12. ReceiverOk'
  <2> DEFINE t == texts[now.textRevision]
  <2>1. t \in Text
    BY <1>1, <1>4 DEF Names, OwnerOk
  <2> HIDE DEF t
  <2>2. Pieces(t, 0) = <<>>
    BY <2>1, PiecesAre
  <2>3. id <= serial'
    BY <1>2, <1>3
  <2>4. QED
    BY Zenon, <1>2, <1>4, <1>6, <2>2, <2>3 DEF ReceiverOk, t
<1>13. WireOk'
  <2>1. wire' \in Seq(Message) /\ DOMAIN wire' = {}
    BY <1>2
  <2>2. QED
    BY Zenon, <2>1 DEF WireOk
<1>14. QED
  BY Zenon, <1>8, <1>9, <1>10, <1>11, <1>12, <1>13 DEF MirrorInv

(* A timeout, a loss and a restart only end a transfer or forget a mirror.  *)
LEMMA EndsInv ==
  ASSUME MirrorInv, Timeout \/ LoseMessage \/ LoseRequest \/ GiveUp \/ MirrorRestart
  PROVE  MirrorInv'
<1>1. MirrorOk /\ ReceiverOk
  BY DEF MirrorInv
<1>2. /\ UNCHANGED <<texts, revision, caret, sender, serial>>
      /\ request' = request \/ request' = NoTransfer
      /\ wire' = wire \/ (wire # <<>> /\ wire' = Tail(wire))
      /\ receiver' = receiver \/ receiver' = NoTransfer
      /\ mirror' = mirror \/ mirror' = NoMirror
  BY Zenon DEF Timeout, LoseMessage, LoseRequest, GiveUp, MirrorRestart, Fault
<1>3. ReceiverOk' /\ Keeps(receiver, receiver')
  BY Zenon, <1>1, <1>2 DEF ReceiverOk, Keeps
<1>4. MirrorOk'
  BY Zenon, <1>1, <1>2 DEF MirrorOk
<1>5. QED
  BY Zenon, <1>2, <1>3, <1>4, RestInv

(* Every step keeps it.                                                     *)
LEMMA NextMirrorInv ==
  MirrorInv /\ [MirrorNext]_mirrorVars => MirrorInv'
<1> SUFFICES ASSUME MirrorInv, [MirrorNext]_mirrorVars
             PROVE  MirrorInv'
  OBVIOUS
<1>1. ASSUME NEW text \in Texts, NEW at \in 0..Len(text), Edit(text, at) PROVE MirrorInv'
  BY Zenon, <1>1, EditInv
<1>2. ASSUME NEW at \in 0..Len(Last(texts)), MoveCaret(at) PROVE MirrorInv'
  BY Zenon, <1>2, MoveCaretInv
<1>3. CASE TakeRequest
  BY Zenon, <1>3, TakeRequestInv
<1>4. CASE NextFrame
  BY Zenon, <1>4, NextFrameInv
<1>5. CASE ReceiveCommit
  BY Zenon, <1>5, ReceiveCommitInv
<1>6. CASE ReceiveTransfer
  BY Zenon, <1>6, ReceiveTransferInv
<1>7. CASE Request
  BY Zenon, <1>7, RequestInv
<1>8. CASE Timeout \/ LoseMessage \/ LoseRequest \/ GiveUp \/ MirrorRestart
  BY Zenon, <1>8, EndsInv
<1>9. CASE UNCHANGED mirrorVars
  BY Zenon, <1>9 DEF mirrorVars, MirrorInv, OwnerOk, MirrorOk, RequestOk, SenderOk, ReceiverOk, WireOk
<1>10. QED
  BY Zenon, <1>1, <1>2, <1>3, <1>4, <1>5, <1>6, <1>7, <1>8, <1>9 DEF MirrorNext, MirrorSteps

(* A mirror holds the text its reference names and no mixture of two, and   *)
(* every commit on the wire fits the text it starts from and makes the one  *)
(* it leads to (changed span, patched text, sender, assembler, receiver).   *)
THEOREM MirrorExactHolds ==
  MirrorSpec => []MirrorExact
<1>1. MirrorInv => MirrorExact
  <2> SUFFICES ASSUME MirrorInv
               PROVE  MirrorExact
    OBVIOUS
  <2>1. mirror # NoMirror => mirror.text = texts[mirror.ref.textRevision]
    BY Zenon DEF MirrorInv, MirrorOk
  <2>2. ASSUME NEW i \in DOMAIN wire, wire[i].type = "commit"
        PROVE  Leads(texts, wire[i])
    BY Zenon, <2>2 DEF MirrorInv, WireOk, Carried
  <2>3. QED
    BY Zenon, <2>1, <2>2 DEF MirrorExact, Leads
<1>2. QED
  BY InitMirrorInv, NextMirrorInv, <1>1, PTL DEF MirrorSpec
==============================================================================
