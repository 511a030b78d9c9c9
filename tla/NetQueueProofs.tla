-------------------------- MODULE NetQueueProofs --------------------------
(***************************************************************************)
(* The cache of a node of RF24Network implements the queue of whole        *)
(* messages its application takes it for, for any number of senders, any   *)
(* messages and any sizes, as long as two senders never use the same id    *)
(* and no frame is relayed to the node twice.                              *)
(*                                                                         *)
(* The argument is about the line of frames of one sender: those in the    *)
(* radio, followed by the one it sends next.  They are in order, no        *)
(* fragment is left out between two of a message, and the first of them    *)
(* that belongs to the message being put together is its next fragment or  *)
(* an earlier one.  That is why a last fragment, whose place enqueue()     *)
(* does not check, completes the message.                                  *)
(*                                                                         *)
(* At the end, the ways in which the cache can be overrun, for any ids.    *)
(***************************************************************************)
EXTENDS NetQueue, SequenceTheorems, FiniteSetTheorems, TLAPS

\* Two senders never use the same id
IdsApart ==
  \A s, t \in Senders :
    \A n \in 1 .. Len(Messages[s]), m \in 1 .. Len(Messages[t]) :
      IdBase[s] + n = IdBase[t] + m => s = t

Places == {p \in Senders \X Nat \X Nat :
             /\ p[2] \in 1 .. Len(Messages[p[1]])
             /\ p[3] \in 1 .. Messages[p[1]][p[2]]}

Frames == {Fragment(p[1], p[2], p[3]) : p \in Places}

\* Of a frame: its message, its place in it and how many fragments that has
Number(f) == f.piece[2]
Index(f)  == f.piece[3]
Count(f)  == Messages[f.from][Number(f)]

Same(f, h) == f.from = h.from /\ Number(f) = Number(h)

\* What may follow a frame on the line of its sender
Later(f, h) ==
  \/ Number(f) < Number(h)
  \/ Number(f) = Number(h) /\ Index(f) <= Index(h) /\ Count(h) > 1

---------------------------------------------------------------------------
(***************************************************************************)
(* The parts of the invariant, of a line w of frames, the message g being  *)
(* put together and the numbers a of the last messages that arrived.       *)
(***************************************************************************)
InOrder(w) ==
  \A p, q \in 1 .. Len(w) : p < q /\ w[p].from = w[q].from => Later(w[p], w[q])

NoJump(w) ==
  \A p, q \in 1 .. Len(w) :
    p < q /\ Same(w[p], w[q]) /\ Index(w[p]) < Index(w[q]) - 1 =>
      \E r \in 1 .. Len(w) :
        p < r /\ r < q /\ Same(w[r], w[q]) /\ Index(w[r]) = Index(w[q]) - 1

\* The frame belongs to the message being put together
Joins(g, f) == g.reserved # 0 /\ g.from = f.from /\ g.id = f.id

Grows(w, g) ==
  \A q \in 1 .. Len(w) :
    Joins(g, w[q]) =>
      \/ Index(w[q]) <= Len(g.pieces) + 1
      \/ \E r \in 1 .. Len(w) :
           r < q /\ Same(w[r], w[q]) /\ Index(w[r]) = Index(w[q]) - 1

\* No frame of a message that has arrived is left, but repeats of its last
Fresh(f, g, a) ==
  /\ a[f.from] <= Number(f)
  /\ a[f.from] = Number(f) =>
       Index(f) = Count(f) /\ Count(f) > 1 /\ ~Joins(g, f)

AllFresh(w, g, a) == \A q \in 1 .. Len(w) : Fresh(w[q], g, a)

Line(w, g, a) == InOrder(w) /\ NoJump(w) /\ Grows(w, g) /\ AllFresh(w, g, a)

\* The frame x may be the next of the line w
CanFollow(w, x, g, a) ==
  /\ \A p \in 1 .. Len(w) : w[p].from = x.from => Later(w[p], x)
  /\ \A p \in 1 .. Len(w) :
       Same(w[p], x) /\ Index(w[p]) < Index(x) - 1 =>
         \E r \in 1 .. Len(w) :
           p < r /\ Same(w[r], x) /\ Index(w[r]) = Index(x) - 1
  /\ Joins(g, x) =>
       \/ Index(x) <= Len(g.pieces) + 1
       \/ \E r \in 1 .. Len(w) : Same(w[r], x) /\ Index(w[r]) = Index(x) - 1
  /\ Fresh(x, g, a)

\* What has been put together is the beginning of a message
Beginning(g) ==
  g.reserved # 0 =>
    \E s \in Senders : \E n \in 1 .. Len(Messages[s]) :
      /\ g.from = s
      /\ g.id = IdBase[s] + n
      /\ Len(g.pieces) \in 1 .. Messages[s][n] - 1
      /\ g.reserved = Messages[s][n] - Len(g.pieces)
      /\ g.pieces = [i \in 1 .. Len(g.pieces) |-> <<s, n, i>>]

Part == Seq(Senders \X Nat \X Nat)
Stored == [from : Senders, id : Nat, pieces : Part, size : Nat]

CacheInv ==
  /\ out \in [Senders -> [n : Nat \ {0}, i : Nat \ {0}, tries : Nat]]
  /\ \A s \in Senders : Sending(s) => out[s].i <= Messages[s][out[s].n]
  /\ fifo \in Seq(Frames)
  /\ queue \in Seq(Stored)
  /\ frag \in [from : Senders \cup {"none"}, id : Nat, reserved : Nat,
               pieces : Part, size : Nat]
  /\ arrived \in [Senders -> Nat]
  /\ Beginning(frag)
  /\ Line(fifo, frag, arrived)
  /\ \A s \in Senders :
       Sending(s) => Line(Append(fifo, FrameOf(s)), frag, arrived)

---------------------------------------------------------------------------
(***************************************************************************)
(* What a frame says of its fragment.                                      *)
(***************************************************************************)
LEMMA FrameFacts ==
  ASSUME NEW f \in Frames
  PROVE  /\ f.from \in Senders
         /\ Number(f) \in 1 .. Len(Messages[f.from])
         /\ Count(f) \in Nat \ {0}
         /\ Index(f) \in 1 .. Count(f)
         /\ f.piece = <<f.from, Number(f), Index(f)>>
         /\ f.id = IdBase[f.from] + Number(f)
         /\ f.id \in Nat
         /\ f.size \in Nat
         /\ f.type \in {"plain", "first", "more", "last"}
         /\ f.type = "plain" => Count(f) = 1
         /\ f.type = "first" => Count(f) > 1 /\ Index(f) = 1
                                /\ f.reserved = Count(f)
         /\ f.type = "more" => /\ Index(f) > 1 /\ Index(f) < Count(f)
                               /\ f.reserved = Count(f) - Index(f) + 1
         /\ f.type = "last" => Count(f) > 1 /\ Index(f) = Count(f)
<1>1. PICK p \in Places : f = Fragment(p[1], p[2], p[3])
  BY DEF Frames
<1> DEFINE s == p[1]
           n == p[2]
           i == p[3]
           k == Messages[s][n]
<1>2. /\ s \in Senders /\ n \in 1 .. Len(Messages[s]) /\ i \in 1 .. k
      /\ n \in Nat /\ i \in Nat
  BY <1>1 DEF Places
<1>3. k \in Nat \ {0}
  BY <1>2, SenderAssumption
<1>4. IdBase[s] + n \in Nat
  BY <1>2, SenderAssumption
<1> HIDE DEF s, n, i
<1>5. /\ f.from = s /\ f.id = IdBase[s] + n /\ f.piece = <<s, n, i>>
      /\ f.type = IF k = 1 THEN "plain" ELSE IF i = 1 THEN "first"
                   ELSE IF i = k THEN "last" ELSE "more"
      /\ f.reserved = IF k = 1 \/ i = k THEN 0 ELSE k - i + 1
      /\ f.size = IF k = 1 THEN PlainSize ELSE IF i = k THEN TailSize
                   ELSE FramePayload
  BY <1>1 DEF Fragment, s, n, i
<1>6. Number(f) = n /\ Index(f) = i /\ Count(f) = k
  BY <1>5 DEF Number, Index, Count
<1>7. f.size \in Nat
  BY <1>5, SizeAssumption
<1>8. CASE k = 1
  BY <1>2, <1>3, <1>4, <1>5, <1>6, <1>7, <1>8
<1>9. CASE k # 1 /\ i = 1
  BY <1>2, <1>3, <1>4, <1>5, <1>6, <1>7, <1>9
<1>10. CASE k # 1 /\ i # 1 /\ i = k
  BY <1>2, <1>3, <1>4, <1>5, <1>6, <1>7, <1>10
<1>11. CASE k # 1 /\ i # 1 /\ i # k
  BY <1>2, <1>3, <1>4, <1>5, <1>6, <1>7, <1>11
<1> QED
  BY <1>8, <1>9, <1>10, <1>11

(***************************************************************************)
(* The part of it that arithmetic needs.                                   *)
(***************************************************************************)
LEMMA FrameNumbers ==
  ASSUME NEW f \in Frames
  PROVE  /\ f.from \in Senders
         /\ Number(f) \in Nat
         /\ Index(f) \in Nat
         /\ Count(f) \in Nat
         /\ 1 <= Index(f) /\ Index(f) <= Count(f)
<1>1. /\ f.from \in Senders
      /\ Number(f) \in 1 .. Len(Messages[f.from])
      /\ Count(f) \in Nat \ {0}
      /\ Index(f) \in 1 .. Count(f)
  BY FrameFacts
<1> QED
  BY <1>1

(***************************************************************************)
(* Frames of one sender with the same id belong to the same message.       *)
(***************************************************************************)
LEMMA SameId ==
  ASSUME NEW f \in Frames, NEW e \in Frames, f.from = e.from, f.id = e.id
  PROVE  Same(f, e)
<1>1. f.id = IdBase[f.from] + Number(f)
  BY FrameFacts
<1>2. f.id = IdBase[f.from] + Number(e)
  <2>1. e.id = IdBase[e.from] + Number(e)
    BY FrameFacts
  <2> QED
    BY <2>1
<1>3. /\ IdBase[f.from] \in Nat
      /\ Number(f) \in Nat /\ Number(e) \in Nat
  BY FrameNumbers, SenderAssumption
<1>4. Number(f) = Number(e)
  <2>1. \A i, j, k \in Nat : k + i = k + j => i = j
    OBVIOUS
  <2>2. IdBase[f.from] + Number(f) = IdBase[f.from] + Number(e)
    BY <1>1, <1>2
  <2> QED
    BY <1>3, <2>1, <2>2
<1> QED
  BY <1>4 DEF Same

(***************************************************************************)
(* A place of a message is where its fragment is.                          *)
(***************************************************************************)
LEMMA FragmentFrame ==
  ASSUME NEW s \in Senders, NEW n \in 1 .. Len(Messages[s]),
         NEW i \in 1 .. Messages[s][n]
  PROVE  /\ Fragment(s, n, i) \in Frames
         /\ Fragment(s, n, i).from = s
         /\ Number(Fragment(s, n, i)) = n
         /\ Index(Fragment(s, n, i)) = i
         /\ Count(Fragment(s, n, i)) = Messages[s][n]
<1>1. Messages[s][n] \in Nat
  BY SenderAssumption
<1>2. <<s, n, i>> \in Places
  BY <1>1 DEF Places
<1>3. Fragment(s, n, i) \in Frames
  BY <1>2 DEF Frames
<1> QED
  BY <1>3 DEF Fragment, Number, Index, Count

---------------------------------------------------------------------------
(***************************************************************************)
(* The line without its head, when the message put together and what has   *)
(* arrived change to h and b: the rest of the line must suit them.         *)
(***************************************************************************)
LEMMA TailLine ==
  ASSUME NEW w \in Seq(Frames), w # <<>>, NEW g, NEW a, NEW h, NEW b,
         Line(w, g, a),
         \A q \in 2 .. Len(w) :
           Joins(h, w[q]) =>
             \/ Index(w[q]) <= Len(h.pieces) + 1
             \/ \E r \in 2 .. Len(w) :
                  r < q /\ Same(w[r], w[q]) /\ Index(w[r]) = Index(w[q]) - 1,
         \A q \in 2 .. Len(w) : Fresh(w[q], h, b)
  PROVE  Line(Tail(w), h, b)
<1> DEFINE v == Tail(w)
<1>1. /\ v \in Seq(Frames)
      /\ Len(v) = Len(w) - 1
      /\ \A i \in 1 .. Len(v) : v[i] = w[i + 1]
      /\ Len(w) \in Nat /\ Len(w) > 0
  BY HeadTailProperties, LenProperties, EmptySeq
<1> HIDE DEF v
<1>2. \A i \in 1 .. Len(v) : i + 1 \in 2 .. Len(w) /\ i + 1 \in 1 .. Len(w)
  BY <1>1
<1>3. \A r \in 2 .. Len(w) : r - 1 \in 1 .. Len(v) /\ v[r - 1] = w[r]
  BY <1>1
<1>4. InOrder(v)
  BY <1>1, <1>2 DEF Line, InOrder
<1>5. NoJump(v)
  <2> SUFFICES ASSUME NEW p \in 1 .. Len(v), NEW q \in 1 .. Len(v), p < q,
                      Same(v[p], v[q]), Index(v[p]) < Index(v[q]) - 1
               PROVE  \E r \in 1 .. Len(v) : /\ p < r /\ r < q
                                             /\ Same(v[r], v[q])
                                             /\ Index(v[r]) = Index(v[q]) - 1
    BY DEF NoJump
  <2>1. v[p] = w[p + 1] /\ v[q] = w[q + 1] /\ p + 1 < q + 1
    BY <1>1
  <2>2. PICK r \in 1 .. Len(w) : /\ p + 1 < r /\ r < q + 1
                                 /\ Same(w[r], w[q + 1])
                                 /\ Index(w[r]) = Index(w[q + 1]) - 1
    BY <1>2, <2>1 DEF Line, NoJump
  <2>3. r \in 2 .. Len(w)
    BY <2>2
  <2>4. r - 1 \in 1 .. Len(v) /\ v[r - 1] = w[r] /\ p < r - 1 /\ r - 1 < q
    BY <1>1, <1>3, <2>2, <2>3
  <2> QED
    BY <2>1, <2>2, <2>4
<1>6. Grows(v, h)
  <2> SUFFICES ASSUME NEW q \in 1 .. Len(v), Joins(h, v[q]),
                      ~(Index(v[q]) <= Len(h.pieces) + 1)
               PROVE  \E r \in 1 .. Len(v) : /\ r < q /\ Same(v[r], v[q])
                                             /\ Index(v[r]) = Index(v[q]) - 1
    BY DEF Grows
  <2>1. v[q] = w[q + 1] /\ q + 1 \in 2 .. Len(w)
    BY <1>1, <1>2
  <2>2. PICK r \in 2 .. Len(w) : /\ r < q + 1 /\ Same(w[r], w[q + 1])
                                 /\ Index(w[r]) = Index(w[q + 1]) - 1
    BY <2>1
  <2>3. r - 1 \in 1 .. Len(v) /\ v[r - 1] = w[r] /\ r - 1 < q
    BY <1>1, <1>3, <2>2
  <2> QED
    BY <2>1, <2>2, <2>3
<1>7. AllFresh(v, h, b)
  BY <1>1, <1>2 DEF AllFresh
<1> QED
  BY <1>4, <1>5, <1>6, <1>7 DEF Line, v

(***************************************************************************)
(* A frame that the receiver passes over, having its fragment already, or  *)
(* that cannot join what is put together.                                  *)
(***************************************************************************)
LEMMA SkipLine ==
  ASSUME NEW w \in Seq(Frames), w # <<>>, NEW g, NEW a, Line(w, g, a),
         Len(g.pieces) \in Nat,
         Joins(g, Head(w)) => \/ Index(Head(w)) <= Len(g.pieces)
                              \/ Index(Head(w)) = Count(Head(w))
  PROVE  \A q \in 2 .. Len(w) :
           Joins(g, w[q]) =>
             \/ Index(w[q]) <= Len(g.pieces) + 1
             \/ \E r \in 2 .. Len(w) :
                  r < q /\ Same(w[r], w[q]) /\ Index(w[r]) = Index(w[q]) - 1
<1> SUFFICES ASSUME NEW q \in 2 .. Len(w), Joins(g, w[q]),
                    ~(Index(w[q]) <= Len(g.pieces) + 1)
             PROVE  \E r \in 2 .. Len(w) :
                      r < q /\ Same(w[r], w[q]) /\ Index(w[r]) = Index(w[q]) - 1
  OBVIOUS
<1>1. Len(w) \in Nat /\ Len(w) > 0 /\ Head(w) = w[1]
  BY LenProperties, EmptySeq
<1>2. w[1] \in Frames /\ w[q] \in Frames
  BY <1>1, ElementOfSeq
<1>3. PICK r \in 1 .. Len(w) : /\ r < q /\ Same(w[r], w[q])
                               /\ Index(w[r]) = Index(w[q]) - 1
  BY <1>1 DEF Line, Grows
<1>4. CASE r = 1
  <2>1. Joins(g, w[1]) /\ Count(w[1]) = Count(w[q])
    BY <1>2, <1>3, <1>4, FrameFacts DEF Joins, Same, Count
  <2>2. /\ Index(w[q]) \in Nat /\ Index(w[1]) \in Nat /\ Count(w[q]) \in Nat
        /\ Index(w[q]) <= Count(w[q])
    BY <1>2, FrameNumbers
  <2> QED
    BY <1>1, <1>3, <1>4, <2>1, <2>2
<1> QED
  BY <1>1, <1>3, <1>4

(***************************************************************************)
(* A first fragment with which a new message begins.                       *)
(***************************************************************************)
LEMMA StartLine ==
  ASSUME NEW w \in Seq(Frames), w # <<>>, NEW g, NEW a, Line(w, g, a), NEW h,
         Head(w).type = "first", h.from = Head(w).from, h.id = Head(w).id,
         Len(h.pieces) = 1
  PROVE  Line(Tail(w), h, a)
<1> DEFINE f == w[1]
<1>1. Len(w) \in Nat /\ Len(w) > 0 /\ Head(w) = f
  BY LenProperties, EmptySeq
<1>2. \A q \in 1 .. Len(w) : w[q] \in Frames
  BY <1>1, ElementOfSeq
<1>3. f \in Frames /\ Index(f) = 1 /\ Count(f) > 1 /\ f.type = "first"
  BY <1>1, <1>2, FrameFacts
<1>4. ASSUME NEW q \in 2 .. Len(w), Joins(h, w[q])
      PROVE  Same(f, w[q])
  <2>1. w[q] \in Frames
    BY <1>1, <1>2
  <2>2. f.from = w[q].from /\ f.id = w[q].id
    BY <1>1, <1>4 DEF Joins
  <2> QED
    BY <1>3, <2>1, <2>2, SameId
<1> HIDE DEF f
<1>5. ASSUME NEW q \in 2 .. Len(w), Joins(h, w[q])
      PROVE  \/ Index(w[q]) <= Len(h.pieces) + 1
             \/ \E r \in 2 .. Len(w) :
                  r < q /\ Same(w[r], w[q]) /\ Index(w[r]) = Index(w[q]) - 1
  <2>1. Index(w[q]) \in Nat
    <3>1. w[q] \in Frames
      BY <1>1, <1>2
    <3> QED
      BY <3>1, FrameNumbers
  <2>2. CASE Index(w[q]) > 2
    <3>1. Index(w[1]) < Index(w[q]) - 1 /\ Same(w[1], w[q])
      BY <1>3, <1>4, <1>5, <2>1, <2>2 DEF f
    <3>2. PICK r \in 1 .. Len(w) : /\ 1 < r /\ r < q /\ Same(w[r], w[q])
                                   /\ Index(w[r]) = Index(w[q]) - 1
      BY <1>1, <3>1 DEF Line, NoJump
    <3> QED
      BY <3>2
  <2> QED
    BY <2>1, <2>2
<1>6. ASSUME NEW q \in 2 .. Len(w)
      PROVE  Fresh(w[q], h, a)
  <2>1. Fresh(w[q], g, a) /\ Fresh(f, g, a)
    BY <1>1 DEF Line, AllFresh, f
  <2>2. CASE Joins(h, w[q])
    <3>1. Same(f, w[q])
      BY <1>4, <2>2
    <3>2. Index(f) # Count(f)
      BY <1>3
    <3>3. a[f.from] # Number(f)
      BY <2>1, <3>2 DEF Fresh
    <3> QED
      BY <2>1, <3>1, <3>3 DEF Fresh, Same
  <2> QED
    BY <2>1, <2>2 DEF Fresh
<1> QED
  BY <1>5, <1>6, TailLine

(***************************************************************************)
(* A fragment that continues the message put together.                     *)
(***************************************************************************)
LEMMA MoreLine ==
  ASSUME NEW w \in Seq(Frames), w # <<>>, NEW g, NEW a, Line(w, g, a), NEW h,
         Len(g.pieces) \in Nat, Joins(g, Head(w)),
         Index(Head(w)) = Len(g.pieces) + 1,
         h.from = g.from, h.id = g.id, Len(h.pieces) = Len(g.pieces) + 1
  PROVE  Line(Tail(w), h, a)
<1>1. Len(w) \in Nat /\ Len(w) > 0 /\ Head(w) = w[1]
  BY LenProperties, EmptySeq
<1>2. \A q \in 1 .. Len(w) : w[q] \in Frames
  BY <1>1, ElementOfSeq
<1>3. \A q \in 2 .. Len(w) : Joins(h, w[q]) => Joins(g, w[q])
  BY DEF Joins
<1>4. ASSUME NEW q \in 2 .. Len(w), Joins(h, w[q])
      PROVE  \/ Index(w[q]) <= Len(h.pieces) + 1
             \/ \E r \in 2 .. Len(w) :
                  r < q /\ Same(w[r], w[q]) /\ Index(w[r]) = Index(w[q]) - 1
  <2>1. Index(w[q]) \in Nat
    <3>1. w[q] \in Frames
      BY <1>1, <1>2
    <3> QED
      BY <3>1, FrameNumbers
  <2>2. \/ Index(w[q]) <= Len(g.pieces) + 1
        \/ \E r \in 1 .. Len(w) :
             r < q /\ Same(w[r], w[q]) /\ Index(w[r]) = Index(w[q]) - 1
    BY <1>1, <1>3, <1>4 DEF Line, Grows
  <2>3. CASE Index(w[1]) = Index(w[q]) - 1
    <3>1. Index(w[1]) = Len(g.pieces) + 1
      BY <1>1
    <3> QED
      BY <2>1, <2>3, <3>1
  <2>4. CASE Index(w[q]) <= Len(g.pieces) + 1
    BY <2>1, <2>4
  <2>5. CASE \E r \in 2 .. Len(w) :
               r < q /\ Same(w[r], w[q]) /\ Index(w[r]) = Index(w[q]) - 1
    BY <2>5
  <2> QED
    BY <1>1, <2>2, <2>3, <2>4, <2>5
<1>5. \A q \in 2 .. Len(w) : Fresh(w[q], h, a)
  BY <1>1, <1>3 DEF Line, AllFresh, Fresh
<1> QED
  BY <1>4, <1>5, TailLine

(***************************************************************************)
(* A frame after which nothing is being put together.                      *)
(***************************************************************************)
LEMMA DropLine ==
  ASSUME NEW w \in Seq(Frames), w # <<>>, NEW g, NEW a, Line(w, g, a), NEW h,
         h.reserved = 0
  PROVE  Line(Tail(w), h, a)
<1>1. Len(w) \in Nat
  BY LenProperties
<1>2. \A q \in 2 .. Len(w) : ~Joins(h, w[q]) /\ Fresh(w[q], g, a)
  BY <1>1 DEF Joins, Line, AllFresh
<1>3. \A q \in 2 .. Len(w) : Fresh(w[q], h, a)
  BY <1>2 DEF Fresh
<1> QED
  BY <1>2, <1>3, TailLine

(***************************************************************************)
(* When a message has arrived with the head of the line, what is left of   *)
(* it are repeats of its last fragment.                                    *)
(***************************************************************************)
LEMMA ArrivedFresh ==
  ASSUME NEW w \in Seq(Frames), w # <<>>, NEW g, NEW a \in [Senders -> Nat],
         Line(w, g, a), NEW h,
         Index(Head(w)) = Count(Head(w)),
         \/ Count(Head(w)) = 1 /\ h = g
         \/ h.reserved = 0,
         NEW b, b = [a EXCEPT ![Head(w).from] = Number(Head(w))]
  PROVE  \A q \in 2 .. Len(w) : Fresh(w[q], h, b)
<1> SUFFICES ASSUME NEW q \in 2 .. Len(w)
             PROVE  Fresh(w[q], h, b)
  OBVIOUS
<1> DEFINE f == w[1]
           e == w[q]
<1>1. Len(w) \in Nat /\ Len(w) > 0 /\ Head(w) = f
  BY LenProperties, EmptySeq
<1>2. f \in Frames /\ e \in Frames
  BY <1>1, ElementOfSeq
<1>3. e.from = f.from => Later(f, e)
  BY <1>1 DEF Line, InOrder
<1>4. Fresh(e, g, a)
  BY <1>1 DEF Line, AllFresh
<1>5. /\ Number(f) \in Nat /\ Number(e) \in Nat
      /\ Index(f) \in Nat /\ Count(f) \in Nat
      /\ Index(e) \in Nat /\ Index(e) <= Count(e) /\ Count(e) \in Nat
      /\ f.from \in Senders /\ e.from \in Senders
  BY <1>2, FrameNumbers
<1>6. h.reserved = 0 => ~Joins(h, e)
  BY DEF Joins
<1> HIDE DEF f, e
<1>7. ASSUME e.from = f.from PROVE Fresh(e, h, b)
  <2>1. b[e.from] = Number(f)
    BY <1>1, <1>5, <1>7
  <2>2. CASE Number(f) < Number(e)
    BY <1>5, <2>1, <2>2 DEF Fresh
  <2>3. CASE Number(f) = Number(e) /\ Index(f) <= Index(e) /\ Count(e) > 1
    <3>1. Count(f) = Count(e)
      BY <1>7, <2>3 DEF Count
    <3>2. Index(e) = Count(e) /\ h.reserved = 0
      BY <1>1, <1>5, <2>3, <3>1
    <3> QED
      BY <1>5, <1>6, <2>1, <2>3, <3>2 DEF Fresh
  <2> QED
    BY <1>1, <1>3, <1>7, <2>2, <2>3 DEF Later
<1>8. ASSUME e.from # f.from PROVE Fresh(e, h, b)
  <2>1. b[e.from] = a[e.from]
    BY <1>1, <1>5, <1>8
  <2>2. Joins(h, e) => Joins(g, e)
    BY <1>6 DEF Joins
  <2> QED
    BY <1>1, <1>4, <2>1, <2>2 DEF Fresh
<1> QED
  BY <1>1, <1>7, <1>8 DEF e

---------------------------------------------------------------------------
(***************************************************************************)
(* A line with one more frame.                                             *)
(***************************************************************************)
LEMMA AppendLine ==
  ASSUME NEW w \in Seq(Frames), NEW x \in Frames, NEW g, NEW a
  PROVE  Line(Append(w, x), g, a) <=> Line(w, g, a) /\ CanFollow(w, x, g, a)
<1> DEFINE v == Append(w, x)
           n == Len(w)
<1>1. /\ Len(v) = n + 1 /\ n \in Nat
      /\ \A i \in 1 .. n : v[i] = w[i]
      /\ v[n + 1] = x
  BY AppendProperties, LenProperties
<1> HIDE DEF v, n
<1>2. 1 .. Len(v) = (1 .. n) \cup {n + 1}
  BY <1>1
<1>3. ASSUME Line(v, g, a)
      PROVE  Line(w, g, a)
  <2>1. InOrder(w)
    BY <1>1, <1>2, <1>3 DEF Line, InOrder, n
  <2>2. NoJump(w)
    <3> SUFFICES ASSUME NEW p \in 1 .. n, NEW q \in 1 .. n, p < q,
                        Same(w[p], w[q]), Index(w[p]) < Index(w[q]) - 1
                 PROVE  \E r \in 1 .. n : /\ p < r /\ r < q /\ Same(w[r], w[q])
                                          /\ Index(w[r]) = Index(w[q]) - 1
      BY DEF NoJump, n
    <3>1. PICK r \in 1 .. Len(v) : /\ p < r /\ r < q /\ Same(v[r], v[q])
                                   /\ Index(v[r]) = Index(v[q]) - 1
      BY <1>1, <1>2, <1>3 DEF Line, NoJump
    <3>2. r \in 1 .. n
      BY <1>1, <3>1
    <3> QED
      BY <1>1, <3>1, <3>2
  <2>3. Grows(w, g)
    <3> SUFFICES ASSUME NEW q \in 1 .. n, Joins(g, w[q]),
                        ~(Index(w[q]) <= Len(g.pieces) + 1)
                 PROVE  \E r \in 1 .. n : /\ r < q /\ Same(w[r], w[q])
                                          /\ Index(w[r]) = Index(w[q]) - 1
      BY DEF Grows, n
    <3>1. PICK r \in 1 .. Len(v) : /\ r < q /\ Same(v[r], v[q])
                                   /\ Index(v[r]) = Index(v[q]) - 1
      BY <1>1, <1>2, <1>3 DEF Line, Grows
    <3>2. r \in 1 .. n
      BY <1>1, <3>1
    <3> QED
      BY <1>1, <3>1, <3>2
  <2>4. AllFresh(w, g, a)
    BY <1>1, <1>2, <1>3 DEF Line, AllFresh, n
  <2> QED
    BY <2>1, <2>2, <2>3, <2>4 DEF Line
<1>4. ASSUME Line(v, g, a)
      PROVE  CanFollow(w, x, g, a)
  <2>1. \A p \in 1 .. n : w[p].from = x.from => Later(w[p], x)
    BY <1>1, <1>2, <1>4 DEF Line, InOrder
  <2>2. ASSUME NEW p \in 1 .. n, Same(w[p], x), Index(w[p]) < Index(x) - 1
        PROVE  \E r \in 1 .. n : p < r /\ Same(w[r], x) /\ Index(w[r]) = Index(x) - 1
    <3>1. PICK r \in 1 .. Len(v) : /\ p < r /\ r < n + 1 /\ Same(v[r], v[n + 1])
                                   /\ Index(v[r]) = Index(v[n + 1]) - 1
      BY <1>1, <1>2, <1>4, <2>2 DEF Line, NoJump
    <3>2. r \in 1 .. n
      BY <1>1, <3>1
    <3> QED
      BY <1>1, <3>1, <3>2
  <2>3. ASSUME Joins(g, x), ~(Index(x) <= Len(g.pieces) + 1)
        PROVE  \E r \in 1 .. n : Same(w[r], x) /\ Index(w[r]) = Index(x) - 1
    <3>1. PICK r \in 1 .. Len(v) : /\ r < n + 1 /\ Same(v[r], v[n + 1])
                                   /\ Index(v[r]) = Index(v[n + 1]) - 1
      BY <1>1, <1>2, <1>4, <2>3 DEF Line, Grows
    <3>2. r \in 1 .. n
      BY <1>1, <3>1
    <3> QED
      BY <1>1, <3>1, <3>2
  <2>4. Fresh(x, g, a)
    BY <1>1, <1>2, <1>4 DEF Line, AllFresh
  <2> QED
    BY <2>1, <2>2, <2>3, <2>4 DEF CanFollow, n
<1>5. ASSUME Line(w, g, a), CanFollow(w, x, g, a)
      PROVE  Line(v, g, a)
  <2>1. InOrder(v)
    <3> SUFFICES ASSUME NEW p \in 1 .. Len(v), NEW q \in 1 .. Len(v), p < q,
                        v[p].from = v[q].from
                 PROVE  Later(v[p], v[q])
      BY DEF InOrder
    <3>1. p \in 1 .. n
      BY <1>1
    <3>2. CASE q = n + 1
      BY <1>1, <1>5, <3>1, <3>2 DEF CanFollow, n
    <3>3. CASE q \in 1 .. n
      BY <1>1, <1>5, <3>1, <3>3 DEF Line, InOrder, n
    <3> QED
      BY <1>2, <3>2, <3>3
  <2>2. NoJump(v)
    <3> SUFFICES ASSUME NEW p \in 1 .. Len(v), NEW q \in 1 .. Len(v), p < q,
                        Same(v[p], v[q]), Index(v[p]) < Index(v[q]) - 1
                 PROVE  \E r \in 1 .. Len(v) : /\ p < r /\ r < q
                                               /\ Same(v[r], v[q])
                                               /\ Index(v[r]) = Index(v[q]) - 1
      BY DEF NoJump
    <3>1. p \in 1 .. n /\ v[p] = w[p]
      BY <1>1
    <3>2. CASE q = n + 1
      <4>1. PICK r \in 1 .. n : /\ p < r /\ Same(w[r], x)
                                /\ Index(w[r]) = Index(x) - 1
        BY <1>1, <1>5, <3>1, <3>2 DEF CanFollow, n
      <4>2. r \in 1 .. Len(v) /\ r < q /\ v[r] = w[r] /\ v[q] = x
        BY <1>1, <3>2, <4>1
      <4> QED
        BY <4>1, <4>2
    <3>3. CASE q \in 1 .. n
      <4>1. PICK r \in 1 .. n : /\ p < r /\ r < q /\ Same(w[r], w[q])
                                /\ Index(w[r]) = Index(w[q]) - 1
        BY <1>1, <1>5, <3>1, <3>3 DEF Line, NoJump, n
      <4>2. r \in 1 .. Len(v) /\ v[r] = w[r] /\ v[q] = w[q]
        BY <1>1, <3>3, <4>1
      <4> QED
        BY <4>1, <4>2
    <3> QED
      BY <1>2, <3>2, <3>3
  <2>3. Grows(v, g)
    <3> SUFFICES ASSUME NEW q \in 1 .. Len(v), Joins(g, v[q]),
                        ~(Index(v[q]) <= Len(g.pieces) + 1)
                 PROVE  \E r \in 1 .. Len(v) : /\ r < q /\ Same(v[r], v[q])
                                               /\ Index(v[r]) = Index(v[q]) - 1
      BY DEF Grows
    <3>1. PICK r \in 1 .. n : /\ r < q /\ Same(w[r], v[q])
                              /\ Index(w[r]) = Index(v[q]) - 1
      <4>1. CASE q = n + 1
        BY <1>1, <1>5, <4>1 DEF CanFollow, n
      <4>2. CASE q \in 1 .. n
        BY <1>1, <1>5, <4>2 DEF Line, Grows, n
      <4> QED
        BY <1>2, <4>1, <4>2
    <3>2. r \in 1 .. Len(v) /\ v[r] = w[r]
      BY <1>1
    <3> QED
      BY <3>1, <3>2
  <2>4. AllFresh(v, g, a)
    BY <1>1, <1>2, <1>5 DEF Line, AllFresh, CanFollow, n
  <2> QED
    BY <2>1, <2>2, <2>3, <2>4 DEF Line
<1> QED
  BY <1>3, <1>4, <1>5 DEF v

(***************************************************************************)
(* Frames of one sender do not matter to those of another.                 *)
(***************************************************************************)
LEMMA OthersFollow ==
  ASSUME NEW w \in Seq(Frames), NEW x \in Frames, NEW z \in Frames,
         NEW g, NEW a, CanFollow(w, z, g, a), x.from # z.from
  PROVE  CanFollow(Append(w, x), z, g, a)
<1>1. /\ Len(Append(w, x)) = Len(w) + 1 /\ Len(w) \in Nat
      /\ \A i \in 1 .. Len(w) : Append(w, x)[i] = w[i]
      /\ Append(w, x)[Len(w) + 1] = x
  BY AppendProperties, LenProperties
<1>2. 1 .. Len(w) + 1 = (1 .. Len(w)) \cup {Len(w) + 1}
  BY <1>1
<1>3. ~Same(x, z)
  BY DEF Same
<1> QED
  BY <1>1, <1>2, <1>3 DEF CanFollow

(***************************************************************************)
(* What the sender of x sends after it: x again, when its message has more *)
(* than one fragment, or the next fragment.                                *)
(***************************************************************************)
LEMMA SenderGoesOn ==
  ASSUME NEW w \in Seq(Frames), NEW x \in Frames, NEW y \in Frames,
         NEW g, NEW a, CanFollow(w, x, g, a), Same(x, y), Count(x) > 1,
         \/ y = x
         \/ Index(y) = Index(x) + 1
  PROVE  CanFollow(Append(w, x), y, g, a)
<1> DEFINE v == Append(w, x)
           n == Len(w)
<1>1. /\ Len(v) = n + 1 /\ n \in Nat
      /\ \A i \in 1 .. n : v[i] = w[i]
      /\ v[n + 1] = x
  BY AppendProperties, LenProperties
<1> HIDE DEF v, n
<1>2. 1 .. Len(v) = (1 .. n) \cup {n + 1}
  BY <1>1
<1>3. /\ Index(x) \in Nat /\ Index(y) \in Nat /\ Number(x) \in Nat
      /\ Number(y) = Number(x) /\ y.from = x.from /\ Count(y) = Count(x)
      /\ Count(x) \in Nat /\ Index(x) <= Count(x) /\ Index(y) <= Count(x)
  BY FrameNumbers DEF Same, Count
<1>4. \A p \in 1 .. n : w[p] \in Frames
  BY ElementOfSeq DEF n
<1>5. \A p \in 1 .. n : Index(w[p]) \in Nat /\ Number(w[p]) \in Nat
  BY <1>4, FrameNumbers
<1>6. \A p \in 1 .. Len(v) : v[p].from = y.from => Later(v[p], y)
  <2> SUFFICES ASSUME NEW p \in 1 .. Len(v), v[p].from = y.from
               PROVE  Later(v[p], y)
    OBVIOUS
  <2>1. CASE p = n + 1
    BY <1>1, <1>3, <2>1 DEF Later
  <2>2. CASE p \in 1 .. n
    <3>1. Later(w[p], x)
      BY <1>1, <1>3, <2>2 DEF CanFollow, n
    <3> QED
      BY <1>1, <1>3, <1>5, <2>2, <3>1 DEF Later
  <2> QED
    BY <1>2, <2>1, <2>2
<1>7. ASSUME Index(y) = Index(x) + 1
      PROVE  /\ n + 1 \in 1 .. Len(v) /\ Same(v[n + 1], y)
             /\ Index(v[n + 1]) = Index(y) - 1
  BY <1>1, <1>3, <1>7
<1>8. \A p \in 1 .. Len(v) :
        Same(v[p], y) /\ Index(v[p]) < Index(y) - 1 =>
          \E r \in 1 .. Len(v) :
            p < r /\ Same(v[r], y) /\ Index(v[r]) = Index(y) - 1
  <2> SUFFICES ASSUME NEW p \in 1 .. Len(v), Same(v[p], y),
                      Index(v[p]) < Index(y) - 1
               PROVE  \E r \in 1 .. Len(v) :
                        p < r /\ Same(v[r], y) /\ Index(v[r]) = Index(y) - 1
    OBVIOUS
  <2>1. p \in 1 .. n
    BY <1>1, <1>2, <1>3
  <2>2. CASE y = x
    <3>1. PICK r \in 1 .. n : p < r /\ Same(w[r], x) /\ Index(w[r]) = Index(x) - 1
      BY <1>1, <2>1, <2>2 DEF CanFollow, n
    <3> QED
      BY <1>1, <1>2, <2>2, <3>1
  <2>3. CASE Index(y) = Index(x) + 1
    BY <1>1, <1>7, <2>1, <2>3
  <2> QED
    BY <2>2, <2>3
<1>9. Joins(g, y) =>
        \/ Index(y) <= Len(g.pieces) + 1
        \/ \E r \in 1 .. Len(v) : Same(v[r], y) /\ Index(v[r]) = Index(y) - 1
  <2>1. CASE y = x
    BY <1>1, <1>2, <2>1 DEF CanFollow, n
  <2>2. CASE Index(y) = Index(x) + 1
    BY <1>7, <2>2
  <2> QED
    BY <2>1, <2>2
<1>10. Fresh(y, g, a)
  <2>1. CASE y = x
    BY <2>1 DEF CanFollow
  <2>2. CASE Index(y) = Index(x) + 1
    <3>1. Index(x) # Count(x)
      BY <1>3, <2>2
    <3>2. a[x.from] <= Number(x) /\ a[x.from] # Number(x)
      BY <3>1 DEF CanFollow, Fresh
    <3> QED
      BY <1>3, <3>2 DEF Fresh
  <2> QED
    BY <2>1, <2>2
<1> QED
  BY <1>6, <1>8, <1>9, <1>10 DEF CanFollow, v

(***************************************************************************)
(* Or the first frame of its next message, whether x was heard or not.     *)
(***************************************************************************)
LEMMA SenderMovesOn ==
  ASSUME NEW w \in Seq(Frames), NEW x \in Frames, NEW y \in Frames,
         NEW g, NEW a \in [Senders -> Nat], CanFollow(w, x, g, a),
         Len(g.pieces) \in Nat,
         y.from = x.from, Number(y) = Number(x) + 1, Index(y) = 1
  PROVE  /\ CanFollow(w, y, g, a)
         /\ CanFollow(Append(w, x), y, g, a)
<1>1. /\ Number(x) \in Nat /\ Number(y) \in Nat /\ x.from \in Senders
  BY FrameNumbers
<1>2. Fresh(y, g, a)
  <2>1. a[x.from] \in Nat /\ a[x.from] <= Number(x)
    BY <1>1 DEF CanFollow, Fresh
  <2> QED
    BY <1>1, <2>1 DEF Fresh
<1>3. ASSUME NEW v \in Seq(Frames),
             \A p \in 1 .. Len(v) : v[p].from = x.from => Number(v[p]) <= Number(x)
      PROVE  CanFollow(v, y, g, a)
  <2>1. \A p \in 1 .. Len(v) : v[p] \in Frames
    BY ElementOfSeq
  <2>2. \A p \in 1 .. Len(v) : Number(v[p]) \in Nat /\ Index(v[p]) \in Nat
                                /\ 1 <= Index(v[p])
    BY <2>1, FrameNumbers
  <2>3. \A p \in 1 .. Len(v) : v[p].from = y.from => Number(v[p]) < Number(y)
    BY <1>1, <1>3, <2>2
  <2> QED
    BY <1>2, <2>2, <2>3 DEF CanFollow, Later
<1>4. \A p \in 1 .. Len(w) : w[p].from = x.from => Number(w[p]) <= Number(x)
  <2>1. \A p \in 1 .. Len(w) : w[p] \in Frames
    BY ElementOfSeq
  <2>2. \A p \in 1 .. Len(w) : Number(w[p]) \in Nat
    BY <2>1, FrameNumbers
  <2> QED
    BY <1>1, <2>2 DEF CanFollow, Later
<1>5. /\ Append(w, x) \in Seq(Frames)
      /\ \A p \in 1 .. Len(Append(w, x)) :
           Append(w, x)[p].from = x.from => Number(Append(w, x)[p]) <= Number(x)
  <2>1. /\ Append(w, x) \in Seq(Frames)
        /\ Len(Append(w, x)) = Len(w) + 1 /\ Len(w) \in Nat
        /\ \A i \in 1 .. Len(w) : Append(w, x)[i] = w[i]
        /\ Append(w, x)[Len(w) + 1] = x
    BY AppendProperties, LenProperties
  <2>2. 1 .. Len(w) + 1 = (1 .. Len(w)) \cup {Len(w) + 1}
    BY <2>1
  <2> QED
    BY <1>1, <1>4, <2>1, <2>2
<1> QED
  BY <1>3, <1>4, <1>5

---------------------------------------------------------------------------
(***************************************************************************)
(* What enqueue() may do with a frame f.                                   *)
(***************************************************************************)
FragType == [from : Senders \cup {"none"}, id : Nat, reserved : Nat,
             pieces : Part, size : Nat]

Skipped(f) ==
  /\ UNCHANGED <<queue, arrived, frag>>
  /\ Joins(frag, f) => \/ Index(f) <= Len(frag.pieces)
                       \/ Index(f) = Count(f)

Dropped(f) ==
  /\ UNCHANGED <<queue, arrived>>
  /\ frag' \in FragType
  /\ frag'.reserved = 0

Started(f) ==
  /\ UNCHANGED <<queue, arrived>>
  /\ frag' \in FragType
  /\ f.type = "first"
  /\ frag'.from = f.from /\ frag'.id = f.id
  /\ Len(frag'.pieces) = 1
  /\ Beginning(frag')

Continued(f) ==
  /\ UNCHANGED <<queue, arrived>>
  /\ frag' \in FragType
  /\ Joins(frag, f)
  /\ Index(f) = Len(frag.pieces) + 1
  /\ frag'.from = frag.from /\ frag'.id = frag.id
  /\ Len(frag'.pieces) = Len(frag.pieces) + 1
  /\ Beginning(frag')

Arrives(f) ==
  /\ \E m \in Stored : /\ queue' = Append(queue, m)
                       /\ Meaning(m) = <<f.from, Number(f)>>
  /\ arrived[f.from] < Number(f)
  /\ arrived' = [arrived EXCEPT ![f.from] = Number(f)]
  /\ Index(f) = Count(f)
  /\ \/ Count(f) = 1 /\ frag' = frag
     \/ frag' \in FragType /\ frag'.reserved = 0

Handled(f) ==
  Skipped(f) \/ Dropped(f) \/ Started(f) \/ Continued(f) \/ Arrives(f)

(***************************************************************************)
(* The piece a frame carries, alone.                                       *)
(***************************************************************************)
LEMMA OnePiece ==
  ASSUME NEW f \in Frames
  PROVE  /\ <<f.piece>> \in Part
         /\ Len(<<f.piece>>) = 1
         /\ f.piece \in Senders \X Nat \X Nat
         /\ Index(f) = 1 =>
              <<f.piece>> = [i \in 1 .. 1 |-> <<f.from, Number(f), i>>]
<1>1. f.piece = <<f.from, Number(f), Index(f)>>
  BY FrameFacts
<1>2. f.from \in Senders /\ Number(f) \in Nat /\ Index(f) \in Nat
  BY FrameNumbers
<1>3. <<f.from, Number(f), Index(f)>> \in Senders \X Nat \X Nat
  BY <1>2
<1>4. f.piece \in Senders \X Nat \X Nat
  BY <1>1, <1>3
<1>5. ASSUME Index(f) = 1
      PROVE  <<f.piece>> = [i \in 1 .. 1 |-> <<f.from, Number(f), i>>]
  BY <1>1, <1>5
<1> QED
  BY <1>4, <1>5 DEF Part

(***************************************************************************)
(* The head of the radio's frames.                                         *)
(***************************************************************************)
LEMMA HeadFacts ==
  ASSUME CacheInv, fifo # <<>>
  PROVE  /\ Head(fifo) \in Frames
         /\ Tail(fifo) \in Seq(Frames)
         /\ Fresh(Head(fifo), frag, arrived)
         /\ Joins(frag, Head(fifo)) =>
              Index(Head(fifo)) <= Len(frag.pieces) + 1
<1>1. fifo \in Seq(Frames) /\ Line(fifo, frag, arrived)
  BY DEF CacheInv
<1>2. Len(fifo) \in Nat /\ Len(fifo) > 0 /\ Head(fifo) = fifo[1]
  BY <1>1, LenProperties, EmptySeq
<1>3. 1 \in 1 .. Len(fifo) /\ \A r \in 1 .. Len(fifo) : ~(r < 1)
  BY <1>2
<1> QED
  BY <1>1, <1>2, <1>3, HeadTailProperties DEF Line, Grows, AllFresh

(***************************************************************************)
(* A message of one frame.                                                 *)
(***************************************************************************)
LEMMA PlainHandled ==
  ASSUME CacheInv, fifo # <<>>, Head(fifo).type = "plain",
         EnqueuePlain(Head(fifo))
  PROVE  Handled(Head(fifo))
<1> DEFINE f == Head(fifo)
           m == [from |-> f.from, id |-> f.id, pieces |-> <<f.piece>>,
                 size |-> f.size]
<1>1. f \in Frames /\ Fresh(f, frag, arrived)
  BY HeadFacts
<1>2. /\ f.from \in Senders /\ f.piece = <<f.from, Number(f), Index(f)>>
      /\ f.id \in Nat /\ f.size \in Nat /\ Count(f) = 1
  BY <1>1, FrameFacts
<1>3. /\ Number(f) \in Nat /\ Index(f) = 1
  BY <1>1, <1>2, FrameNumbers
<1>4. CASE Refuse
  BY <1>2, <1>3, <1>4 DEF EnqueuePlain, Refuse, Handled, Skipped
<1>5. CASE Store(m)
  <2>1. <<f.piece>> \in Part
    BY <1>1, OnePiece
  <2>2. m.pieces = <<f.piece>>
    OBVIOUS
  <2>3. m \in Stored
    BY <1>2, <2>1 DEF Stored
  <2>4. m.pieces[1] = f.piece /\ m.pieces[1][1] = f.from
        /\ m.pieces[1][2] = Number(f) /\ m.from = f.from
    BY <1>2
  <2>5. Meaning(m) = <<f.from, Number(f)>>
    <3>1. Messages[f.from][Number(f)] = 1
      BY <1>2 DEF Count
    <3>2. m.pieces = [i \in 1 .. 1 |-> <<f.from, Number(f), i>>]
      BY <1>1, <1>3, <2>2, OnePiece
    <3> HIDE DEF m
    <3> QED
      BY <2>4, <3>1, <3>2 DEF Meaning
  <2>6. arrived[f.from] < Number(f)
    <3>1. arrived[f.from] \in Nat
      BY <1>2 DEF CacheInv
    <3>2. arrived[f.from] <= Number(f) /\ arrived[f.from] # Number(f)
      BY <1>1, <1>2 DEF Fresh
    <3> QED
      BY <1>3, <3>1, <3>2
  <2>7. queue' = Append(queue, m)
        /\ arrived' = [arrived EXCEPT ![f.from] = Number(f)]
    BY <1>5, <2>4 DEF Store
  <2>8. frag' = frag
    BY DEF EnqueuePlain
  <2> QED
    BY <1>2, <1>3, <2>3, <2>5, <2>6, <2>7, <2>8 DEF Handled, Arrives
<1> QED
  BY <1>4, <1>5 DEF EnqueuePlain

(***************************************************************************)
(* A first fragment.                                                       *)
(***************************************************************************)
LEMMA FirstHandled ==
  ASSUME CacheInv, fifo # <<>>, Head(fifo).type = "first",
         EnqueueFirst(Head(fifo))
  PROVE  Handled(Head(fifo))
<1> DEFINE f == Head(fifo)
<1>1. f \in Frames
  BY HeadFacts
<1>2. /\ f.from \in Senders /\ Number(f) \in 1 .. Len(Messages[f.from])
      /\ f.piece = <<f.from, Number(f), Index(f)>>
      /\ f.id = IdBase[f.from] + Number(f)
      /\ f.id \in Nat /\ f.size \in Nat
      /\ Count(f) > 1 /\ Index(f) = 1 /\ f.reserved = Count(f)
  BY <1>1, FrameFacts
<1>3. Number(f) \in Nat /\ Count(f) \in Nat
  BY <1>1, FrameNumbers
<1>4. UNCHANGED <<queue, arrived>>
  BY DEF EnqueueFirst, Refuse
<1>5. frag \in FragType
  BY DEF CacheInv, FragType
<1>6. CASE frag' = [frag EXCEPT !.reserved = 0]
  BY <1>4, <1>5, <1>6 DEF Handled, Dropped, FragType
<1>7. CASE Repeats(f) /\ frag' = frag
  <2>1. Joins(frag, f) => 1 <= Len(frag.pieces)
    BY SenderAssumption DEF CacheInv, Beginning, Joins
  <2> QED
    BY <1>2, <1>4, <1>7, <2>1 DEF Handled, Skipped
<1>8. CASE frag' = [from |-> f.from, id |-> f.id, reserved |-> f.reserved - 1,
                    pieces |-> <<f.piece>>, size |-> f.size]
  <2>2. <<f.piece>> \in Part /\ Len(<<f.piece>>) = 1
    BY <1>1, OnePiece
  <2> HIDE DEF f
  <2>3. /\ frag'.from = f.from /\ frag'.id = f.id
        /\ frag'.pieces = <<f.piece>> /\ frag'.reserved = Count(f) - 1
    BY <1>2, <1>8
  <2>4. frag' \in FragType
    BY <1>2, <1>3, <1>8, <2>2 DEF FragType
  <2>5. Beginning(frag')
    <3>1. Count(f) = Messages[f.from][Number(f)]
      BY DEF Count
    <3>2. <<f.piece>> = [i \in 1 .. 1 |-> <<f.from, Number(f), i>>]
      BY <1>1, <1>2, OnePiece
    <3>3. Len(frag'.pieces) = 1 /\ 1 \in 1 .. Count(f) - 1
      BY <1>2, <1>3, <2>2, <2>3
    <3> QED
      BY <1>2, <2>3, <3>1, <3>2, <3>3 DEF Beginning
  <2> QED
    BY <1>4, <2>2, <2>3, <2>4, <2>5 DEF Handled, Started, f
<1>9. f.reserved > MaxFragments \/ f.reserved <= MaxFragments
  <2>1. MaxFragments \in Int
    BY SizeAssumption DEF MaxFragments
  <2> QED
    BY <1>2, <1>3, <2>1
<1> HIDE DEF f
<1>10. EnqueueFirst(f)
  BY DEF f
<1>11. \/ frag' = [frag EXCEPT !.reserved = 0]
       \/ Repeats(f) /\ frag' = frag
       \/ frag' = [from |-> f.from, id |-> f.id, reserved |-> f.reserved - 1,
                   pieces |-> <<f.piece>>, size |-> f.size]
  BY <1>9, <1>10 DEF EnqueueFirst
<1> QED
  BY <1>6, <1>7, <1>8, <1>11 DEF f

(***************************************************************************)
(* A fragment that fits belongs to the message put together and is the     *)
(* next one of it, the last fragment too.                                  *)
(***************************************************************************)
LEMMA NextPiece ==
  ASSUME IdsApart, CacheInv, fifo # <<>>, Follows(Head(fifo)),
         Head(fifo).type \in {"more", "last"}
  PROVE  LET f == Head(fifo)
             k == Len(frag.pieces)
         IN /\ Joins(frag, f)
            /\ k \in Nat
            /\ Index(f) = k + 1
            /\ frag.from = f.from
            /\ frag.reserved = Count(f) - k
            /\ Append(frag.pieces, f.piece) \in Part
            /\ Len(Append(frag.pieces, f.piece)) = k + 1
            /\ Append(frag.pieces, f.piece)
                 = [i \in 1 .. k + 1 |-> <<f.from, Number(f), i>>]
<1> DEFINE f == Head(fifo)
           k == Len(frag.pieces)
<1>1. f \in Frames
  BY HeadFacts
<1>2. /\ f.from \in Senders /\ Number(f) \in 1 .. Len(Messages[f.from])
      /\ f.piece = <<f.from, Number(f), Index(f)>>
      /\ f.id = IdBase[f.from] + Number(f)
      /\ f.type = "more" => /\ Index(f) > 1 /\ Index(f) < Count(f)
                            /\ f.reserved = Count(f) - Index(f) + 1
      /\ f.type = "last" => Count(f) > 1 /\ Index(f) = Count(f)
  BY <1>1, FrameFacts
<1>3. /\ Number(f) \in Nat /\ Count(f) \in Nat /\ Index(f) \in Nat
      /\ Count(f) = Messages[f.from][Number(f)]
  BY <1>1, FrameNumbers DEF Count
<1>4. /\ frag.reserved # 0 /\ frag.id = f.id
      /\ f.type = "last" \/ f.reserved = frag.reserved
  BY DEF Follows
<1> DEFINE Begins(s, n) == /\ frag.from = s
                           /\ frag.id = IdBase[s] + n
                           /\ k \in 1 .. Messages[s][n] - 1
                           /\ frag.reserved = Messages[s][n] - k
                           /\ frag.pieces = [i \in 1 .. k |-> <<s, n, i>>]
<1>a. PICK s \in Senders : \E n \in 1 .. Len(Messages[s]) : Begins(s, n)
  BY <1>4 DEF CacheInv, Beginning
<1>5. PICK n \in 1 .. Len(Messages[s]) : Begins(s, n)
  BY <1>a
<1>6. s = f.from
  <2>1. IdBase[s] + n = IdBase[f.from] + Number(f)
    BY <1>2, <1>4, <1>5
  <2> QED
    BY <1>2, <1>5, <2>1 DEF IdsApart
<1>7. n = Number(f)
  <2>1. IdBase[s] \in Nat /\ n \in Nat
    BY <1>5, SenderAssumption
  <2>2. \A i, j, b \in Nat : b + i = b + j => i = j
    OBVIOUS
  <2>3. IdBase[s] + n = IdBase[s] + Number(f)
    BY <1>2, <1>4, <1>5, <1>6
  <2> QED
    BY <1>3, <2>1, <2>2, <2>3
<1>8. Joins(frag, f)
  BY <1>4, <1>5, <1>6 DEF Joins
<1>9. k \in Nat /\ k >= 1 /\ k <= Count(f) - 1 /\ frag.reserved = Count(f) - k
  BY <1>3, <1>5, <1>6, <1>7
<1>10. Index(f) = k + 1
  <2>1. CASE f.type = "last"
    <3>1. Index(f) <= k + 1
      BY <1>8, HeadFacts
    <3> QED
      BY <1>2, <1>3, <1>9, <2>1, <3>1
  <2>2. CASE f.type = "more"
    <3>1. Count(f) - Index(f) + 1 = Count(f) - k
      BY <1>2, <1>4, <1>9, <2>2
    <3> QED
      BY <1>3, <1>9, <3>1
  <2> QED
    BY <2>1, <2>2
<1>11. frag.pieces \in Part /\ f.piece \in Senders \X Nat \X Nat
  BY <1>1, OnePiece DEF CacheInv
<1> DEFINE v == Append(frag.pieces, f.piece)
<1>12. /\ v \in Part /\ Len(v) = k + 1
       /\ \A i \in 1 .. k : v[i] = frag.pieces[i]
       /\ v[k + 1] = f.piece
  BY <1>11, AppendProperties DEF Part
<1>13. v = [i \in 1 .. k + 1 |-> <<f.from, Number(f), i>>]
  <2> DEFINE u == [i \in 1 .. k + 1 |-> <<f.from, Number(f), i>>]
  <2>1. \A i \in 1 .. k : frag.pieces[i] = <<f.from, Number(f), i>>
    BY <1>5, <1>6, <1>7
  <2>2. f.piece = <<f.from, Number(f), k + 1>>
    BY <1>2, <1>10
  <2>3. \A i \in 1 .. k + 1 : i \in 1 .. k \/ i = k + 1
    BY <1>9
  <2> HIDE DEF v, f, k
  <2>4. \A i \in 1 .. k + 1 : v[i] = <<f.from, Number(f), i>>
    BY <1>12, <2>1, <2>2, <2>3
  <2>5. v = [i \in 1 .. k + 1 |-> v[i]]
    BY <1>12, LenProperties DEF Part
  <2> QED
    BY <2>4, <2>5
<1> QED
  BY <1>5, <1>6, <1>8, <1>9, <1>10, <1>12, <1>13

(***************************************************************************)
(* The other fragments.                                                    *)
(***************************************************************************)
LEMMA MoreHandled ==
  ASSUME IdsApart, CacheInv, fifo # <<>>,
         Head(fifo).type \in {"more", "last"}, EnqueueMore(Head(fifo))
  PROVE  Handled(Head(fifo))
<1> DEFINE f == Head(fifo)
           k == Len(frag.pieces)
           whole == [frag EXCEPT !.pieces = Append(@, f.piece),
                                 !.size = @ + f.size]
           m == [from |-> frag.from, id |-> frag.id,
                 pieces |-> whole.pieces, size |-> whole.size]
<1>1. f \in Frames /\ Fresh(f, frag, arrived)
  BY HeadFacts
<1>2. /\ f.from \in Senders /\ Number(f) \in 1 .. Len(Messages[f.from])
      /\ f.id = IdBase[f.from] + Number(f)
      /\ f.size \in Nat
      /\ f.type = "more" => /\ Index(f) > 1 /\ Index(f) < Count(f)
                            /\ f.reserved = Count(f) - Index(f) + 1
      /\ f.type = "last" => Count(f) > 1 /\ Index(f) = Count(f)
  BY <1>1, FrameFacts
<1>3. /\ Number(f) \in Nat /\ Count(f) \in Nat /\ Index(f) \in Nat
      /\ Count(f) = Messages[f.from][Number(f)]
  BY <1>1, FrameNumbers DEF Count
<1>4. frag \in FragType
  BY DEF CacheInv, FragType
<1>5. CASE Refuse /\ frag' = [frag EXCEPT !.reserved = 0]
  BY <1>4, <1>5 DEF Handled, Dropped, FragType, Refuse
<1>6. CASE Refuse /\ frag' = frag /\ ~Follows(f)
  <2>1. ASSUME Joins(frag, f), ~(Index(f) = Count(f))
        PROVE  Index(f) <= Len(frag.pieces)
    <3>1. f.type = "more" /\ f.reserved = Count(f) - Index(f) + 1
      BY <1>2, <2>1
    <3>2. f.reserved # frag.reserved
      BY <1>6, <2>1, <3>1 DEF Follows, Joins
    <3> DEFINE Begins(s, n) == /\ frag.from = s /\ frag.id = IdBase[s] + n
                               /\ k \in 1 .. Messages[s][n] - 1
                               /\ frag.reserved = Messages[s][n] - k
    <3>a. PICK s \in Senders : \E n \in 1 .. Len(Messages[s]) : Begins(s, n)
      BY <2>1 DEF CacheInv, Beginning, Joins
    <3>3. PICK n \in 1 .. Len(Messages[s]) : Begins(s, n)
      BY <3>a
    <3>4. s = f.from /\ n = Number(f)
      <4>1. IdBase[s] \in Nat /\ n \in Nat
        BY <3>3, SenderAssumption
      <4>2. \A i, j, b \in Nat : b + i = b + j => i = j
        OBVIOUS
      <4>3. s = f.from /\ IdBase[s] + n = IdBase[s] + Number(f)
        BY <1>2, <2>1, <3>3 DEF Joins
      <4> QED
        BY <1>3, <4>1, <4>2, <4>3
    <3>5. k \in Nat /\ frag.reserved = Count(f) - k
      BY <1>3, <3>3, <3>4
    <3>6. Index(f) <= k + 1
      BY <2>1, HeadFacts
    <3>7. Index(f) # k + 1
      BY <1>3, <3>1, <3>2, <3>5
    <3> QED
      BY <1>3, <3>5, <3>6, <3>7
  <2> QED
    BY <1>6, <2>1 DEF Handled, Skipped, Refuse
<1>7. ASSUME Follows(f)
      PROVE  /\ Joins(frag, f) /\ k \in Nat /\ Index(f) = k + 1
             /\ frag.from = f.from /\ frag.reserved = Count(f) - k
             /\ Append(frag.pieces, f.piece) \in Part
             /\ Len(Append(frag.pieces, f.piece)) = k + 1
             /\ Append(frag.pieces, f.piece)
                  = [i \in 1 .. k + 1 |-> <<f.from, Number(f), i>>]
  BY <1>7, NextPiece
<1>8. /\ whole.pieces = Append(frag.pieces, f.piece)
      /\ whole.size = frag.size + f.size
      /\ whole.from = frag.from /\ whole.id = frag.id
      /\ whole.reserved = frag.reserved
  BY <1>4 DEF FragType
<1>9. ASSUME Follows(f) PROVE whole \in FragType
  <2>1. frag.size + f.size \in Nat
    BY <1>2, <1>4 DEF FragType
  <2> QED
    BY <1>4, <1>7, <1>9, <2>1 DEF FragType
<1>10. CASE /\ Follows(f) /\ f.type = "more" /\ Refuse
            /\ frag' = [whole EXCEPT !.reserved = @ - 1]
  <2>1. /\ frag.reserved - 1 = Count(f) - (k + 1)
        /\ frag.reserved - 1 \in Nat
        /\ k + 1 \in 1 .. Count(f) - 1
    <3>1. Index(f) < Count(f)
      BY <1>2, <1>10
    <3>2. k \in Nat /\ Index(f) = k + 1 /\ frag.reserved = Count(f) - k
      BY <1>7, <1>10
    <3> HIDE DEF f, k
    <3> QED
      BY <1>3, <3>1, <3>2
  <2> HIDE DEF whole
  <2>2. /\ frag'.from = frag.from /\ frag'.id = frag.id
        /\ frag'.pieces = Append(frag.pieces, f.piece)
        /\ frag'.reserved = frag.reserved - 1
        /\ frag' \in FragType
    BY <1>8, <1>9, <1>10, <2>1 DEF FragType
  <2>3. Beginning(frag')
    <3>1. frag'.from = f.from /\ frag'.id = IdBase[f.from] + Number(f)
      BY <1>2, <1>7, <1>10, <2>2 DEF Joins
    <3>2. Len(frag'.pieces) = k + 1
      BY <1>7, <1>10, <2>2
    <3>3. frag'.pieces = [i \in 1 .. Len(frag'.pieces) |->
                             <<f.from, Number(f), i>>]
      BY <1>7, <1>10, <2>2, <3>2
    <3>4. /\ Len(frag'.pieces) \in 1 .. Messages[f.from][Number(f)] - 1
          /\ frag'.reserved = Messages[f.from][Number(f)] - Len(frag'.pieces)
      BY <1>3, <2>1, <2>2, <3>2
    <3> HIDE DEF f, k
    <3> QED
      BY <1>2, <3>1, <3>3, <3>4 DEF Beginning
  <2> QED
    BY <1>7, <1>10, <2>2, <2>3 DEF Handled, Continued, Refuse
<1>11. CASE /\ Follows(f) /\ f.type = "last"
            /\ frag' = [whole EXCEPT !.reserved = 0]
            /\ Refuse \/ Store(m)
  <2> HIDE DEF whole
  <2>1. frag' \in FragType /\ frag'.reserved = 0
    BY <1>8, <1>9, <1>11 DEF FragType
  <2>2. CASE Refuse
    BY <2>1, <2>2 DEF Handled, Dropped, Refuse
  <2>3. CASE Store(m)
    <3>1. /\ m.from = f.from /\ m.from \in Senders
          /\ m.pieces = [i \in 1 .. Count(f) |-> <<f.from, Number(f), i>>]
      BY <1>2, <1>3, <1>7, <1>8, <1>11
    <3>2. m \in Stored
      <4>1. frag.id \in Nat /\ frag.size + f.size \in Nat
        BY <1>2, <1>4 DEF FragType
      <4> QED
        BY <1>2, <1>7, <1>8, <1>11, <4>1 DEF Stored
    <3>3. 1 \in 1 .. Count(f)
      BY <1>2, <1>3, <1>11
    <3>4. m.pieces[1] = <<f.from, Number(f), 1>>
      BY <3>1, <3>3
    <3>5. Meaning(m) = <<f.from, Number(f)>>
      <4> HIDE DEF m
      <4>1. m.pieces[1][1] = f.from /\ m.pieces[1][2] = Number(f)
        BY <3>4
      <4> QED
        BY <1>3, <3>1, <4>1 DEF Meaning
    <3>6. arrived[f.from] < Number(f)
      <4>1. arrived[f.from] \in Nat
        BY <1>2 DEF CacheInv
      <4>2. arrived[f.from] <= Number(f) /\ arrived[f.from] # Number(f)
        BY <1>1, <1>7, <1>11 DEF Fresh
      <4> QED
        BY <1>3, <4>1, <4>2
    <3>7. queue' = Append(queue, m)
          /\ arrived' = [arrived EXCEPT ![f.from] = Number(f)]
      <4> HIDE DEF m
      <4>1. m.pieces[1][2] = Number(f)
        BY <3>4
      <4> QED
        BY <2>3, <3>1, <4>1 DEF Store
    <3> QED
      BY <1>2, <1>11, <2>1, <3>2, <3>5, <3>6, <3>7 DEF Handled, Arrives
  <2> QED
    BY <1>11, <2>2, <2>3
<1>12. \/ Refuse /\ frag' = [frag EXCEPT !.reserved = 0]
       \/ Refuse /\ frag' = frag /\ ~Follows(f)
       \/ /\ Follows(f) /\ f.type = "more" /\ Refuse
          /\ frag' = [whole EXCEPT !.reserved = @ - 1]
       \/ /\ Follows(f) /\ f.type = "last"
          /\ frag' = [whole EXCEPT !.reserved = 0]
          /\ Refuse \/ Store(m)
  <2>1. EnqueueMore(f) /\ f.type \in {"more", "last"}
    OBVIOUS
  <2> HIDE DEF f
  <2> QED
    BY <2>1 DEF EnqueueMore
<1> QED
  BY <1>5, <1>6, <1>10, <1>11, <1>12

(***************************************************************************)
(* enqueue() does one of the five things.                                  *)
(***************************************************************************)
LEMMA EnqueueHandled ==
  ASSUME IdsApart, CacheInv, fifo # <<>>, enqueue(Head(fifo))
  PROVE  Handled(Head(fifo))
<1> DEFINE f == Head(fifo)
<1>1. f.type \in {"plain", "first", "more", "last"}
  BY HeadFacts, FrameFacts
<1>2. CASE f.type = "plain"
  <2>1. EnqueuePlain(f)
    BY <1>2 DEF enqueue
  <2> QED
    BY <1>2, <2>1, PlainHandled
<1>3. CASE f.type = "first"
  <2>1. EnqueueFirst(f)
    BY <1>3 DEF enqueue
  <2> QED
    BY <1>3, <2>1, FirstHandled
<1>4. CASE f.type \in {"more", "last"}
  <2>1. EnqueueMore(f)
    BY <1>4 DEF enqueue
  <2> QED
    BY <1>4, <2>1, MoreHandled
<1> QED
  BY <1>1, <1>2, <1>3, <1>4

(***************************************************************************)
(* Whatever it does, what is left of the line suits what is put together.  *)
(***************************************************************************)
LEMMA HandledLine ==
  ASSUME CacheInv, Handled(Head(fifo)), NEW w \in Seq(Frames), w # <<>>,
         Head(w) = Head(fifo), Line(w, frag, arrived)
  PROVE  Line(Tail(w), frag', arrived')
<1> DEFINE f == Head(w)
<1>1. Len(w) \in Nat /\ Len(w) > 0 /\ f = w[1] /\ f \in Frames
  BY LenProperties, EmptySeq, ElementOfSeq
<1>2. Len(frag.pieces) \in Nat /\ arrived \in [Senders -> Nat]
  BY LenProperties DEF CacheInv, Part
<1>3. CASE Skipped(f)
  <2>1. \A q \in 2 .. Len(w) :
          Joins(frag, w[q]) =>
            \/ Index(w[q]) <= Len(frag.pieces) + 1
            \/ \E r \in 2 .. Len(w) :
                 r < q /\ Same(w[r], w[q]) /\ Index(w[r]) = Index(w[q]) - 1
    BY <1>2, <1>3, SkipLine DEF Skipped
  <2>2. \A q \in 2 .. Len(w) : Fresh(w[q], frag, arrived)
    BY <1>1 DEF Line, AllFresh
  <2>3. Line(Tail(w), frag, arrived)
    BY <2>1, <2>2, TailLine
  <2> QED
    BY <1>3, <2>3 DEF Skipped
<1>4. CASE Dropped(f)
  <2>1. Line(Tail(w), frag', arrived)
    BY <1>4, DropLine DEF Dropped
  <2> QED
    BY <1>4, <2>1 DEF Dropped
<1>5. CASE Started(f)
  <2>1. Line(Tail(w), frag', arrived)
    BY <1>5, StartLine DEF Started
  <2> QED
    BY <1>5, <2>1 DEF Started
<1>6. CASE Continued(f)
  <2>1. Line(Tail(w), frag', arrived)
    BY <1>2, <1>6, MoreLine DEF Continued
  <2> QED
    BY <1>6, <2>1 DEF Continued
<1>7. CASE Arrives(f)
  <2>1. /\ arrived' = [arrived EXCEPT ![f.from] = Number(f)]
        /\ Index(f) = Count(f)
        /\ \/ Count(f) = 1 /\ frag' = frag
           \/ frag'.reserved = 0
    BY <1>7 DEF Arrives
  <2>2. \A q \in 2 .. Len(w) : Fresh(w[q], frag', arrived')
    BY <1>2, <2>1, ArrivedFresh
  <2>3. \A q \in 2 .. Len(w) :
          Joins(frag', w[q]) =>
            \/ Index(w[q]) <= Len(frag'.pieces) + 1
            \/ \E r \in 2 .. Len(w) :
                 r < q /\ Same(w[r], w[q]) /\ Index(w[r]) = Index(w[q]) - 1
    <3>1. CASE frag' = frag
      <4>1. \A q \in 2 .. Len(w) :
              Joins(frag, w[q]) =>
                \/ Index(w[q]) <= Len(frag.pieces) + 1
                \/ \E r \in 2 .. Len(w) :
                     r < q /\ Same(w[r], w[q]) /\ Index(w[r]) = Index(w[q]) - 1
        BY <1>2, <2>1, SkipLine
      <4> QED
        BY <3>1, <4>1
    <3>2. CASE frag'.reserved = 0
      BY <3>2 DEF Joins
    <3> QED
      BY <2>1, <3>1, <3>2
  <2> QED
    BY <2>2, <2>3, TailLine
<1> QED
  BY <1>3, <1>4, <1>5, <1>6, <1>7 DEF Handled

(***************************************************************************)
(* What the sender sends next depends on its own state only.               *)
(***************************************************************************)
LEMMA NextFrame ==
  ASSUME CacheInv, NEW s \in Senders, Sending(s)
  PROVE  /\ FrameOf(s) \in Frames
         /\ FrameOf(s).from = s
         /\ Number(FrameOf(s)) = out[s].n
         /\ Index(FrameOf(s)) = out[s].i
         /\ Count(FrameOf(s)) = Messages[s][out[s].n]
         /\ Line(fifo, frag, arrived)
         /\ CanFollow(fifo, FrameOf(s), frag, arrived)
<1>1. /\ out[s].n \in Nat \ {0} /\ out[s].i \in Nat \ {0}
      /\ out[s].i <= Messages[s][out[s].n]
  BY DEF CacheInv
<1>2. out[s].n \in 1 .. Len(Messages[s])
  BY <1>1, SenderAssumption DEF Sending
<1>3. Messages[s][out[s].n] \in Nat
  BY <1>2, SenderAssumption
<1>4. out[s].i \in 1 .. Messages[s][out[s].n]
  BY <1>1, <1>3
<1>5. /\ FrameOf(s) \in Frames
      /\ FrameOf(s).from = s
      /\ Number(FrameOf(s)) = out[s].n
      /\ Index(FrameOf(s)) = out[s].i
      /\ Count(FrameOf(s)) = Messages[s][out[s].n]
  BY <1>2, <1>4, FragmentFrame DEF FrameOf
<1>6. Line(Append(fifo, FrameOf(s)), frag, arrived) /\ fifo \in Seq(Frames)
  BY DEF CacheInv
<1> QED
  BY <1>5, <1>6, AppendLine

(***************************************************************************)
(* update() takes a frame from the radio and enqueues it.                  *)
(***************************************************************************)
LEMMA DrainStep ==
  ASSUME IdsApart, CacheInv, fifo # <<>>, fifo' = Tail(fifo),
         enqueue(Head(fifo)), UNCHANGED out
  PROVE  CacheInv'
<1>1. Handled(Head(fifo))
  BY EnqueueHandled
<1>2. /\ fifo \in Seq(Frames) /\ fifo' \in Seq(Frames)
      /\ Head(fifo) \in Frames /\ Head(fifo).from \in Senders
      /\ Number(Head(fifo)) \in Nat
  BY HeadFacts, FrameNumbers DEF CacheInv
<1>3. Line(fifo', frag', arrived')
  BY <1>1, <1>2, HandledLine DEF CacheInv
<1>4. ASSUME NEW s \in Senders, Sending(s)'
      PROVE  Line(Append(fifo', FrameOf(s)'), frag', arrived')
  <2>1. Sending(s) /\ FrameOf(s)' = FrameOf(s)
    BY <1>4 DEF Sending, FrameOf, Fragment
  <2> DEFINE z == FrameOf(s)
             w == Append(fifo, z)
  <2>2. z \in Frames /\ Line(w, frag, arrived)
    BY <2>1, NextFrame DEF CacheInv
  <2> HIDE DEF z
  <2>3. /\ w \in Seq(Frames) /\ w # <<>>
        /\ Head(w) = Head(fifo) /\ Tail(w) = Append(Tail(fifo), z)
    BY <1>2, <2>2, AppendProperties, HeadTailAppend
  <2> HIDE DEF w
  <2>4. Line(Tail(w), frag', arrived')
    BY <1>1, <2>2, <2>3, HandledLine
  <2> QED
    BY <2>1, <2>3, <2>4 DEF z
<1>5. frag' \in FragType /\ Beginning(frag')
  <2>1. CASE frag' = frag
    BY <2>1 DEF CacheInv, FragType
  <2>2. CASE frag' \in FragType /\ frag'.reserved = 0
    BY <2>2 DEF Beginning
  <2> QED
    BY <1>1, <2>1, <2>2
      DEF Handled, Skipped, Dropped, Started, Continued, Arrives
<1>6. queue' \in Seq(Stored) /\ arrived' \in [Senders -> Nat]
  <2>1. queue \in Seq(Stored) /\ arrived \in [Senders -> Nat]
    BY DEF CacheInv
  <2>2. CASE UNCHANGED <<queue, arrived>>
    BY <2>1, <2>2
  <2>3. CASE Arrives(Head(fifo))
    <3>1. PICK m \in Stored : queue' = Append(queue, m)
      BY <2>3 DEF Arrives
    <3>2. queue' \in Seq(Stored)
      BY <2>1, <3>1, AppendProperties
    <3> QED
      BY <1>2, <2>1, <2>3, <3>2 DEF Arrives
  <2> QED
    BY <1>1, <2>2, <2>3 DEF Handled, Skipped, Dropped, Started, Continued
<1> QED
  BY <1>2, <1>3, <1>4, <1>5, <1>6 DEF CacheInv, Sending, FragType

(***************************************************************************)
(* Where a sender is when it goes on and when it tries again.              *)
(***************************************************************************)
LEMMA OutRecord ==
  ASSUME NEW o \in [n : Nat \ {0}, i : Nat \ {0}, tries : Nat],
         NEW u, u = [o EXCEPT !.i = @ + 1, !.tries = 0],
         NEW v, v = [o EXCEPT !.tries = @ + 1]
  PROVE  /\ u \in [n : Nat \ {0}, i : Nat \ {0}, tries : Nat]
         /\ u.n = o.n /\ u.i = o.i + 1
         /\ v \in [n : Nat \ {0}, i : Nat \ {0}, tries : Nat]
         /\ v.n = o.n /\ v.i = o.i
<1>1. o.i + 1 \in Nat \ {0} /\ o.tries + 1 \in Nat
  OBVIOUS
<1> QED
  BY <1>1

(***************************************************************************)
(* A sender tries a frame, heard or not.                                   *)
(***************************************************************************)
LEMMA TransmitStep ==
  ASSUME MaxCopies = 1, CacheInv, NEW s \in Senders, Transmit(s)
  PROVE  CacheInv'
<1> DEFINE x == FrameOf(s)
           k == Messages[s][out[s].n]
<1>1. /\ x \in Frames /\ x.from = s /\ Number(x) = out[s].n
      /\ Index(x) = out[s].i /\ Count(x) = k
      /\ Line(fifo, frag, arrived) /\ CanFollow(fifo, x, frag, arrived)
  BY NextFrame DEF Transmit
<1>2. /\ fifo \in Seq(Frames)
      /\ out \in [Senders -> [n : Nat \ {0}, i : Nat \ {0}, tries : Nat]]
      /\ out[s] \in [n : Nat \ {0}, i : Nat \ {0}, tries : Nat]
      /\ out[s].i <= k
      /\ arrived \in [Senders -> Nat]
      /\ Len(frag.pieces) \in Nat
  BY LenProperties DEF CacheInv, Transmit, Part
<1>3. k \in Nat
  BY <1>1, FrameNumbers
<1>4. UNCHANGED <<queue, frag, arrived>>
  BY DEF Transmit, node
<1> HIDE DEF x
<1>5. \/ fifo' = fifo /\ Failed(s)
      \/ fifo' = Append(fifo, x) /\ (Sent(s) \/ Failed(s))
  <2>1. CASE fifo' = fifo /\ Failed(s)
    BY <2>1
  <2>2. CASE /\ \E c \in 1 .. MaxCopies :
                  fifo' = fifo \o [j \in 1 .. c |-> FrameOf(s)]
             /\ Sent(s) \/ Failed(s)
    <3>1. fifo' = fifo \o [j \in 1 .. 1 |-> x]
      BY <2>2 DEF x
    <3>2. [j \in 1 .. 1 |-> x] = <<x>>
      OBVIOUS
    <3>3. Append(fifo, x) = fifo \o <<x>>
      BY <1>1, <1>2, AppendIsConcat
    <3> QED
      BY <2>2, <3>1, <3>2, <3>3
  <2> QED
    BY <2>1, <2>2 DEF Transmit
<1>6. fifo' \in Seq(Frames) /\ Line(fifo', frag, arrived)
  <2>1. /\ Append(fifo, x) \in Seq(Frames)
        /\ Line(Append(fifo, x), frag, arrived)
    BY <1>1, <1>2, AppendProperties, AppendLine
  <2> QED
    BY <1>1, <1>2, <1>5, <2>1
<1>7. ASSUME NEW z \in Frames, CanFollow(fifo', z, frag, arrived)
      PROVE  Line(Append(fifo', z), frag, arrived)
  BY <1>6, <1>7, AppendLine
<1> DEFINE moved == [out EXCEPT ![s] = [n |-> @.n + 1, i |-> 1, tries |-> 0]]
<1>8. \/ out' = moved
      \/ /\ fifo' = Append(fifo, x)
         /\ out[s].i # k
         /\ out' = [out EXCEPT ![s].i = @ + 1, ![s].tries = 0]
      \/ k > 1 /\ out' = [out EXCEPT ![s].tries = @ + 1]
  BY <1>5 DEF Sent, Failed, NextMessage
<1>9. ASSUME NEW t \in Senders, t # s
      PROVE  /\ out'[t] = out[t]
             /\ Sending(t)' => Line(Append(fifo', FrameOf(t)'), frag, arrived)
  <2>1. out'[t] = out[t]
    BY <1>2, <1>8, <1>9
  <2>2. Sending(t)' = Sending(t) /\ FrameOf(t)' = FrameOf(t)
    BY <2>1 DEF Sending, FrameOf, Fragment
  <2>3. ASSUME Sending(t)
        PROVE  Line(Append(fifo', FrameOf(t)), frag, arrived)
    <3> DEFINE z == FrameOf(t)
    <3>1. z \in Frames /\ z.from = t /\ CanFollow(fifo, z, frag, arrived)
      BY <2>3, NextFrame
    <3> HIDE DEF z
    <3>2. CanFollow(fifo', z, frag, arrived)
      <4>1. CanFollow(Append(fifo, x), z, frag, arrived)
        BY <1>1, <1>2, <1>9, <3>1, OthersFollow
      <4> QED
        BY <1>5, <3>1, <4>1
    <3>3. Line(Append(fifo', z), frag, arrived)
      BY <1>7, <3>1, <3>2
    <3> QED
      BY <3>3 DEF z
  <2> QED
    BY <2>1, <2>2, <2>3
<1>10. /\ out' \in [Senders -> [n : Nat \ {0}, i : Nat \ {0}, tries : Nat]]
       /\ Sending(s)' => out'[s].i <= Messages[s][out'[s].n]
       /\ Sending(s)' => Line(Append(fifo', FrameOf(s)'), frag, arrived)
  <2>1. CASE out' = moved
    <3>1. /\ out'[s] = [n |-> out[s].n + 1, i |-> 1, tries |-> 0]
          /\ out' \in [Senders -> [n : Nat \ {0}, i : Nat \ {0}, tries : Nat]]
      BY <1>2, <2>1
    <3>2. ASSUME Sending(s)'
          PROVE  /\ 1 <= Messages[s][out[s].n + 1]
                 /\ Line(Append(fifo', FrameOf(s)'), frag, arrived)
      <4>1. out[s].n + 1 \in 1 .. Len(Messages[s])
        BY <1>2, <3>1, <3>2, SenderAssumption DEF Sending
      <4>2. Messages[s][out[s].n + 1] \in Nat \ {0}
        BY <4>1, SenderAssumption
      <4>3. 1 \in 1 .. Messages[s][out[s].n + 1]
        BY <4>2
      <4> DEFINE y == Fragment(s, out[s].n + 1, 1)
      <4>4. /\ y \in Frames /\ y.from = s
            /\ Number(y) = out[s].n + 1 /\ Index(y) = 1
        BY <4>1, <4>3, FragmentFrame
      <4>5. FrameOf(s)' = y
        BY <3>1 DEF FrameOf, Fragment
      <4> HIDE DEF y
      <4>6. CanFollow(fifo', y, frag, arrived)
        <5>1. /\ CanFollow(fifo, y, frag, arrived)
              /\ CanFollow(Append(fifo, x), y, frag, arrived)
          BY <1>1, <1>2, <4>4, SenderMovesOn
        <5> QED
          BY <1>5, <5>1
      <4>7. Line(Append(fifo', y), frag, arrived)
        BY <1>7, <4>4, <4>6
      <4> QED
        BY <4>2, <4>5, <4>7
    <3> QED
      BY <3>1, <3>2
  <2>2. CASE /\ fifo' = Append(fifo, x)
             /\ out[s].i # k
             /\ out' = [out EXCEPT ![s].i = @ + 1, ![s].tries = 0]
    <3> DEFINE o == [out[s] EXCEPT !.i = @ + 1, !.tries = 0]
    <3>a. /\ o \in [n : Nat \ {0}, i : Nat \ {0}, tries : Nat]
          /\ o.n = out[s].n /\ o.i = out[s].i + 1
      BY <1>2, OutRecord
    <3>b. out' = [out EXCEPT ![s] = o]
      BY <1>2, <2>2
    <3> HIDE DEF o
    <3>1. /\ out'[s].n = out[s].n /\ out'[s].i = out[s].i + 1
          /\ out' \in [Senders -> [n : Nat \ {0}, i : Nat \ {0}, tries : Nat]]
      BY <1>2, <3>a, <3>b
    <3>2. out[s].i + 1 <= k /\ out[s].i + 1 \in 1 .. k /\ k > 1
      BY <1>2, <1>3, <2>2
    <3>3. out[s].n \in 1 .. Len(Messages[s])
      BY <1>2, SenderAssumption DEF Transmit, Sending
    <3> DEFINE y == Fragment(s, out[s].n, out[s].i + 1)
    <3>4. /\ y \in Frames /\ y.from = s
          /\ Number(y) = out[s].n /\ Index(y) = out[s].i + 1
      BY <3>2, <3>3, FragmentFrame
    <3>5. FrameOf(s)' = y
      BY <3>1 DEF FrameOf, Fragment
    <3> HIDE DEF y
    <3>6. Same(x, y) /\ Index(y) = Index(x) + 1 /\ Count(x) > 1
      BY <1>1, <3>2, <3>4 DEF Same
    <3>7. CanFollow(fifo', y, frag, arrived)
      BY <1>1, <1>2, <2>2, <3>4, <3>6, SenderGoesOn
    <3>8. Line(Append(fifo', y), frag, arrived)
      BY <1>7, <3>4, <3>7
    <3> QED
      BY <3>1, <3>2, <3>5, <3>8
  <2>3. CASE k > 1 /\ out' = [out EXCEPT ![s].tries = @ + 1]
    <3> DEFINE o == [out[s] EXCEPT !.tries = @ + 1]
    <3>a. /\ o \in [n : Nat \ {0}, i : Nat \ {0}, tries : Nat]
          /\ o.n = out[s].n /\ o.i = out[s].i
      BY <1>2, OutRecord
    <3>b. out' = [out EXCEPT ![s] = o]
      BY <1>2, <2>3
    <3> HIDE DEF o
    <3>1. /\ out'[s].n = out[s].n /\ out'[s].i = out[s].i
          /\ out' \in [Senders -> [n : Nat \ {0}, i : Nat \ {0}, tries : Nat]]
      BY <1>2, <3>a, <3>b
    <3>2. FrameOf(s)' = x
      BY <3>1 DEF FrameOf, Fragment, x
    <3>3. Same(x, x) /\ Count(x) > 1
      BY <1>1, <2>3 DEF Same
    <3>4. CanFollow(fifo', x, frag, arrived)
      BY <1>1, <1>2, <1>5, <3>3, SenderGoesOn
    <3>5. Line(Append(fifo', x), frag, arrived)
      BY <1>1, <1>7, <3>4
    <3> QED
      BY <1>2, <3>1, <3>2, <3>5
  <2> QED
    BY <1>8, <2>1, <2>2, <2>3
<1>11. \A t \in Senders : Sending(t)' => out'[t].i <= Messages[t][out'[t].n]
  BY <1>9, <1>10 DEF CacheInv, Sending
<1>12. \A t \in Senders :
         Sending(t)' => Line(Append(fifo', FrameOf(t)'), frag, arrived)
  BY <1>9, <1>10
<1> QED
  BY <1>4, <1>6, <1>10, <1>11, <1>12 DEF CacheInv, Beginning

(***************************************************************************)
(* Every step keeps the invariant.                                         *)
(***************************************************************************)
LEMMA CacheStep ==
  ASSUME MaxCopies = 1, IdsApart, CacheInv, [Next]_vars
  PROVE  CacheInv'
<1>1. CASE \E s \in Senders : Transmit(s)
  BY <1>1, TransmitStep
<1>2. CASE UNCHANGED <<out, fifo, frag, arrived>> /\ queue' \in Seq(Stored)
  BY <1>2 DEF CacheInv, Sending, FrameOf, Fragment, Beginning
<1>3. queue \in Seq(Stored)
  BY DEF CacheInv
<1>4. CASE Update \/ Write \/ UNCHANGED vars
  BY <1>2, <1>3, <1>4 DEF Update, Write, vars
<1>5. CASE Drain
  <2>1. CASE fifo # <<>>
    BY <1>5, <2>1, DrainStep DEF Drain
  <2>2. CASE fifo = <<>>
    BY <1>2, <1>3, <1>5, <2>2 DEF Drain
  <2> QED
    BY <2>1, <2>2
<1>6. CASE Read
  <2>1. queue # <<>> /\ queue' = Tail(queue)
    BY <1>6 DEF Read, Available
  <2>2. queue' \in Seq(Stored)
    BY <1>3, <2>1, HeadTailProperties
  <2> QED
    BY <1>2, <1>6, <2>2 DEF Read
<1> QED
  BY <1>1, <1>4, <1>5, <1>6 DEF Next

(***************************************************************************)
(* At power-up nothing has been sent, and every sender is at its first     *)
(* frame.                                                                  *)
(***************************************************************************)
LEMMA CacheStart ==
  ASSUME Init
  PROVE  CacheInv
<1>1. /\ fifo = <<>> /\ fifo \in Seq(Frames) /\ Len(fifo) = 0
      /\ queue \in Seq(Stored)
  BY EmptySeq DEF Init
<1>2. /\ out = [s \in Senders |-> [n |-> 1, i |-> 1, tries |-> 0]]
      /\ arrived = [s \in Senders |-> 0]
      /\ frag.reserved = 0
  BY DEF Init
<1>3. frag \in FragType
  <2>1. <<>> \in Part
    BY EmptySeq DEF Part
  <2> QED
    BY <2>1 DEF Init, FragType
<1>4. Line(fifo, frag, arrived)
  BY <1>1 DEF Line, InOrder, NoJump, Grows, AllFresh
<1>5. ASSUME NEW s \in Senders, Sending(s)
      PROVE  /\ out[s].i <= Messages[s][out[s].n]
             /\ Line(Append(fifo, FrameOf(s)), frag, arrived)
  <2>1. 1 \in 1 .. Len(Messages[s])
    BY <1>2, <1>5, SenderAssumption DEF Sending
  <2>2. Messages[s][1] \in Nat \ {0}
    BY <2>1, SenderAssumption
  <2>3. 1 \in 1 .. Messages[s][1]
    BY <2>2
  <2>4. FrameOf(s) = Fragment(s, 1, 1)
    BY <1>2 DEF FrameOf
  <2> DEFINE x == FrameOf(s)
  <2>5. x \in Frames /\ x.from = s /\ Number(x) = 1 /\ Index(x) = 1
    BY <2>1, <2>3, <2>4, FragmentFrame
  <2> HIDE DEF x
  <2>6. Fresh(x, frag, arrived)
    BY <1>2, <2>5 DEF Fresh
  <2>7. CanFollow(fifo, x, frag, arrived)
    BY <1>1, <1>2, <2>6 DEF CanFollow, Joins
  <2>8. Line(Append(fifo, x), frag, arrived)
    BY <1>1, <1>4, <2>5, <2>7, AppendLine
  <2> QED
    BY <1>2, <2>2, <2>8 DEF x
<1>6. out \in [Senders -> [n : Nat \ {0}, i : Nat \ {0}, tries : Nat]]
      /\ arrived \in [Senders -> Nat]
  BY <1>2
<1>7. Beginning(frag)
  BY <1>2 DEF Beginning
<1> QED
  BY <1>1, <1>3, <1>4, <1>5, <1>6, <1>7 DEF CacheInv, FragType

(***************************************************************************)
(* The invariant holds of every reachable state, when no frame is relayed  *)
(* twice and ids are apart.                                                *)
(***************************************************************************)
THEOREM CacheInvariant ==
  ASSUME MaxCopies = 1, IdsApart
  PROVE  Spec => []CacheInv
<1>1. Init => CacheInv
  BY CacheStart
<1>2. CacheInv /\ [Next]_vars => CacheInv'
  BY CacheStep
<1> QED
  BY <1>1, <1>2, PTL DEF Spec

---------------------------------------------------------------------------
\* What the cache holds, as the application sees it
Inbox == [j \in DOMAIN queue |-> Meaning(queue[j])]

(***************************************************************************)
(* A message stored is the last of the inbox.                              *)
(***************************************************************************)
LEMMA InboxAppend ==
  ASSUME queue \in Seq(Stored), NEW m \in Stored, queue' = Append(queue, m)
  PROVE  Inbox' = Append(Inbox, Meaning(m))
<1>1. /\ queue' \in Seq(Stored) /\ Len(queue') = Len(queue) + 1
      /\ \A j \in 1 .. Len(queue) : queue'[j] = queue[j]
      /\ queue'[Len(queue) + 1] = m
      /\ Len(queue) \in Nat /\ DOMAIN queue = 1 .. Len(queue)
      /\ DOMAIN queue' = 1 .. Len(queue')
  BY AppendProperties, LenProperties
<1> DEFINE S == {Meaning(e) : e \in Stored}
<1>2. \A v : Meaning(v)' = Meaning(v)
  BY DEF Meaning
<1>3. Inbox = [j \in 1 .. Len(queue) |-> Meaning(queue[j])]
  BY <1>1 DEF Inbox
<1>4. \A j \in 1 .. Len(queue) : queue[j] \in Stored
  BY ElementOfSeq
<1>5. Inbox \in Seq(S) /\ Len(Inbox) = Len(queue) /\ Meaning(m) \in S
  <2>1. \A j \in 1 .. Len(queue) : Meaning(queue[j]) \in S
    BY <1>4
  <2> HIDE DEF S
  <2>2. Inbox \in Seq(S)
    BY <1>1, <1>3, <2>1, IsASeq
  <2>3. Len(Inbox) = Len(queue)
    BY <1>1, <1>3, <2>2, LenProperties
  <2> QED
    BY <2>2, <2>3 DEF S
<1> HIDE DEF S
<1>6. /\ Append(Inbox, Meaning(m)) \in Seq(S)
      /\ Len(Append(Inbox, Meaning(m))) = Len(queue) + 1
      /\ \A j \in 1 .. Len(queue) :
           Append(Inbox, Meaning(m))[j] = Meaning(queue[j])
      /\ Append(Inbox, Meaning(m))[Len(queue) + 1] = Meaning(m)
  BY <1>3, <1>5, AppendProperties
<1>7. Inbox' = [j \in 1 .. Len(queue) + 1 |-> Meaning(queue'[j])]
  BY <1>1, <1>2 DEF Inbox
<1>8. \A j \in 1 .. Len(queue) + 1 :
        Meaning(queue'[j]) = Append(Inbox, Meaning(m))[j]
  BY <1>1, <1>6
<1>9. Append(Inbox, Meaning(m))
        = [j \in 1 .. Len(queue) + 1 |-> Append(Inbox, Meaning(m))[j]]
  BY <1>6, LenProperties
<1> QED
  BY <1>7, <1>8, <1>9

(***************************************************************************)
(* A message read is the first of the inbox.                               *)
(***************************************************************************)
LEMMA InboxTail ==
  ASSUME queue \in Seq(Stored), queue # <<>>, queue' = Tail(queue)
  PROVE  Inbox # <<>> /\ Inbox' = Tail(Inbox)
<1>1. /\ queue' \in Seq(Stored) /\ Len(queue') = Len(queue) - 1
      /\ \A j \in 1 .. Len(queue') : queue'[j] = queue[j + 1]
      /\ Len(queue) \in Nat /\ Len(queue) > 0
      /\ DOMAIN queue = 1 .. Len(queue)
      /\ DOMAIN queue' = 1 .. Len(queue')
  BY HeadTailProperties, LenProperties, EmptySeq
<1> DEFINE S == {Meaning(e) : e \in Stored}
<1>2. \A v : Meaning(v)' = Meaning(v)
  BY DEF Meaning
<1>3. Inbox = [j \in 1 .. Len(queue) |-> Meaning(queue[j])]
  BY <1>1 DEF Inbox
<1>4. \A j \in 1 .. Len(queue) : Meaning(queue[j]) \in S
  BY ElementOfSeq
<1> HIDE DEF S
<1>5. Inbox \in Seq(S) /\ Len(Inbox) = Len(queue)
  <2>1. Inbox \in Seq(S)
    BY <1>1, <1>3, <1>4, IsASeq
  <2> QED
    BY <1>1, <1>3, <2>1, LenProperties
<1>6. Inbox # <<>>
  BY <1>1, <1>5, EmptySeq
<1>7. /\ Tail(Inbox) \in Seq(S) /\ Len(Tail(Inbox)) = Len(queue) - 1
      /\ \A j \in 1 .. Len(queue) - 1 : Tail(Inbox)[j] = Inbox[j + 1]
  BY <1>5, <1>6, HeadTailProperties
<1>8. \A j \in 1 .. Len(queue) - 1 : j + 1 \in 1 .. Len(queue)
  BY <1>1
<1>9. Inbox' = [j \in 1 .. Len(queue) - 1 |-> Meaning(queue'[j])]
  BY <1>1, <1>2 DEF Inbox
<1>10. \A j \in 1 .. Len(queue) - 1 : Meaning(queue'[j]) = Tail(Inbox)[j]
  BY <1>1, <1>3, <1>7, <1>8
<1>11. Tail(Inbox) = [j \in 1 .. Len(queue) - 1 |-> Tail(Inbox)[j]]
  BY <1>7, LenProperties
<1> QED
  BY <1>6, <1>9, <1>10, <1>11

(***************************************************************************)
(* Every step of the node is one of the abstract queue, or none.           *)
(***************************************************************************)
LEMMA StepImplements ==
  ASSUME MaxCopies = 1, IdsApart, CacheInv, [Next]_vars
  PROVE  [Promise!Next]_<<Inbox, arrived>>
<1>1. queue \in Seq(Stored)
  BY DEF CacheInv
<1>2. CASE UNCHANGED <<queue, arrived>>
  BY <1>2 DEF Inbox, Meaning
<1>3. CASE \E s \in Senders : Transmit(s)
  BY <1>2, <1>3 DEF Transmit, node
<1>4. CASE Update \/ Write \/ UNCHANGED vars
  BY <1>2, <1>4 DEF Update, Write, vars
<1>5. CASE Read
  <2>1. queue # <<>> /\ queue' = Tail(queue) /\ arrived' = arrived
    BY <1>5 DEF Read, Available
  <2>2. Inbox # <<>> /\ Inbox' = Tail(Inbox)
    BY <1>1, <2>1, InboxTail
  <2> QED
    BY <2>1, <2>2 DEF Promise!Next, Promise!Take, Inbox
<1>6. CASE Drain /\ fifo # <<>>
  <2> DEFINE f == Head(fifo)
  <2>1. Handled(f)
    BY <1>6, EnqueueHandled DEF Drain
  <2>2. f \in Frames
    BY <1>6, HeadFacts
  <2> HIDE DEF f
  <2>3. CASE Arrives(f)
    <3>1. PICK m \in Stored : /\ queue' = Append(queue, m)
                              /\ Meaning(m) = <<f.from, Number(f)>>
      BY <2>3 DEF Arrives
    <3>2. Inbox' = Append(Inbox, <<f.from, Number(f)>>)
      BY <1>1, <3>1, InboxAppend
    <3>3. /\ arrived[f.from] < Number(f)
          /\ arrived' = [arrived EXCEPT ![f.from] = Number(f)]
      BY <2>3 DEF Arrives
    <3>4. /\ f.from \in Senders
          /\ Number(f) \in 1 .. [s \in Senders |-> Len(Messages[s])][f.from]
      BY <2>2, FrameFacts
    <3>5. Promise!Arrive(f.from, Number(f))
      BY <3>2, <3>3 DEF Promise!Arrive, Inbox
    <3> QED
      BY <3>4, <3>5 DEF Promise!Next
  <2>4. CASE UNCHANGED <<queue, arrived>>
    BY <1>2, <2>4
  <2> QED
    BY <2>1, <2>3, <2>4 DEF Handled, Skipped, Dropped, Started, Continued
<1>7. CASE Drain /\ fifo = <<>>
  BY <1>2, <1>7 DEF Drain
<1> QED
  BY <1>3, <1>4, <1>5, <1>6, <1>7 DEF Next

(***************************************************************************)
(* The cache implements the lossy queue of whole messages: nothing lost,   *)
(* repeated or interleaved on the air, and no hold, delivers a message     *)
(* torn, twice or out of its sender's order.                               *)
(***************************************************************************)
THEOREM CacheIsQueue ==
  ASSUME MaxCopies = 1, IdsApart
  PROVE  Spec => QueueOfMessages
<1>1. Init => Promise!Init
  <2> SUFFICES ASSUME Init PROVE Promise!Init
    OBVIOUS
  <2>1. queue = <<>> /\ DOMAIN queue = {}
    BY DEF Init
  <2>2. [j \in DOMAIN queue |-> Meaning(queue[j])] = <<>>
    BY <2>1
  <2> QED
    BY <2>2 DEF Init, Promise!Init
<1>2. CacheInv /\ [Next]_vars => [Promise!Next]_<<Inbox, arrived>>
  BY StepImplements
<1> QED
  BY <1>1, <1>2, CacheInvariant, PTL
    DEF Spec, QueueOfMessages, Promise!Spec, Inbox

---------------------------------------------------------------------------
(***************************************************************************)
(* The two ways the cache can be overrun.  Nothing is asked of the ids and *)
(* of relays here: the argument is about sizes, and about a message of     *)
(* fragments having at least two pieces when it is complete.               *)
(***************************************************************************)
AnyPiece  == Senders \X Nat \X Nat
AnyFrame  == [from : Senders, id : Nat, piece : AnyPiece,
              type : {"plain", "first", "more", "last"}, reserved : Int,
              size : Nat]
AnyStored == [from : Senders \cup {"none"}, id : Nat, pieces : Seq(AnyPiece),
              size : Nat]
AnyFrag   == [from : Senders \cup {"none"}, id : Nat, reserved : Int,
              pieces : Seq(AnyPiece), size : Nat]
AnyOut    == [n : Nat \ {0}, i : Nat \ {0}, tries : Nat]

\* A fragment put together has a piece, unless none is expected.
Begun(g) == g \in AnyFrag /\ (g.reserved # 0 => Len(g.pieces) > 0)

SpillInv ==
  /\ out \in [Senders -> AnyOut]
  /\ fifo \in Seq(AnyFrame)
  /\ queue \in Seq(AnyStored)
  /\ used \in Int
  /\ Begun(frag)
  /\ OverrunCause

LEMMA FragFields ==
  ASSUME NEW g \in AnyFrag
  PROVE  /\ g.from \in Senders \cup {"none"} /\ g.id \in Nat
         /\ g.reserved \in Int /\ g.pieces \in Seq(AnyPiece) /\ g.size \in Nat
         /\ Len(g.pieces) \in Nat
BY DEF AnyFrag

LEMMA FragReserved ==
  ASSUME NEW g \in AnyFrag, NEW r \in Int
  PROVE  /\ [g EXCEPT !.reserved = r] \in AnyFrag
         /\ [g EXCEPT !.reserved = r].reserved = r
         /\ [g EXCEPT !.reserved = r].pieces = g.pieces
BY DEF AnyFrag

\* A frame sent is typed.
LEMMA SentFrame ==
  ASSUME SpillInv, NEW s \in Senders, Sending(s)
  PROVE  FrameOf(s) \in AnyFrame
<1> DEFINE n == out[s].n
           i == out[s].i
           k == Messages[s][n]
<1>1. n \in Nat \ {0} /\ i \in Nat \ {0}
  BY DEF SpillInv, AnyOut
<1>2. n \in 1 .. Len(Messages[s]) /\ Messages[s] \in Seq(Nat \ {0})
  BY <1>1, SenderAssumption DEF Sending
<1>3. k \in Nat /\ IdBase[s] \in Nat
  BY <1>2, SenderAssumption
<1>4. PlainSize \in Nat /\ TailSize \in Nat /\ FramePayload \in Nat
  BY SizeAssumption
<1>5. <<s, n, i>> \in AnyPiece
  BY <1>1 DEF AnyPiece
<1> DEFINE type == IF k = 1 THEN "plain" ELSE IF i = 1 THEN "first"
                     ELSE IF i = k THEN "last" ELSE "more"
           rest == IF k = 1 \/ i = k THEN 0 ELSE k - i + 1
           size == IF k = 1 THEN PlainSize ELSE IF i = k THEN TailSize
                     ELSE FramePayload
<1>6. type \in {"plain", "first", "more", "last"} /\ rest \in Int /\ size \in Nat
  BY <1>1, <1>3, <1>4
<1>7. FrameOf(s) = [from |-> s, id |-> IdBase[s] + n, piece |-> <<s, n, i>>,
                    type |-> type, reserved |-> rest, size |-> size]
  BY DEF FrameOf, Fragment
<1>8. IdBase[s] + n \in Nat
  BY <1>1, <1>3
<1> HIDE DEF type, rest, size, k, n, i
<1> QED
  BY <1>5, <1>6, <1>7, <1>8 DEF AnyFrame

\* Sending changes neither the cache nor what is put together.
LEMMA TransmitSpill ==
  ASSUME SpillInv, NEW s \in Senders, Transmit(s)
  PROVE  SpillInv'
<1>1. UNCHANGED <<queue, used, frag>>
  BY DEF Transmit, node
<1>2. OverrunCause'
  BY <1>1 DEF SpillInv, OverrunCause, Overrun
<1>3. fifo' \in Seq(AnyFrame)
  <2>1. CASE fifo' = fifo
    BY <2>1 DEF SpillInv
  <2>2. ASSUME NEW c \in 1 .. MaxCopies,
               fifo' = fifo \o [j \in 1 .. c |-> FrameOf(s)]
        PROVE  fifo' \in Seq(AnyFrame)
    <3>1. FrameOf(s) \in AnyFrame /\ fifo \in Seq(AnyFrame)
      BY SentFrame DEF Transmit, SpillInv
    <3>2. c \in Nat
      BY SizeAssumption
    <3>3. [j \in 1 .. c |-> FrameOf(s)] \in Seq(AnyFrame)
      BY <3>1, <3>2, IsASeq
    <3> QED
      BY <2>2, <3>1, <3>3, ConcatProperties
  <2> QED
    BY <2>1, <2>2 DEF Transmit
<1>4. out' \in [Senders -> AnyOut]
  <2> DEFINE o == out[s]
             a == [n |-> o.n + 1, i |-> 1, tries |-> 0]
             u == [o EXCEPT !.i = @ + 1, !.tries = 0]
             v == [o EXCEPT !.tries = @ + 1]
  <2>1. out \in [Senders -> AnyOut] /\ o \in AnyOut
    BY DEF SpillInv
  <2>2. a \in AnyOut
    BY <2>1 DEF AnyOut
  <2>3. u \in AnyOut /\ v \in AnyOut
    BY <2>1, OutRecord DEF AnyOut
  <2>4. \/ out' = [out EXCEPT ![s] = a]
        \/ out' = [out EXCEPT ![s] = u]
        \/ out' = [out EXCEPT ![s] = v]
    <3>1. CASE NextMessage(s)
      BY <2>1, <3>1 DEF NextMessage
    <3>2. CASE out' = [out EXCEPT ![s].i = @ + 1, ![s].tries = 0]
      BY <2>1, <3>2
    <3>3. CASE out' = [out EXCEPT ![s].tries = @ + 1]
      BY <2>1, <3>3
    <3> QED
      BY <3>1, <3>2, <3>3 DEF Transmit, Sent, Failed
  <2> HIDE DEF a, u, v
  <2> QED
    BY <2>1, <2>2, <2>3, <2>4
<1> QED
  BY <1>1, <1>2, <1>3, <1>4 DEF SpillInv

\* A message stored is the last of the queue, and its size the difference of
\* the bytes used.
LEMMA StoreSpill ==
  ASSUME SpillInv, NEW m \in AnyStored, Store(m)
  PROVE  /\ queue' \in Seq(AnyStored)
         /\ queue'[Len(queue')] = m
         /\ used' = used + FrameHeader + m.size
         /\ used' \in Int
         /\ used' - (FrameHeader + m.size) = used
<1>1. queue \in Seq(AnyStored) /\ queue' = Append(queue, m) /\ used \in Int
  BY DEF SpillInv, Store
<1>2. m.size \in Nat /\ FrameHeader \in Nat
  BY SizeAssumption DEF AnyStored
<1>3. used' = used + FrameHeader + m.size
  BY DEF Store
<1> QED
  BY <1>1, <1>2, <1>3, AppendProperties

\* One frame: the header is the most it spills.
LEMMA PlainSpill ==
  ASSUME SpillInv, ~Overrun, NEW f \in AnyFrame, EnqueuePlain(f)
  PROVE  /\ queue' \in Seq(AnyStored) /\ used' \in Int /\ frag' = frag
         /\ OverrunCause'
<1> DEFINE m == [from |-> f.from, id |-> f.id, pieces |-> <<f.piece>>,
                 size |-> f.size]
<1>1. frag' = frag
  BY DEF EnqueuePlain
<1>2. CASE Refuse
  BY <1>1, <1>2 DEF Refuse, SpillInv, OverrunCause, Overrun
<1>3. CASE f.size + used <= MainBuffer /\ Store(m)
  <2>1. /\ <<f.piece>> \in Seq(AnyPiece) /\ Len(<<f.piece>>) = 1
        /\ f.size \in Nat
    BY DEF AnyFrame
  <2>2. m \in AnyStored /\ m.pieces = <<f.piece>> /\ m.size = f.size
    BY <2>1 DEF AnyFrame, AnyStored
  <2> HIDE DEF m
  <2>3. /\ queue' \in Seq(AnyStored)
        /\ queue'[Len(queue')] = m
        /\ used' = used + FrameHeader + m.size
        /\ used' \in Int
    BY <1>3, <2>2, StoreSpill
  <2>4. used' <= MainBuffer + FrameHeader
    <3>1. used \in Int /\ MainBuffer \in Nat /\ FrameHeader \in Nat
      BY SizeAssumption DEF SpillInv
    <3> QED
      BY <1>3, <2>1, <2>2, <2>3, <3>1
  <2>5. OverrunCause'
    BY <2>1, <2>2, <2>3, <2>4 DEF OverrunCause
  <2> QED
    BY <1>1, <2>3, <2>5
<1> QED
  BY <1>2, <1>3 DEF EnqueuePlain

\* The remainder that Fits() compares is at most the room there is.
LEMMA FitsRoom ==
  ASSUME used \in Int, used <= MaxPayload, NEW size \in Nat, Fits(size)
  PROVE  used + FrameHeader + size <= MainBuffer
<1> DEFINE r == MaxPayload - used
<1>1. r \in Nat /\ IntMod \in Nat \ {0} /\ MainBuffer \in Nat
      /\ FrameHeader \in Nat /\ FrameHeader <= 10
  BY SizeAssumption DEF MaxPayload
<1>2. r % IntMod <= r
  <2> HIDE DEF r
  <2>1. CASE r < IntMod
    BY <1>1, <2>1
  <2>2. CASE r >= IntMod
    <3>1. r % IntMod \in 0 .. IntMod - 1
      BY <1>1
    <3> QED
      BY <1>1, <2>2, <3>1
  <2> QED
    BY <1>1, <2>1, <2>2
<1>3. size <= r
  <2>1. r % IntMod >= size
    BY DEF Fits
  <2>2. r % IntMod \in Int
    BY <1>1
  <2> HIDE DEF r
  <2> QED
    BY <1>1, <1>2, <2>1, <2>2
<1> QED
  BY <1>1, <1>3 DEF MaxPayload

\* A fragment: nothing is stored but a message of two pieces or more.
LEMMA MoreSpill ==
  ASSUME SpillInv, ~Overrun, NEW f \in AnyFrame, EnqueueMore(f)
  PROVE  /\ queue' \in Seq(AnyStored) /\ used' \in Int
         /\ Begun(frag')
         /\ OverrunCause'
<1> DEFINE whole == [frag EXCEPT !.pieces = Append(@, f.piece),
                                 !.size = @ + f.size]
           m == [from |-> frag.from, id |-> frag.id,
                 pieces |-> whole.pieces, size |-> whole.size]
<1>1. /\ Begun(frag) /\ frag \in AnyFrag
      /\ used \in Int /\ queue \in Seq(AnyStored)
      /\ f.piece \in AnyPiece /\ f.size \in Nat
  BY DEF SpillInv, AnyFrame, Begun
<1>2. /\ whole \in AnyFrag
      /\ Len(whole.pieces) = Len(frag.pieces) + 1
  <2> DEFINE P == Append(frag.pieces, f.piece)
             S == frag.size + f.size
  <2>1. P \in Seq(AnyPiece) /\ Len(P) = Len(frag.pieces) + 1 /\ S \in Nat
    BY <1>1, FragFields, AppendProperties
  <2>2. whole = [frag EXCEPT !.pieces = P, !.size = S]
    OBVIOUS
  <2> HIDE DEF P, S, whole
  <2> QED
    BY <1>1, <2>1, <2>2 DEF AnyFrag
<1>3. /\ Len(frag.pieces) \in Nat
      /\ whole.reserved \in Int /\ whole.size \in Nat
      /\ whole.pieces \in Seq(AnyPiece)
      /\ frag.from \in Senders \cup {"none"} /\ frag.id \in Nat
  BY <1>1, <1>2, FragFields
<1>4. /\ Begun([frag EXCEPT !.reserved = 0])
      /\ Begun([whole EXCEPT !.reserved = 0])
  <2> HIDE DEF whole
  <2>1. \A g \in AnyFrag : Begun([g EXCEPT !.reserved = 0])
    BY FragReserved, 0 \in Int DEF Begun
  <2> QED
    BY <1>1, <1>2, <2>1
<1>5. Begun([whole EXCEPT !.reserved = @ - 1])
  <2> HIDE DEF whole
  <2> DEFINE r == whole.reserved - 1
  <2>1. r \in Int /\ Len(whole.pieces) > 0
    BY <1>2, <1>3
  <2>2. [whole EXCEPT !.reserved = @ - 1] = [whole EXCEPT !.reserved = r]
    OBVIOUS
  <2> HIDE DEF r
  <2> QED
    BY <1>2, <2>1, <2>2, FragReserved DEF Begun
<1>6. CASE Refuse
  <2>1. Begun(frag')
    <3>1. \/ frag' = frag
          \/ frag' = [frag EXCEPT !.reserved = 0]
          \/ frag' = [whole EXCEPT !.reserved = @ - 1]
          \/ frag' = [whole EXCEPT !.reserved = 0]
      BY DEF EnqueueMore
    <3> HIDE DEF whole
    <3> QED
      BY <1>1, <1>4, <1>5, <3>1
  <2>2. OverrunCause'
    BY <1>6 DEF Refuse, SpillInv, OverrunCause, Overrun
  <2> QED
    BY <1>1, <1>6, <2>1, <2>2 DEF Refuse
<1>7. CASE /\ Follows(f) /\ Fits(whole.size) /\ Store(m)
           /\ frag' = [whole EXCEPT !.reserved = 0]
  <2>1. Len(whole.pieces) # 1
    <3>1. Len(frag.pieces) > 0
      BY <1>1, <1>7 DEF Follows, Begun
    <3> HIDE DEF whole
    <3> QED
      BY <1>2, <1>3, <3>1
  <2>2. m \in AnyStored /\ m.pieces = whole.pieces /\ m.size = whole.size
    <3> HIDE DEF whole
    <3> QED
      BY <1>3 DEF AnyStored
  <2> HIDE DEF m, whole
  <2>3. /\ queue' \in Seq(AnyStored)
        /\ queue'[Len(queue')] = m
        /\ used' = used + FrameHeader + m.size
        /\ used' \in Int
        /\ used' - (FrameHeader + m.size) = used
    BY <1>7, <2>2, StoreSpill
  <2>4. MaxPayload \in Int /\ MainBuffer \in Nat
    BY SizeAssumption DEF MaxPayload
  <2>5. used <= MaxPayload => ~Overrun'
    <3>1. used <= MaxPayload => used + FrameHeader + whole.size <= MainBuffer
      BY <1>1, <1>3, <1>7, FitsRoom
    <3> QED
      BY <2>2, <2>3, <2>4, <3>1 DEF Overrun
  <2>6. used <= MainBuffer
    BY <1>1, <2>4 DEF Overrun
  <2>7. ~(used <= MaxPayload) => used \in MaxPayload + 1 .. MainBuffer
    BY <1>1, <2>4, <2>6
  <2>8. OverrunCause'
    <3>1. Len(m.pieces) # 1
      BY <2>1, <2>2
    <3> QED
      BY <2>3, <2>5, <2>7, <3>1 DEF OverrunCause
  <2> QED
    BY <1>4, <1>7, <2>3, <2>8
<1> QED
  BY <1>6, <1>7 DEF EnqueueMore

\* A first fragment stores nothing.
LEMMA FirstSpill ==
  ASSUME SpillInv, NEW f \in AnyFrame, EnqueueFirst(f)
  PROVE  UNCHANGED <<queue, used>> /\ Begun(frag')
<1> DEFINE g == [from |-> f.from, id |-> f.id, reserved |-> f.reserved - 1,
                 pieces |-> <<f.piece>>, size |-> f.size]
<1>1. UNCHANGED <<queue, used>>
  BY DEF EnqueueFirst, Refuse
<1>2. Begun(frag) /\ frag \in AnyFrag
  BY DEF SpillInv, Begun
<1>3. f.reserved > MaxFragments \/ f.reserved <= MaxFragments
  BY SizeAssumption DEF MaxFragments, AnyFrame
<1>4. \/ frag' = [frag EXCEPT !.reserved = 0]
      \/ frag' = frag
      \/ frag' = g
  BY <1>3 DEF EnqueueFirst
<1>5. Begun([frag EXCEPT !.reserved = 0])
  BY <1>2, FragReserved DEF Begun
<1>6. Begun(g)
  <2>1. /\ <<f.piece>> \in Seq(AnyPiece) /\ Len(<<f.piece>>) = 1
        /\ f.from \in Senders /\ f.id \in Nat /\ f.reserved - 1 \in Int
        /\ f.size \in Nat
    BY DEF AnyFrame
  <2> QED
    BY <2>1 DEF Begun, AnyFrag
<1> HIDE DEF g
<1> QED
  BY <1>1, <1>2, <1>4, <1>5, <1>6

\* A turn of the loop of update() with a frame to take.
LEMMA DrainSpill ==
  ASSUME SpillInv, Drain, fifo # <<>>
  PROVE  SpillInv'
<1> DEFINE f == Head(fifo)
<1>1. f \in AnyFrame /\ Tail(fifo) \in Seq(AnyFrame)
  BY HeadTailProperties DEF SpillInv
<1>2. /\ fifo' = Tail(fifo) /\ out' = out /\ ~Overrun
      /\ enqueue(f)
  BY DEF Drain
<1>3. f.type \in {"plain", "first", "more", "last"}
  BY <1>1 DEF AnyFrame
<1> HIDE DEF f
<1>4. /\ queue' \in Seq(AnyStored) /\ used' \in Int
      /\ Begun(frag')
      /\ OverrunCause'
  <2>1. CASE f.type = "plain"
    <3>1. EnqueuePlain(f)
      BY <1>2, <2>1 DEF enqueue
    <3> QED
      BY <1>1, <1>2, <3>1, PlainSpill DEF SpillInv
  <2>2. CASE f.type = "first"
    <3>1. EnqueueFirst(f)
      BY <1>2, <2>2 DEF enqueue
    <3>2. UNCHANGED <<queue, used>>
      BY <1>1, <3>1, FirstSpill
    <3>3. OverrunCause'
      BY <3>2 DEF SpillInv, OverrunCause, Overrun
    <3> QED
      BY <1>1, <3>1, <3>2, <3>3, FirstSpill DEF SpillInv
  <2>3. CASE f.type \in {"more", "last"}
    <3>1. EnqueueMore(f)
      BY <1>2, <2>3 DEF enqueue
    <3> QED
      BY <1>1, <1>2, <3>1, MoreSpill
  <2> QED
    BY <1>3, <2>1, <2>2, <2>3
<1> QED
  BY <1>1, <1>2, <1>4 DEF SpillInv

\* Reading gives room back.
LEMMA ReadSpill ==
  ASSUME SpillInv, Read
  PROVE  SpillInv'
<1>1. /\ queue \in Seq(AnyStored) /\ queue # <<>> /\ used \in Int
      /\ ~Overrun
  BY DEF SpillInv, Read, Available
<1>2. Head(queue) \in AnyStored /\ Tail(queue) \in Seq(AnyStored)
  BY <1>1, HeadTailProperties
<1>3. Head(queue).size \in Nat /\ FrameHeader \in Nat /\ MainBuffer \in Nat
  BY <1>2, SizeAssumption DEF AnyStored
<1>4. used' = used - (Head(queue).size + FrameHeader) /\ queue' = Tail(queue)
  BY DEF Read
<1>5. used' \in Int /\ ~Overrun'
  BY <1>1, <1>3, <1>4 DEF Overrun
<1>6. OverrunCause'
  BY <1>5 DEF OverrunCause
<1> QED
  BY <1>2, <1>4, <1>5, <1>6 DEF SpillInv, Read

(***************************************************************************)
(* The cache is overrun in those two ways only, for any senders, messages, *)
(* ids, sizes and relays.                                                  *)
(***************************************************************************)
THEOREM OverrunHasCause == Spec => []OverrunCause
<1>1. Init => SpillInv
  <2> SUFFICES ASSUME Init PROVE SpillInv
    OBVIOUS
  <2>1. ~Overrun
    BY SizeAssumption DEF Init, Overrun
  <2>2. <<>> \in Seq(AnyPiece) /\ <<>> \in Seq(AnyFrame) /\ <<>> \in Seq(AnyStored)
    BY EmptySeq
  <2>3. OverrunCause
    BY <2>1 DEF OverrunCause
  <2> QED
    BY <2>2, <2>3 DEF Init, SpillInv, AnyOut, AnyFrag, Begun
<1>2. SpillInv /\ [Next]_vars => SpillInv'
  <2> SUFFICES ASSUME SpillInv, [Next]_vars PROVE SpillInv'
    OBVIOUS
  <2>1. CASE UNCHANGED <<out, fifo, queue, used, frag>>
    BY <2>1 DEF SpillInv, OverrunCause, Overrun
  <2>2. CASE \E s \in Senders : Transmit(s)
    BY <2>2, TransmitSpill
  <2>3. CASE Update \/ Write \/ UNCHANGED vars
    BY <2>1, <2>3 DEF Update, Write, vars
  <2>4. CASE Drain
    <3>1. CASE fifo # <<>>
      BY <2>4, <3>1, DrainSpill
    <3>2. CASE fifo = <<>>
      BY <2>1, <2>4, <3>2 DEF Drain
    <3> QED
      BY <3>1, <3>2
  <2>5. CASE Read
    BY <2>5, ReadSpill
  <2> QED
    BY <2>2, <2>3, <2>4, <2>5 DEF Next
<1>3. SpillInv => OverrunCause
  BY DEF SpillInv
<1> QED
  BY <1>1, <1>2, <1>3, PTL DEF Spec
===========================================================================
